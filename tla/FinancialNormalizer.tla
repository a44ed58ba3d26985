------------------------- MODULE FinancialNormalizer -------------------------
(***************************************************************************)
(* FinancialNormalizer (parsers/financial_normalizer.py): how values and   *)
(* periods as filings write them become one scale and one label, and the   *)
(* KPI tracker's use of it (kpi_tracker/agent.py, _normalize_extracted).   *)
(*                                                                         *)
(* A writing is a record of its parts; which regular expression finds it   *)
(* follows from them.                                                      *)
(***************************************************************************)
EXTENDS Integers, Sequences, FiniteSets

CONSTANTS
    Numbers,    \* the digits of a value
    Thousand,   \* a thousand
    Years

ASSUME NormalizerAssumption == Numbers \subseteq Nat /\ Thousand \in Nat \ {0}

\* kind: an amount of money, a percentage (with the sign or the word), a number
\* of shares, a ratio (5x). suffix: k, m, b and their kin, or a word that is
\* none. after: the suffix or unit stands after a closing parenthesis.
UnitSuffixes == {"none", "thousand", "million", "billion", "odd"}
ValueWriting == {v \in [number : Numbers, kind : {"money", "sign", "percent", "shares", "ratio"},
                        suffix : UnitSuffixes, currency : {"none", "USD", "EUR"},
                        mark : {"none", "minus", "parentheses"}, after : BOOLEAN] :
                   /\ v.kind \notin {"money", "shares"} => v.suffix = "none"
                   /\ v.kind # "money" => v.currency = "none"
                   /\ v.after => /\ v.mark = "parentheses"
                                 /\ v.kind # "money" \/ v.suffix # "none"}

ContextUnits == {"none", "thousands", "millions", "billions"}

\* Q3 2024; Q3 FY2024; third quarter [of fiscal year] 2024; third quarter of
\* FY24; three months ended September 30, 2024; twelve months ended; year
\* ended; FY2024; fiscal year 2024; annual 2024; nine months ended; 2024.
QuarterForms == {"Q", "Q of FY", "quarter", "quarter of FY", "three months"}
AnnualForms == {"twelve months", "year ended", "FY", "fiscal year", "annual", "year"}
PeriodWriting == {p \in [form : QuarterForms \cup AnnualForms \cup {"nine months"}, year : Years,
                         quarter : 0 .. 4] :
                    p.quarter = 0 <=> p.form \notin QuarterForms}

VARIABLE item   \* an extracted value or period, and what is made of it

Refused == [value |-> 0, unit |-> "unknown", negative |-> FALSE]
NoItem == [pc |-> "idle"]

-----------------------------------------------------------------------------
(* normalize_value, in thousandths of a million for money and percents as   *)
(* they are.                                                               *)

Power == [none |-> 1, thousand |-> Thousand, million |-> Thousand * Thousand,
          billion |-> Thousand * Thousand * Thousand]
ContextScale == [none |-> Thousand, thousands |-> 1, millions |-> Thousand,
                 billions |-> Thousand * Thousand]

\* Parentheses are taken off when they enclose the text, but for a sign of
\* per cent; else no pattern for a number matches.
Enclosed(v) == ~v.after \/ v.kind = "sign"

\* Mutant: the unit of the table scales a number that has a suffix too.
ContextAlways(v, context) ==
    IF v.suffix = "none" THEN v.number * ContextScale[context]
    ELSE v.number * (Power[v.suffix] \div Thousand) * (ContextScale[context] \div Thousand)

\* A suffix counts, and the unit of the context only without one.
Monetary(v, context) ==
    IF v.suffix = "none" THEN v.number * ContextScale[context]
    ELSE v.number * (Power[v.suffix] \div Thousand)

NormalizeValue(v, context) ==
    IF ~Enclosed(v) \/ v.suffix = "odd" THEN Refused
    ELSE [negative |-> v.mark # "none",
          value |-> CASE v.kind = "money" -> Monetary(v, context)
                      [] v.kind = "shares" -> v.number * Power[v.suffix]
                      [] OTHER -> v.number,
          unit |-> CASE v.kind = "money" /\ v.currency = "EUR" -> "EUR_millions"
                     [] v.kind = "money" /\ v.currency # "EUR" -> "USD_millions"
                     [] v.kind = "shares" -> "count"
                     [] v.kind = "ratio" -> "ratio"
                     [] OTHER -> "percentage"]

-----------------------------------------------------------------------------
(* normalize_period: the first pattern that is found decides.              *)

Unreadable == [year |-> 0, quarter |-> 0]

\* Mutant: a quarter in words is read as its year.
PeriodOfYear(p) ==
    IF p.form \in {"nine months", "year", "quarter of FY"} THEN Unreadable
    ELSE [year |-> p.year, quarter |-> IF p.form \in {"Q", "three months"} THEN p.quarter ELSE 0]

\* A Q is found with its year right behind it, and FY of what is left is a
\* year; words need four digits somewhere.
NormalizePeriod(p) ==
    IF p.form \in {"nine months", "year", "quarter of FY"} THEN Unreadable
    ELSE [year |-> p.year, quarter |-> IF p.form = "Q of FY" THEN 0 ELSE p.quarter]

-----------------------------------------------------------------------------

NormalizerInit == item = NoItem

\* _normalize_extracted, which has no context unit; tables have one. Value and
\* period do not depend on each other.
NormalizeItemValue(v, context) ==
    item' = [pc |-> "value", raw |-> v, context |-> context, value |-> NormalizeValue(v, context)]
NormalizeItemPeriod(p) ==
    item' = [pc |-> "period", period |-> p, label |-> NormalizePeriod(p)]

NormalizerNext ==
    /\ item = NoItem
    /\ \/ \E v \in ValueWriting, context \in ContextUnits : NormalizeItemValue(v, context)
       \/ \E p \in PeriodWriting : NormalizeItemPeriod(p)

NormalizerSpec == NormalizerInit /\ [][NormalizerNext]_item

-----------------------------------------------------------------------------
(* Properties.                                                             *)

NormalizerTypeOK ==
    /\ item.pc \in {"idle", "value", "period"}
    /\ item.pc = "value" => item.value \in [value : Nat, negative : BOOLEAN,
            unit : {"USD_millions", "EUR_millions", "count", "ratio", "percentage", "unknown"}]
    /\ item.pc = "period" => item.label \in [year : Years \cup {0}, quarter : 0 .. 4]

\* What a reader takes the value for, in thousands of the currency or in
\* shares: the suffix at the number, else the unit of its table.
Meaning(v, context) ==
    LET unit == IF v.suffix # "none" THEN v.suffix ELSE context
    IN CASE v.kind = "money" /\ unit \in {"thousand", "thousands"} -> v.number
         [] v.kind = "money" /\ unit \in {"million", "millions", "none"} -> v.number * Thousand
         [] v.kind = "money" /\ unit \in {"billion", "billions"} -> v.number * Thousand * Thousand
         [] v.kind = "shares" -> v.number * Power[v.suffix]
         [] OTHER -> v.number

\* A value is refused or means what its writing does, and so two writings of
\* one amount are one value to the KPI tracker and no restatement; a period is
\* refused or has its year and quarter, Q3 FY2024 apart, which becomes FY2024.
NormalizedOrRefused ==
    /\ item.pc = "value" =>
        \/ item.value = Refused
        \/ /\ item.value.value = Meaning(item.raw, item.context)
           /\ item.value.negative <=> item.raw.mark \in {"minus", "parentheses"}
    /\ item.pc = "period" =>
        \/ item.label = Unreadable \/ item.period.form = "Q of FY"
        \/ item.label = [year |-> item.period.year, quarter |-> item.period.quarter]
=============================================================================
