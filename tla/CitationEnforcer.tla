-------------------------- MODULE CitationEnforcer --------------------------
(***************************************************************************)
(* CitationEnforcer.validate (shared/citation_enforcer.py): six checks on  *)
(* an agent's text, the verdict over them and the coverage it reports; and *)
(* the earlier gate of the agents' own schemas (lynch_pitch, munger_invert *)
(* and earnings_monitor, parse functions and schemas.py): the floor under  *)
(* the whole text, and what each answer of a pitch or a bear case needs.   *)
(* That all answers are there, with numbers and a company type, and what   *)
(* the sections of an update need, are left to AgentRun's Unparsable.      *)
(*                                                                         *)
(* A text is a sequence of pieces, each of them one feature the checks     *)
(* look for, and where paragraphs and sentences end between them.          *)
(***************************************************************************)
EXTENDS Integers, Sequences, FiniteSets

CONSTANTS
    MaxPieces,   \* bound on the pieces of a text
    Paddings     \* numbers of paragraphs before them: an answer each, with its header, a
                 \* cited claim and a full stop

\* is, are, was...: in lower case, or not; a digit; a number with a unit; a
\* forecast, an inference, a label (inferred from ...); "not found in uploaded
\* documents"; the header of an answer (### Q8: ...); citations whose quote the
\* retriever finds, finds something like it, or does not find; one whose quote
\* has the end of a sentence inside; an attempt that is malformed.
Citations == {"exact", "close", "absent", "cut"}
Features == {"prose", "verb", "Verb", "digit", "number", "forecast", "inference", "label",
             "notfound", "header", "malformed"} \cup Citations

\* opens: a blank line comes before it. stop: it ends in a full stop; a quote
\* does so only if the full stop follows the quotation mark.
Piece == [feature : Features, opens : BOOLEAN, stop : BOOLEAN]

ASSUME EnforcerAssumption == Paddings \subseteq Nat /\ MaxPieces \in Nat

VARIABLES
    text, padding,   \* what validate is given
    verdict          \* what it returns

enforcerVars == <<text, padding, verdict>>

NoVerdict == [status |-> "none", approved |-> FALSE, hallucinations |-> 0,
              reported |-> <<0, 0>>, findings |-> FALSE]

-----------------------------------------------------------------------------
(* Paragraphs and sentences, each the indices of its pieces.               *)

\* The paragraph of piece i: no blank line in between.
Paragraph(s, i) ==
    {j \in DOMAIN s : \A k \in DOMAIN s : (i < k /\ k <= j) \/ (j < k /\ k <= i) => ~s[k].opens}
Paragraphs(s) == {Paragraph(s, i) : i \in DOMAIN s}

\* A sentence ends at a full stop before white space, and nowhere else: the
\* end of a paragraph does not end it.
Sentence(s, i) ==
    {j \in DOMAIN s : \A k \in DOMAIN s : (i <= k /\ k < j) \/ (j <= k /\ k < i) =>
                          ~s[k].stop /\ s[k].feature # "cut"}

NextSentence(s, i) ==
    LET later == {j \in DOMAIN s : j \notin Sentence(s, i) /\ j > i}
    IN IF later = {} THEN {} ELSE Sentence(s, CHOOSE j \in later : \A k \in later : j <= k)

Has(s, where, features) == \E i \in where : s[i].feature \in features

\* A cut citation matches in its paragraph, not in either of its sentences.
CitedParagraph(s, p) == Has(s, p, Citations)
CitedSentence(s, where) == Has(s, where, Citations \ {"cut"})

\* Citations name filings, 10-K or FY2023: they have digits, and so do headers.
HasDigit(s, p) == Has(s, p, {"digit", "number", "header"} \cup Citations)
HasVerb(s, p) == Has(s, p, {"verb"})
HasAnyVerb(s, p) == Has(s, p, {"verb", "Verb"})

-----------------------------------------------------------------------------
(* Coverages, as fractions: cited paragraphs of the claims.                *)

Coverage(s, pad, claims) ==
    <<pad + Cardinality({p \in claims : CitedParagraph(s, p)}), pad + Cardinality(claims)>>

\* Without claims the coverage is full.
AtLeast(coverage, percent) ==
    coverage[2] = 0 \/ 100 * coverage[1] >= percent * coverage[2]

\* _compute_citation_coverage, which is reported: paragraphs with a digit.
ReportedCoverage(s, pad) == Coverage(s, pad, {p \in Paragraphs(s) : HasDigit(s, p)})

\* _check_citation_coverage: paragraphs with a digit or a verb in lower case.
Claims(s) == {p \in Paragraphs(s) : HasDigit(s, p) \/ HasVerb(s, p)}

\* Mutant: the bar for a partial output.
PassesEighty(s, pad) == AtLeast(Coverage(s, pad, Claims(s)), 80)

PassesCoverage(s, pad) == AtLeast(Coverage(s, pad, Claims(s)), 95)

\* The answer under the header h: what comes before the next. Under 0 is what
\* comes before the first, the rest of the last answer of the padding.
Body(s, h) ==
    {j \in DOMAIN s : h < j /\ \A k \in DOMAIN s : h < k /\ k <= j => s[k].feature # "header"}

ParagraphsOf(s, body) == {Paragraph(s, i) \cap body : i \in body}

\* _answer_coverage: a verb in any case, and what is declared as not found is
\* no claim.
AnswerCoverage(s, body, pad) ==
    Coverage(s, pad, {p \in ParagraphsOf(s, body) :
                        (HasDigit(s, p) \/ HasAnyVerb(s, p)) /\ ~Has(s, p, {"notfound"})})

\* The validators of LynchPitch, MungerCase and QuarterlyUpdate: 90 % of the
\* claims in the whole text, before the enforcer is asked at all.
PassesFloor(s, pad) == AtLeast(AnswerCoverage(s, DOMAIN s, pad), 90)

\* require_citation_or_not_found, of AnswerWithCitation.
AnswerStands(s, body, pad) ==
    \/ body = {} \/ Has(s, body, {"notfound"})
    \/ AtLeast(AnswerCoverage(s, body, pad), 50)

\* Without padding, what comes before the first header is no answer.
AnswersStand(s, pad) ==
    /\ pad > 0 => AnswerStands(s, Body(s, 0), 1)
    /\ \A h \in DOMAIN s : s[h].feature = "header" => AnswerStands(s, Body(s, h), 0)

-----------------------------------------------------------------------------
(* The other checks.                                                       *)

PassesFormat(s) == ~Has(s, DOMAIN s, {"malformed"})

Absent(s) == {i \in DOMAIN s : s[i].feature = "absent"}
Close(s) == {i \in DOMAIN s : s[i].feature = "close"}

\* A number needs a citation in its sentence or the next, or from one into the
\* other.
PassesNumbers(s) ==
    \A i \in DOMAIN s : s[i].feature = "number" =>
        \/ CitedSentence(s, Sentence(s, i) \cup NextSentence(s, i))
        \/ Has(s, Sentence(s, i), {"cut"})

\* A forecast needs one in its sentence.
PassesForecasts(s) ==
    \A i \in DOMAIN s : s[i].feature = "forecast" => CitedSentence(s, Sentence(s, i))

PassesInferences(s) ==
    \A i \in DOMAIN s : s[i].feature = "inference" => Has(s, Sentence(s, i), {"label"})

Approved(s, pad) ==
    /\ PassesCoverage(s, pad) /\ PassesFormat(s) /\ Absent(s) = {}
    /\ PassesNumbers(s) /\ PassesForecasts(s) /\ PassesInferences(s)

-----------------------------------------------------------------------------

EnforcerInit ==
    /\ text = <<>> /\ padding = 0
    /\ verdict = NoVerdict

\* The agent's text, piece by piece.
Write(piece) ==
    /\ verdict = NoVerdict /\ Len(text) < MaxPieces
    /\ text = <<>> => piece.opens
    /\ text' = Append(text, piece)
    /\ UNCHANGED <<padding, verdict>>

\* The lists of a check are cut to five entries, and the count is taken from
\* the list: five hallucinations are the most that are reported.
ValidateText(pad) ==
    /\ verdict = NoVerdict
    /\ padding' = pad
    /\ LET count == Cardinality(Absent(text))
           reported == ReportedCoverage(text, pad)
       IN verdict' = [status |-> IF Approved(text, pad) THEN "approved"
                                 ELSE IF AtLeast(reported, 80) THEN "partial" ELSE "failed",
                      approved |-> Approved(text, pad),
                      hallucinations |-> IF count > 5 THEN 5 ELSE count,
                      reported |-> reported,
                      findings |-> Absent(text) \cup Close(text) # {}]
    /\ UNCHANGED text

EnforcerNext ==
    \/ \E piece \in Piece : Write(piece)
    \/ \E pad \in Paddings : ValidateText(pad)

EnforcerSpec == EnforcerInit /\ [][EnforcerNext]_enforcerVars

-----------------------------------------------------------------------------
(* Properties.                                                             *)

EnforcerTypeOK ==
    /\ Len(text) <= MaxPieces /\ \A i \in DOMAIN text : text[i] \in Piece
    /\ padding \in Paddings \cup {0}
    /\ verdict.status \in {"none", "approved", "partial", "failed"}
    /\ verdict.approved <=> verdict.status = "approved"
    /\ verdict.hallucinations \in 0 .. 5
    /\ verdict.reported[1] \in 0 .. verdict.reported[2]

\* A paragraph that cites and declares something as not found is a claim to the
\* enforcer, and none to the schema.
CitedButSetAside(s) ==
    \E p \in Paragraphs(s) : CitedParagraph(s, p) /\ Has(s, p, {"notfound"})

HeadersOpen(s) == \A i \in DOMAIN s : s[i].feature = "header" => s[i].opens

\* What the enforcer approves is above the floor of the schemas, whatever they
\* each count as a claim, but for two things: verbs that begin with a capital
\* are claims to the schema alone, and cited paragraphs it sets aside leave the
\* others a larger share. And if the text has fewer than twenty claims, each
\* of its answers stands, where the headers begin paragraphs.
EnforcerIsStricter ==
    verdict.approved /\ ~Has(text, DOMAIN text, {"Verb"}) /\ ~CitedButSetAside(text) =>
        /\ PassesFloor(text, padding)
        /\ HeadersOpen(text) /\ padding + Cardinality(Claims(text)) < 20 =>
             AnswersStand(text, padding)

\* lynch_pitch/schemas.py: the enforcer "applies its own, stricter 95% gate",
\* and the 90 % of the schema is "just the minimum sanity bar". The code does
\* not keep this: a capitalised verb is a claim to the schema alone.
StricterGate == verdict.approved => PassesFloor(text, padding)
=============================================================================
