------------------------------ MODULE KpiViews ------------------------------
(***************************************************************************)
(* The readers of kpi_timeseries, which each order the rows of a KPI in    *)
(* their own way: the dashboard (routers/coverages.py), the KPI tracker's  *)
(* year-over-year summary, the bull case's financial summary, the bear     *)
(* case's trend and the tables of the report. KpiTracker writes the rows.  *)
(***************************************************************************)
EXTENDS Integers, Sequences, FiniteSets, Functions

CONSTANTS
    Periods,      \* [year, quarter], with quarter 0 for a fiscal year
    KpiValues,    \* values of the one KPI that is read
    TrendLength,  \* rows of the bear case's trend, 6 in the code
    MaxRows       \* bound on rows

ASSUME ViewsAssumption ==
    /\ Periods \subseteq [year : Nat, quarter : Nat] /\ KpiValues \subseteq Int
    /\ TrendLength \in Nat \ {0} /\ MaxRows \in Nat

NoChange == <<>>

VARIABLES
    rows,    \* in the order of their transactions; at: extracted_at
    views    \* what each reader makes of them

viewVars == <<rows, views>>

NotRead == [pc |-> "unread"]

ViewsInit == rows = <<>> /\ views = NotRead

\* The rows of one transaction have one extracted_at.
Extract(period, value, together) ==
    /\ views = NotRead /\ Len(rows) < MaxRows
    /\ rows = <<>> => ~together
    /\ rows' = Append(rows, [period |-> period, value |-> value,
                             at |-> IF rows = <<>> THEN 1
                                    ELSE rows[Len(rows)].at + (IF together THEN 0 ELSE 1)])
    /\ UNCHANGED views

-----------------------------------------------------------------------------

Annual(row) == row.period.quarter = 0

Row == [period : Periods, value : KpiValues, at : Nat]

\* The orders in which a reader may take the rows with numbers S: the database
\* gives them in any, and a stable sort leaves ties in that.
Precedes(a, b) == a[1] < b[1] \/ (a[1] = b[1] /\ a[2] < b[2])
Sorted(S, key) ==
    {f \in Bijection(1 .. Cardinality(S), S) :
        \A i, j \in 1 .. Cardinality(S) : i < j => ~Precedes(key[f[j]], key[f[i]])}

ByPeriod == [i \in DOMAIN rows |-> <<rows[i].period.year, rows[i].period.quarter>>]
ByYear == [i \in DOMAIN rows |-> <<rows[i].period.year, 0>>]
NewestFirst == [i \in DOMAIN rows |-> <<0 - rows[i].at, 0>>]

\* As strings: FY2023, FY2024, Q1 2024, Q4 2023.
ByLabel == [i \in DOMAIN rows |-> <<rows[i].period.quarter, rows[i].period.year>>]

\* The change in parts of the size of what was before, and none from nothing.
Change(value, prior) ==
    IF prior = 0 THEN NoChange ELSE <<value - prior, IF prior < 0 THEN 0 - prior ELSE prior>>

\* Mutant: the point before, of whatever kind.
PointBefore(points, i) == {j \in DOMAIN points : j + 1 = i}

\* The last value of the same period_type.
PriorPoint(points, i) ==
    {j \in DOMAIN points : /\ j < i /\ (Annual(points[j]) <=> Annual(points[i]))
                           /\ \A k \in j + 1 .. i - 1 : ~(Annual(points[k]) <=> Annual(points[i]))}

\* _data_points_with_yoy, for list_kpis and get_kpi.
DataPoints(points) ==
    [i \in DOMAIN points |->
        [row |-> points[i],
         yoy |-> IF PriorPoint(points, i) = {} THEN NoChange
                 ELSE Change(points[i].value,
                             points[CHOOSE j \in PriorPoint(points, i) : TRUE].value)]]

\* compute_yoy_change, the percentage of the two last annual rows.
ComputeYoy(annual) ==
    LET n == Len(annual)
    IN IF n < 2 THEN NoChange ELSE Change(annual[n].value, annual[n-1].value)

\* compare_narrative_to_data: the last rows to be extracted, oldest first, and
\* whether they fall where management was positive about the KPI.
Trend(newest) ==
    LET n == IF Len(newest) < TrendLength THEN Len(newest) ELSE TrendLength
    IN [i \in 1 .. n |-> newest[n + 1 - i]]
Diverges(trend, positive) ==
    positive /\ Len(trend) >= 2 /\ trend[Len(trend)].value < trend[1].value

\* The rows in an order.
Taken(f) == [i \in DOMAIN f |-> rows[f[i]]]

AnnualRows == {i \in DOMAIN rows : Annual(rows[i])}

\* Each reader has the rows of its own query; the summary is get_financial_summary's,
\* for one of the standard KPIs.
ReadViews(positive) ==
    /\ views = NotRead /\ rows # <<>>
    /\ \E points \in Sorted(DOMAIN rows, ByPeriod), annual \in Sorted(AnnualRows, ByYear),
          latest, newest \in Sorted(DOMAIN rows, NewestFirst), table \in Sorted(DOMAIN rows, ByLabel) :
         views' = [pc |-> "read", points |-> DataPoints(Taken(points)),
                   yoy |-> ComputeYoy(Taken(annual)), summary |-> rows[latest[1]],
                   trend |-> Trend(Taken(newest)),
                   divergence |-> Diverges(Trend(Taken(newest)), positive),
                   table |-> Taken(table)]
    /\ UNCHANGED rows

ViewsNext ==
    \/ \E p \in Periods, v \in KpiValues, together \in BOOLEAN : Extract(p, v, together)
    \/ \E positive \in BOOLEAN : ReadViews(positive)

ViewsSpec == ViewsInit /\ [][ViewsNext]_viewVars

-----------------------------------------------------------------------------
(* Properties.                                                             *)

ViewsTypeOK ==
    /\ rows \in Seq(Row)
    /\ views # NotRead =>
        /\ views.summary \in Row /\ views.trend \in Seq(Row) /\ views.table \in Seq(Row)
        /\ views.divergence \in BOOLEAN

OncePerPeriod(S) == \A i, j \in S : rows[i].period = rows[j].period => i = j
Earlier(a, b) == a.year < b.year \/ (a.year = b.year /\ a.quarter < b.quarter)
SameKind(a, b) == Annual(a) <=> Annual(b)

\* The fiscal years among themselves, and the quarters: an annual report may
\* be extracted before or after those of its quarters, or together with them.
InTurn ==
    \A i, j \in DOMAIN rows :
        SameKind(rows[i], rows[j]) /\ Earlier(rows[i].period, rows[j].period) =>
            rows[i].at <= rows[j].at

LastOfItsKind(i) ==
    \A k \in DOMAIN views.points : k > i => ~SameKind(views.points[k].row, views.points[i].row)

\* The bull case's latest value is the last of its kind on the dashboard, or of
\* the same period as that, or was extracted together with it.
SummaryIsLast ==
    \A i \in DOMAIN views.points :
        LastOfItsKind(i) /\ SameKind(views.points[i].row, views.summary) =>
            \/ views.points[i].row.period = views.summary.period
            \/ views.points[i].row.at = views.summary.at

\* After a row of the bear case's trend comes every row of its kind that the
\* dashboard has for a later period, unless they were extracted together.
TrendRunsOn ==
    \A i \in DOMAIN views.trend, k \in DOMAIN views.points :
        LET later == views.points[k].row
        IN SameKind(views.trend[i], later) /\ Earlier(views.trend[i].period, later.period)
             /\ views.trend[i].at # later.at =>
           \E j \in DOMAIN views.trend : j > i /\ views.trend[j] = later

\* The readers agree where their orders must. Where no fiscal year was
\* restated, the change the dashboard shows at the last one is the change in
\* the KPI tracker's summary; where the filings of each kind were extracted in
\* turn, the bull and the bear case end where the dashboard's series of a kind
\* does. A report's table of fiscal years runs in time; one with quarters does
\* not, Q1 2024 standing before Q4 2023.
ViewsAgree ==
    views # NotRead =>
        /\ OncePerPeriod(AnnualRows) =>
             \A i \in DOMAIN views.points :
                 Annual(views.points[i].row) /\ LastOfItsKind(i) => views.points[i].yoy = views.yoy
        /\ InTurn => SummaryIsLast /\ TrendRunsOn
        /\ OncePerPeriod(DOMAIN rows) /\ AnnualRows = DOMAIN rows =>
             views.table = [i \in DOMAIN rows |-> views.points[i].row]

\* munger_invert/tools.py: a divergence is one "between management's narrative
\* and the KPI's actual trend": there is none while neither the fiscal years
\* nor the quarters ever fall, and each were extracted one after the other.
\* The code does not keep this: it compares a quarter with a fiscal year.
DivergenceIsActual ==
    views # NotRead /\ OncePerPeriod(DOMAIN rows)
      /\ (\A i, j \in DOMAIN rows :
            SameKind(rows[i], rows[j]) /\ Earlier(rows[i].period, rows[j].period) =>
                rows[i].at < rows[j].at /\ rows[i].value <= rows[j].value) =>
    ~views.divergence
=============================================================================
