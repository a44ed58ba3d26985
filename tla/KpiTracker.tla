----------------------------- MODULE KpiTracker -----------------------------
(***************************************************************************)
(* The KPI tracker agent (kpi_tracker/agent.py, tools.py) on one coverage: *)
(* a run picks the indexed documents no kpi_timeseries row cites, asks an  *)
(* LLM for the KPI values of each, and inserts what is new or restated.    *)
(* Runs overlap; every run has one database session, lent by _run_agent,   *)
(* which its first commit closes (module AgentTasks).                      *)
(***************************************************************************)
EXTENDS Integers, Sequences, FiniteSets

CONSTANTS
    Docs,      \* documents of the coverage
    Answer,    \* of each document, the items the LLM extracts: <<key, value>>
    Cited,     \* of each document, the document_name the LLM writes
    Trackers   \* runs of the agent

\* A key is a KPI and a period.
Items == UNION {{Answer[d][i] : i \in DOMAIN Answer[d]} : d \in Docs}
Keys == {i[1] : i \in Items}
Values == {i[2] : i \in Items}

ASSUME KpiAssumption ==
    /\ IsFiniteSet(Trackers)
    /\ \A d \in Docs : Answer[d] \in Seq(Items)

VARIABLES
    indexed,     \* documents with ingest_status indexed
    series,      \* kpi_timeseries, in the order of its commits
    tracker,     \* each run
    clock        \* transactions begun

kpiVars == <<indexed, series, tracker, clock>>

-----------------------------------------------------------------------------

\* at: extracted_at, which is func.now(), the start of the transaction.
\* base, for the properties: how many rows had been committed at that time.
RowRecord == [key : Keys, value : Values, restated : BOOLEAN, name : {Cited[d] : d \in Docs},
              at : 1 .. Cardinality(Trackers), base : Nat]

\* item: where the loop of upsert_kpi_timeseries stands in the answer to doc.
NoDoc == "none"
TrackerPC == {"idle", "extract", "upsert", "completed", "failed"}
TrackerRecord == [pc : TrackerPC, session : {"open", "closed"}, docs : SUBSET Docs,
                  doc : Docs \cup {NoDoc}, item : Nat \ {0}, batch : Seq(RowRecord),
                  at : 0 .. Cardinality(Trackers), base : Nat]
NotStarted == [pc |-> "idle", session |-> "open", docs |-> {}, doc |-> NoDoc, item |-> 1,
               batch |-> <<>>, at |-> 0, base |-> 0]

KpiInit ==
    /\ indexed = {}
    /\ series = <<>>
    /\ tracker = [r \in Trackers |-> NotStarted]
    /\ clock = 0

\* Ingestion completes, see module Ingestion.
IndexDocument(d) ==
    /\ indexed' = indexed \cup {d}
    /\ d \notin indexed
    /\ UNCHANGED <<series, tracker, clock>>

UnderWay(r) == tracker[r].pc \in {"extract", "upsert"}

\* get_unextracted_documents, in the order the database happens to give.
Unextracted == {d \in indexed : \A i \in DOMAIN series : series[i].name # d}

StartTracker(r) ==
    /\ tracker[r].pc = "idle"
    /\ clock' = clock + 1
    /\ tracker' = [tracker EXCEPT ![r].pc = "extract", ![r].docs = Unextracted,
                                  ![r].at = clock', ![r].base = Len(series)]
    /\ UNCHANGED <<indexed, series>>

\* No context, no JSON, no item that parses, or none whose value and period
\* can be normalised: the document is passed over and nothing is written.
SkipDocument(r) ==
    /\ tracker[r].pc = "extract"
    /\ \E d \in tracker[r].docs : tracker' = [tracker EXCEPT ![r].docs = @ \ {d}]
    /\ UNCHANGED <<indexed, series, clock>>

\* An answer with items: the loop of upsert_kpi_timeseries begins.
StartUpsert(r) ==
    /\ tracker[r].pc = "extract"
    /\ \E d \in tracker[r].docs :
         tracker' = [tracker EXCEPT ![r].pc = "upsert", ![r].docs = @ \ {d},
                                    ![r].doc = d, ![r].item = 1]
    /\ UNCHANGED <<indexed, series, clock>>

OfKey(rows, key) == {i \in DOMAIN rows : rows[i].key = key}

\* Mutant: the oldest row is compared.
Oldest(rows, key) ==
    {rows[i] : i \in {j \in OfKey(rows, key) :
                        \A k \in OfKey(rows, key) : rows[j].at <= rows[k].at}}

\* The newest row by extracted_at; rows of one transaction tie.
Latest(rows, key) ==
    {rows[i] : i \in {j \in OfKey(rows, key) :
                        \A k \in OfKey(rows, key) : rows[k].at <= rows[j].at}}

SessionOpen(r) == tracker[r].session = "open"

\* What a run sees: what is committed, and by autoflush its own rows.
Seen(r) == series \o tracker[r].batch

\* One item of the loop. It adds no row if the latest value is the same; the
\* values of Answer stand for values further apart than the tolerance.
UpsertItem(r) ==
    /\ tracker[r].pc = "upsert" /\ SessionOpen(r)
    /\ tracker[r].item \in DOMAIN Answer[tracker[r].doc]
    /\ LET item == Answer[tracker[r].doc][tracker[r].item]
           Row(restated) == [key |-> item[1], value |-> item[2], restated |-> restated,
                             name |-> Cited[tracker[r].doc], at |-> tracker[r].at,
                             base |-> tracker[r].base]
           Adds(rows) == tracker' = [tracker EXCEPT ![r].item = @ + 1, ![r].batch = @ \o rows]
       IN IF OfKey(Seen(r), item[1]) = {} THEN Adds(<<Row(FALSE)>>)
          ELSE \E existing \in Latest(Seen(r), item[1]) :
                 Adds(IF existing.value = item[2] THEN <<>> ELSE <<Row(TRUE)>>)
    /\ UNCHANGED <<indexed, series, clock>>

CommitRows(r) ==
    /\ tracker[r].pc = "upsert" /\ SessionOpen(r)
    /\ tracker[r].item \notin DOMAIN Answer[tracker[r].doc]
    /\ series' = Seen(r)
    /\ tracker' = [tracker EXCEPT ![r].pc = "extract", ![r].session = "closed",
                                  ![r].batch = <<>>]
    /\ UNCHANGED <<indexed, clock>>

\* The SELECT of the next document, or of compute_yoy_change, on a session
\* that was committed; an LLM, retrieval or database error.
TrackerRaises(r) ==
    /\ UnderWay(r)
    /\ tracker' = [tracker EXCEPT ![r].pc = "failed", ![r].batch = <<>>]
    /\ UNCHANGED <<indexed, series, clock>>

\* The year-over-year summary reads, and the run returns.
TrackerReturns(r) ==
    /\ tracker[r].pc = "extract" /\ tracker[r].docs = {} /\ SessionOpen(r)
    /\ tracker' = [tracker EXCEPT ![r].pc = "completed"]
    /\ UNCHANGED <<indexed, series, clock>>

KpiNext ==
    \/ \E d \in Docs : IndexDocument(d)
    \/ \E r \in Trackers :
        \/ StartTracker(r) \/ SkipDocument(r) \/ StartUpsert(r) \/ UpsertItem(r)
        \/ CommitRows(r) \/ TrackerRaises(r) \/ TrackerReturns(r)

KpiSpec == KpiInit /\ [][KpiNext]_kpiVars

-----------------------------------------------------------------------------
(* Properties.                                                             *)

KpiTypeOK ==
    /\ indexed \subseteq Docs
    /\ series \in Seq(RowRecord)
    /\ tracker \in [Trackers -> TrackerRecord]
    /\ \A r \in Trackers : tracker[r].pc = "idle" <=> tracker[r].at = 0
    /\ clock \in 0 .. Cardinality(Trackers)

\* The rows of its key that the j-th was bound to be compared with: what was
\* committed before its run began, and what its own run added before it.
Known(rows, j) ==
    {i \in OfKey(rows, rows[j].key) :
        i < j /\ (i <= rows[j].base \/ rows[i].at = rows[j].at)}

Accounted(rows, j) ==
    IF rows[j].restated
    THEN \E i \in OfKey(rows, rows[j].key) :
            /\ i < j /\ rows[i].value # rows[j].value
            /\ \A k \in Known(rows, j) : rows[k].at <= rows[i].at
    ELSE Known(rows, j) = {}

\* However runs overlap and rows tie, a row marked restated differs from a row
\* before it that is no older than any its run was bound to see, and a row not
\* so marked is one whose run was bound to see none of its key.
RestatedMeansChanged == \A j \in DOMAIN series : Accounted(series, j)

\* tools.py:11-13: re-running extraction on the same document must never
\* "spuriously mark it restated": no row is marked restated for a value that
\* the document it cites had given before its run began. The code does not keep
\* this: a document is compared with the newest row, which may cite another.
NoSpuriousRestatement ==
    \A i, j \in DOMAIN series :
        series[j].restated /\ i <= series[j].base =>
            \/ series[i].key # series[j].key
            \/ series[i].name # series[j].name
            \/ series[i].value # series[j].value

\* upsert_kpi_timeseries is "idempotent for identical (coverage, kpi, period,
\* value)": runs that find the same value leave one row of it. The code does
\* not keep this: two runs that overlap each insert theirs.
IdempotentUpsert ==
    \A i, j \in DOMAIN series :
        series[i].key = series[j].key /\ series[i].value = series[j].value => i = j
=============================================================================
