---------------------------- MODULE CoverageGraph ----------------------------
(***************************************************************************)
(* The LangGraph state machine of a coverage's research                    *)
(* (orchestrator/graph.py): its topology, its two routing functions and    *)
(* the citation_validation node. The other nodes only raise                *)
(* NotImplementedError; an implementation may hand over any draft, with    *)
(* any status and any count of retries in it.                              *)
(***************************************************************************)
EXTENDS Naturals

CONSTANTS
    Intents,      \* user intents, known to the graph or not
    RetryCounts   \* counts of retries a node may write into its draft

ASSUME GraphAssumption == RetryCounts \subseteq Nat

VARIABLES
    node,      \* where the run stands
    intent, prerequisitesMet,
    draft,     \* output: its enforcer_status and retry_count
    author,    \* for the properties: the node that handed over the draft,
    judged     \* and whether the draft was judged since

graphVars == <<node, intent, prerequisitesMet, draft, author, judged>>

-----------------------------------------------------------------------------

Pitches == {"industry_analysis", "lynch_pitch", "munger_invert"}
Branches == {"doc_ingestion", "quarterly_monitor", "prerequisite_error"}
Nodes == Pitches \cup Branches \cup {"coverage_init", "citation_validation", "END", "raised"}
Statuses == {"pending", "approved", "partial", "failed"}
NoAuthor == "none"

GraphInit ==
    /\ node = "coverage_init"
    /\ intent \in Intents
    /\ prerequisitesMet \in BOOLEAN
    /\ draft = [status |-> "pending", retries |-> 0]
    /\ author = NoAuthor
    /\ judged = FALSE

IntentMap == [industry |-> "industry_analysis", documents |-> "doc_ingestion",
              bull |-> "lynch_pitch", bear |-> "munger_invert", quarterly |-> "quarterly_monitor"]

RouteFromInit ==
    IF prerequisitesMet /\ intent \in DOMAIN IntentMap THEN IntentMap[intent]
    ELSE "prerequisite_error"

LeaveInit ==
    /\ node = "coverage_init"
    /\ node' = RouteFromInit
    /\ UNCHANGED <<intent, prerequisitesMet, draft, author, judged>>

\* The node keeps the count it finds in the output, or writes one.
Draft ==
    /\ node \in Pitches
    /\ \E status \in Statuses, retries \in RetryCounts \cup {draft.retries} :
         draft' = [status |-> status, retries |-> retries]
    /\ author' = node
    /\ judged' = FALSE
    /\ node' = "citation_validation"
    /\ UNCHANGED <<intent, prerequisitesMet>>

EndBranch ==
    /\ node \in Branches
    /\ node' = "END"
    /\ UNCHANGED <<intent, prerequisitesMet, draft, author, judged>>

\* Mutant: a partial result is not tried again.
RouteUnlessPartial(d) ==
    IF d.status = "failed" /\ d.retries < 3 THEN "lynch_pitch" ELSE "END"

\* "retry" leads to lynch_pitch, whoever wrote the draft.
RouteCitationResult(d) ==
    IF d.status # "approved" /\ d.retries < 3 THEN "lynch_pitch" ELSE "END"

\* citation_validation_node counts a rejection, and its edges follow.
ValidateDraft ==
    /\ node = "citation_validation"
    /\ \E status \in Statuses \ {"pending"} :
         draft' = [status |-> status,
                   retries |-> draft.retries + (IF status = "approved" THEN 0 ELSE 1)]
    /\ judged' = TRUE
    /\ node' = RouteCitationResult(draft')
    /\ UNCHANGED <<intent, prerequisitesMet, author>>

\* A node, or the enforcer's searches, raise.
NodeRaises ==
    /\ node \notin {"END", "raised"}
    /\ node' = "raised"
    /\ UNCHANGED <<intent, prerequisitesMet, draft, author, judged>>

GraphNext == LeaveInit \/ Draft \/ EndBranch \/ ValidateDraft \/ NodeRaises

GraphSpec == GraphInit /\ [][GraphNext]_graphVars

-----------------------------------------------------------------------------
(* Properties.                                                             *)

GraphTypeOK ==
    /\ node \in Nodes
    /\ intent \in Intents /\ prerequisitesMet \in BOOLEAN
    /\ draft \in [status : Statuses, retries : Nat]
    /\ author \in Pitches \cup {NoAuthor} /\ judged \in BOOLEAN

\* Whatever the nodes write into a draft, its own verdict and count included,
\* the run of a pitch ends only with a draft that was judged as it stands, and
\* with an approval or a third rejection on its count.
PitchesEndJudged ==
    node = "END" /\ author # NoAuthor =>
        judged /\ (draft.status = "approved" \/ draft.retries >= 3)

\* src/README.md: outputs that fail are sent back "up to 3 retries". A draft
\* that was judged and rejected n times has had n - 1 retries, so one that is
\* given up has more than three rejections on its count. The code does not keep
\* this where nodes keep the count (RetryCounts = {0}): it gives up at three.
GivenUpAfterThreeRetries ==
    node = "END" /\ judged /\ draft.status # "approved" => draft.retries > 3

\* src/README.md: "sent back to the originating agent". The code does not keep
\* this: a bear case that is rejected goes to lynch_pitch.
SentBackToItsAuthor == node \in Pitches /\ judged => node = author
=============================================================================
