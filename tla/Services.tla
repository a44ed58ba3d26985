------------------------------ MODULE Services ------------------------------
(* The parts that share no state: each behaviour is one scene, the steps   *)
(* of one of them, and the others stay as they were.                       *)
EXTENDS Retrieval, CitationEnforcer, Chunker, FinancialNormalizer, KpiViews, EdgarConnector,
        Inbox, ReportGenerator

CONSTANT Scenes   \* the parts that a run looks at

VARIABLE scene

vars == <<scene, retrievalVars, enforcerVars, chunkerVars, item, viewVars, edgarVars, inboxVars,
          reportVars>>

Init ==
    /\ scene \in Scenes
    /\ RetrievalInit /\ EnforcerInit /\ ChunkerInit /\ NormalizerInit
    /\ ViewsInit /\ EdgarInit /\ InboxInit /\ ReportInit

Next ==
    /\ UNCHANGED scene
    /\ \/ scene = "retrieval" /\ RetrievalNext
          /\ UNCHANGED <<enforcerVars, chunkerVars, item, viewVars, edgarVars, inboxVars, reportVars>>
       \/ scene = "enforcer" /\ EnforcerNext
          /\ UNCHANGED <<retrievalVars, chunkerVars, item, viewVars, edgarVars, inboxVars, reportVars>>
       \/ scene = "chunker" /\ ChunkerNext
          /\ UNCHANGED <<retrievalVars, enforcerVars, item, viewVars, edgarVars, inboxVars, reportVars>>
       \/ scene = "normalizer" /\ NormalizerNext
          /\ UNCHANGED <<retrievalVars, enforcerVars, chunkerVars, viewVars, edgarVars, inboxVars, reportVars>>
       \/ scene = "views" /\ ViewsNext
          /\ UNCHANGED <<retrievalVars, enforcerVars, chunkerVars, item, edgarVars, inboxVars, reportVars>>
       \/ scene = "edgar" /\ EdgarNext
          /\ UNCHANGED <<retrievalVars, enforcerVars, chunkerVars, item, viewVars, inboxVars, reportVars>>
       \/ scene = "inbox" /\ InboxNext
          /\ UNCHANGED <<retrievalVars, enforcerVars, chunkerVars, item, viewVars, edgarVars, reportVars>>
       \/ scene = "report" /\ ReportNext
          /\ UNCHANGED <<retrievalVars, enforcerVars, chunkerVars, item, viewVars, edgarVars, inboxVars>>

Spec == Init /\ [][Next]_vars

-----------------------------------------------------------------------------

\* Every variable of the eight modules has its type.
TypeOK ==
    /\ RetrievalTypeOK /\ EnforcerTypeOK /\ ChunkerTypeOK /\ NormalizerTypeOK
    /\ ViewsTypeOK /\ EdgarTypeOK /\ InboxTypeOK /\ ReportTypeOK
=============================================================================
