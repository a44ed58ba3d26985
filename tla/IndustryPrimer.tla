--------------------------- MODULE IndustryPrimer ---------------------------
(***************************************************************************)
(* Industries, which all tenants share: run_industry_analysis              *)
(* (routers/tasks.py) gets or creates the row of a name, links the coverage*)
(* to it and dispatches the industry analyst, whose run ends in            *)
(* save_industry_primer (industry_analyst/tools.py). One industry name.    *)
(***************************************************************************)
EXTENDS Naturals

CONSTANTS
    Analyses,     \* requests, each with the analysis it dispatches
    CoverageOfAnalysis,   \* of each request
    Words, Models,        \* word counts and names of the LLM
    NoIndustry

ASSUME IndustryAssumption == NoIndustry \notin Analyses

VARIABLES
    analysis,   \* each request and its run
    rows,       \* industry rows of the name: the requests that inserted them
    inserting,  \* requests with an uncommitted INSERT
    linked,     \* coverages.industry_id
    primer,     \* the primer fields of the row
    raced       \* one primer was saved while another was being saved

industryVars == <<analysis, rows, inserting, linked, primer, raced>>

-----------------------------------------------------------------------------

LinkedCoverages == {CoverageOfAnalysis[a] : a \in Analyses}
Primer == [content : Analyses \cup {NoIndustry}, words : Words \cup {0}, llm : Models \cup {NoIndustry}]
EmptyPrimer == [content |-> NoIndustry, words |-> 0, llm |-> NoIndustry]

AnalysisPC == {"idle", "create", "commit", "dispatched", "write", "saved", "refused", "failed"}
AnalysisRecord == [pc : AnalysisPC, industry : Analyses \cup {NoIndustry},
                   link : BOOLEAN, loaded : Primer, answer : Primer]

IndustryInit ==
    /\ analysis = [a \in Analyses |-> [pc |-> "idle", industry |-> NoIndustry, link |-> FALSE,
                                       loaded |-> EmptyPrimer, answer |-> EmptyPrimer]]
    /\ rows = {} /\ inserting = {}
    /\ linked = [c \in LinkedCoverages |-> NoIndustry]
    /\ primer = EmptyPrimer
    /\ raced = FALSE

\* The coverage and the industry are read in one transaction.
FindIndustry(a) ==
    /\ analysis[a].pc = "idle"
    /\ LET found == IF rows = {} THEN NoIndustry ELSE CHOOSE i \in rows : TRUE
       IN analysis' = [analysis EXCEPT
              ![a].pc = IF found = NoIndustry THEN "create" ELSE "commit",
              ![a].industry = found,
              ![a].link = (linked[CoverageOfAnalysis[a]] = NoIndustry)]
    /\ UNCHANGED <<rows, inserting, linked, primer, raced>>

\* Mutant: no unique constraint on industries.name.
NoConstraint == TRUE

\* An INSERT waits while another of the same name is uncommitted.
NameIsFree == rows = {} /\ inserting = {}

InsertIndustry(a) ==
    /\ analysis[a].pc = "create"
    /\ NameIsFree
    /\ inserting' = inserting \cup {a}
    /\ analysis' = [analysis EXCEPT ![a].pc = "commit", ![a].industry = a]
    /\ UNCHANGED <<rows, linked, primer, raced>>

\* IntegrityError: the other one has committed. Nothing was dispatched.
NameTaken(a) ==
    /\ analysis[a].pc = "create"
    /\ rows # {}
    /\ analysis' = [analysis EXCEPT ![a].pc = "refused"]
    /\ UNCHANGED <<rows, inserting, linked, primer, raced>>

\* The block commits; dispatch_task follows, see AgentTasks.
CommitIndustry(a) ==
    /\ analysis[a].pc = "commit"
    /\ rows' = rows \cup (inserting \cap {a})
    /\ inserting' = inserting \ {a}
    /\ linked' = IF analysis[a].link
                 THEN [linked EXCEPT ![CoverageOfAnalysis[a]] = analysis[a].industry] ELSE linked
    /\ analysis' = [analysis EXCEPT ![a].pc = "dispatched"]
    /\ UNCHANGED <<primer, raced>>

\* Search, LLM or parse errors, and a process that dies.
AnalysisFails(a) ==
    /\ analysis[a].pc = "dispatched"
    /\ analysis' = [analysis EXCEPT ![a].pc = "failed"]
    /\ UNCHANGED <<rows, inserting, linked, primer, raced>>

\* save_industry_primer reads the row once the LLM has answered.
LoadPrimer(a) ==
    /\ analysis[a].pc = "dispatched"
    /\ \E w \in Words, m \in Models :
         analysis' = [analysis EXCEPT ![a].pc = "write", ![a].loaded = primer,
                          ![a].answer = [content |-> a, words |-> w, llm |-> m]]
    /\ UNCHANGED <<rows, inserting, linked, primer, raced>>

\* Mutant: the columns are left NULL.
WriteNull(a) == [content |-> a, words |-> NoIndustry, llm |-> NoIndustry]

\* Mutant: the count of words is left as it is.
WriteWithoutCount(a) == [analysis[a].answer EXCEPT !.words = primer.words]

\* SQLAlchemy writes the attributes that differ from what was loaded.
Written(a) ==
    LET new == analysis[a].answer
        old == analysis[a].loaded
    IN [content |-> new.content,
        words |-> IF new.words = old.words THEN primer.words ELSE new.words,
        llm |-> IF new.llm = old.llm THEN primer.llm ELSE new.llm]

\* The commit closes the lent session; the audit row that should follow fails
\* the task (AgentTasks).
CommitPrimer(a) ==
    /\ analysis[a].pc = "write"
    /\ primer' = Written(a)
    /\ raced' = (raced \/ primer # analysis[a].loaded)
    /\ analysis' = [analysis EXCEPT ![a].pc = "saved"]
    /\ UNCHANGED <<rows, inserting, linked>>

IndustryNext ==
    \E a \in Analyses :
        \/ FindIndustry(a) \/ InsertIndustry(a) \/ NameTaken(a) \/ CommitIndustry(a)
        \/ AnalysisFails(a) \/ LoadPrimer(a) \/ CommitPrimer(a)

IndustrySpec == IndustryInit /\ [][IndustryNext]_industryVars

-----------------------------------------------------------------------------
(* Properties.                                                             *)

IndustryTypeOK ==
    /\ analysis \in [Analyses -> AnalysisRecord]
    /\ rows \subseteq Analyses /\ inserting \subseteq Analyses
    /\ linked \in [LinkedCoverages -> Analyses \cup {NoIndustry}]
    /\ primer \in Primer
    /\ raced \in BOOLEAN

\* Whatever two requests for one name do at once, the analyses that were
\* dispatched and the coverages that were linked share one committed row.
OneIndustry ==
    \A i, j \in {analysis[a].industry : a \in {x \in Analyses :
                     analysis[x].pc \in {"dispatched", "write", "saved", "failed"}}}
                \cup ({linked[c] : c \in LinkedCoverages} \ {NoIndustry}) :
        i = j /\ i \in rows

\* The fields of a primer come from one analysis; only two that save at once
\* mix theirs.
PrimerIsOneAnswer ==
    raced \/ primer.content = NoIndustry \/ primer = analysis[primer.content].answer
=============================================================================
