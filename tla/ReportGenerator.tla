-------------------------- MODULE ReportGenerator --------------------------
(***************************************************************************)
(* The coverage report (services/report_generator.py, routers/outputs.py): *)
(* which outputs it takes, and how their citations and those of the notes  *)
(* become footnotes with one list at the end. KpiViews has its tables.     *)
(*                                                                         *)
(* A content is the sequence of its citations, in prose or table cells.    *)
(***************************************************************************)
EXTENDS Integers, Sequences

CONSTANTS
    References,
    Contents,    \* sequences of citations
    MaxOutputs   \* bound on rows of research_outputs

ASSUME ReportAssumption == Contents \subseteq Seq(References) /\ MaxOutputs \in Nat

\* _SECTION_ORDER; the notes follow the sections.
SectionOrder == <<"industry_primer", "lynch_pitch", "munger_invert", "quarterly_update">>
NotesPart == Len(SectionOrder) + 1

\* OutputTypeEnum: KPI snapshots are rows too, and no section.
OutputTypes == {SectionOrder[k] : k \in DOMAIN SectionOrder} \cup {"kpi_snapshot"}
NoNotes == "none"

VARIABLES
    outputs,   \* rows of research_outputs: type, approved, content
    notes,     \* coverage_notes, a content or NoNotes
    report     \* a report that is generated

reportVars == <<outputs, notes, report>>

\* The citation that is numbered next stands at place of part.
NoReport == [pc |-> "idle", wanted |-> {}, chosen |-> <<>>, part |-> 1, place |-> 1,
             footnotes |-> <<>>, marks |-> <<>>]

ReportInit == outputs = <<>> /\ notes = NoNotes /\ report = NoReport

SaveOutput(type, approved, content) ==
    /\ report.pc = "idle" /\ Len(outputs) < MaxOutputs
    /\ outputs' = Append(outputs, [type |-> type, approved |-> approved, content |-> content])
    /\ UNCHANGED <<notes, report>>

SaveNotes(content) ==
    /\ report.pc = "idle" /\ notes = NoNotes
    /\ notes' = content
    /\ UNCHANGED <<outputs, report>>

-----------------------------------------------------------------------------

\* Mutant: what the enforcer did not approve, too.
AnyOutput(type) == {i \in DOMAIN outputs : outputs[i].type = type}

ApprovedOf(type) == {i \in DOMAIN outputs : outputs[i].type = type /\ outputs[i].approved}

\* No writer sets version, so the order by version leaves which row of a type
\* comes first to the database.
LatestApproved(wanted) ==
    LET types == {t \in OutputTypes : ApprovedOf(t) # {} /\ (wanted = {} \/ t \in wanted)}
    IN {f \in [types -> DOMAIN outputs] : \A t \in types : f[t] \in ApprovedOf(t)}

\* Without sections in the query, or with none but commas, all are wanted.
\* Notes are part of every report, and their row is enough for one.
StartReport(wanted) ==
    /\ report.pc = "idle"
    /\ \E chosen \in LatestApproved(wanted) :
        report' = [report EXCEPT !.pc = IF DOMAIN chosen = {} /\ notes = NoNotes
                                        THEN "missing" ELSE "render",
                                 !.wanted = wanted, !.chosen = chosen]
    /\ UNCHANGED <<outputs, notes>>

\* The citations of a part: one without an output has none, nor have no notes.
TextOf(part) ==
    CASE part \in DOMAIN SectionOrder /\ SectionOrder[part] \in DOMAIN report.chosen ->
            outputs[report.chosen[SectionOrder[part]]].content
      [] part = NotesPart /\ notes # NoNotes -> notes
      [] OTHER -> <<>>

\* _footnote_number: a citation is numbered when it is first met.
Numbered(citation) ==
    IF \E k \in DOMAIN report.footnotes : report.footnotes[k] = citation THEN report.footnotes
    ELSE Append(report.footnotes, citation)

NumberOf(footnotes, citation) == CHOOSE k \in DOMAIN footnotes : footnotes[k] = citation

\* _replace: the marker that takes the place of a citation.
PlaceMarker ==
    /\ report.pc = "render" /\ report.place <= Len(TextOf(report.part))
    /\ LET citation == TextOf(report.part)[report.place]
           footnotes == Numbered(citation)
           mark == [part |-> report.part, place |-> report.place,
                    number |-> NumberOf(footnotes, citation)]
       IN report' = [report EXCEPT !.place = @ + 1, !.footnotes = footnotes,
                                   !.marks = Append(@, mark)]
    /\ UNCHANGED <<outputs, notes>>

\* The loop of _build_sections, then _render_notes_html and the list of citations.
NextPart ==
    /\ report.pc = "render" /\ report.place > Len(TextOf(report.part))
    /\ report' = IF report.part = NotesPart THEN [report EXCEPT !.pc = "done"]
                 ELSE [report EXCEPT !.part = @ + 1, !.place = 1]
    /\ UNCHANGED <<outputs, notes>>

ReportNext ==
    \/ \E t \in OutputTypes, a \in BOOLEAN, c \in Contents : SaveOutput(t, a, c)
    \/ \E c \in Contents : SaveNotes(c)
    \/ \E wanted \in SUBSET OutputTypes : StartReport(wanted)
    \/ PlaceMarker \/ NextPart

ReportSpec == ReportInit /\ [][ReportNext]_reportVars

-----------------------------------------------------------------------------
(* Properties.                                                             *)

Rows == [type : OutputTypes, approved : BOOLEAN, content : Contents]
Marks == [part : 1 .. NotesPart, place : Nat, number : Nat]

\* Every variable has its type.
ReportTypeOK ==
    /\ outputs \in Seq(Rows) /\ Len(outputs) <= MaxOutputs
    /\ notes = NoNotes \/ notes \in Contents
    /\ report.pc \in {"idle", "render", "done", "missing"}
    /\ report.wanted \subseteq OutputTypes
    /\ report.part \in 1 .. NotesPart /\ report.place \in Nat \ {0}
    /\ report.footnotes \in Seq(References) /\ report.marks \in Seq(Marks)

\* The markers of a part lead, place by place, to the citations of a content.
Reads(part, content) ==
    /\ \A place \in DOMAIN content : \E i \in DOMAIN report.marks :
        report.marks[i].part = part /\ report.marks[i].place = place
    /\ \A i \in DOMAIN report.marks :
        report.marks[i].part = part =>
            /\ report.marks[i].place \in DOMAIN content
            /\ report.footnotes[report.marks[i].number] = content[report.marks[i].place]

ApprovedRows(type) ==
    {k \in DOMAIN outputs : /\ outputs[k].type = type /\ outputs[k].approved
                            /\ report.wanted = {} \/ type \in report.wanted}

\* The order in which a report is read.
Before(m, n) == m.part < n.part \/ (m.part = n.part /\ m.place < n.place)

\* No citation has two numbers, every number is used, and the numbers run from
\* 1 without gaps in the order they are first read.
NumberedAsRead ==
    /\ \A a, b \in DOMAIN report.footnotes : report.footnotes[a] = report.footnotes[b] => a = b
    /\ \A n \in DOMAIN report.footnotes :
        \E i \in DOMAIN report.marks : report.marks[i].number = n
    /\ \A i \in DOMAIN report.marks :
        /\ report.marks[i].number \in DOMAIN report.footnotes
        /\ \A j \in 1 .. i - 1 : Before(report.marks[j], report.marks[i])
        /\ report.marks[i].number > 1 =>
            \E j \in 1 .. i - 1 : report.marks[j].number = report.marks[i].number - 1

\* The numbering: every marker leads to the citation that stood in its place, in
\* the section of one approved output, whichever, of each wanted type that has
\* any, or in the notes, and to one list of citations for all of them.
FootnotesResolve ==
    report.pc = "done" =>
        /\ \A part \in DOMAIN SectionOrder :
            \/ \E k \in ApprovedRows(SectionOrder[part]) : Reads(part, outputs[k].content)
            \/ ApprovedRows(SectionOrder[part]) = {} /\ Reads(part, <<>>)
        /\ Reads(NotesPart, IF notes = NoNotes THEN <<>> ELSE notes)
        /\ NumberedAsRead

\* report_generator.py: "Only the latest approved version of each output_type is
\* included": each section is the approved output of its type saved last. The
\* code does not keep this: it sorts by a version that nobody sets.
OnlyTheLatest ==
    report.pc = "done" =>
        \A type \in DOMAIN report.chosen :
            \A k \in ApprovedOf(type) : k <= report.chosen[type]
=============================================================================
