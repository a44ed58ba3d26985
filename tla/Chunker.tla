------------------------------- MODULE Chunker -------------------------------
(***************************************************************************)
(* HierarchicalChunker (chunkers/hierarchical.py) on one section: whole    *)
(* paragraphs are packed into parents, and the sentences of a parent into  *)
(* children that overlap.                                                  *)
(*                                                                         *)
(* A sentence is its number of words, kept as a running total, so that the *)
(* text of a chunk is a range of sentences. A paragraph's end ends a       *)
(* sentence.                                                               *)
(***************************************************************************)
EXTENDS Integers, Sequences

CONSTANTS
    WordCounts,     \* words of a sentence
    MaxSentences,   \* bound on sentences
    ParentMax, ChildMax, OverlapTokens   \* the chunker's three limits

ASSUME ChunkerAssumption ==
    /\ WordCounts \subseteq Nat \ {0}
    /\ MaxSentences \in Nat \ {0} /\ ParentMax \in Nat /\ ChildMax \in Nat
    /\ OverlapTokens \in Nat \ {0}

VARIABLES
    section,    \* words: up to the end of each sentence; ends: last sentences of paragraphs
    chunker,    \* where the loops stand
    parents,    \* parents flushed: first and last paragraph
    children    \* children made: their parent, first and last sentence

chunkerVars == <<section, chunker, parents, children>>

-----------------------------------------------------------------------------

\* The words up to a sentence's end, the sentences up to a paragraph's end.
WordsTo(i) == IF i = 0 THEN 0 ELSE section.words[i]
SentencesTo(p) == IF p = 0 THEN 0 ELSE section.ends[p]

\* _token_estimate: 1.3 tokens per word, rounded down.
Estimate(words) == (13 * words) \div 10
TokensIn(first, last) == Estimate(WordsTo(last) - WordsTo(first - 1))

FirstOf(parent) == SentencesTo(parent.from - 1) + 1
LastOf(parent) == SentencesTo(parent.to)

ChunkerPC == {"write", "pack", "take", "overlap", "done"}
ChunkerAtRest == [pc |-> "write", from |-> 1, next |-> 1, tokens |-> 0,
                  parent |-> 1, start |-> 1, idx |-> 1, back |-> 1]

ChunkerInit ==
    /\ section = [words |-> <<>>, ends |-> <<>>]
    /\ chunker = ChunkerAtRest
    /\ parents = <<>> /\ children = <<>>

\* A sentence of the last paragraph, or of a new one.
AddSentence(words, new) ==
    LET n == Len(section.words)
        p == IF new THEN Len(section.ends) + 1 ELSE Len(section.ends)
    IN /\ chunker.pc = "write" /\ n < MaxSentences /\ p > 0
       /\ section' = [words |-> Append(section.words, WordsTo(n) + words),
                      ends |-> [k \in 1 .. p |-> IF k = p THEN n + 1 ELSE section.ends[k]]]
       /\ UNCHANGED <<chunker, parents, children>>

StartChunking ==
    /\ chunker.pc = "write" /\ section.ends # <<>>
    /\ chunker' = [chunker EXCEPT !.pc = "pack"]
    /\ UNCHANGED <<section, parents, children>>

\* The paragraphs since the last flush.
Group == [from |-> chunker.from, to |-> chunker.next - 1]

\* A parent is flushed before a paragraph that does not fit; one paragraph is
\* never split, however long.
TooLong(tokens) == chunker.from < chunker.next /\ chunker.tokens + tokens > ParentMax

\* The loop of _split_into_parent_chunks, one paragraph.
PackParagraph ==
    /\ chunker.pc = "pack" /\ chunker.next <= Len(section.ends)
    /\ LET tokens == TokensIn(SentencesTo(chunker.next - 1) + 1, SentencesTo(chunker.next))
       IN \/ /\ TooLong(tokens)
             /\ parents' = Append(parents, Group)
             /\ chunker' = [chunker EXCEPT !.from = chunker.next, !.next = @ + 1,
                                           !.tokens = tokens]
          \/ /\ ~TooLong(tokens)
             /\ chunker' = [chunker EXCEPT !.next = @ + 1, !.tokens = @ + tokens]
             /\ UNCHANGED parents
    /\ UNCHANGED <<section, children>>

\* The last flush; the children of the first parent come next.
PackLast ==
    /\ chunker.pc = "pack" /\ chunker.next > Len(section.ends)
    /\ parents' = Append(parents, Group)
    /\ chunker' = [chunker EXCEPT !.pc = "take", !.tokens = 0]
    /\ UNCHANGED <<section, children>>

\* A child takes the sentence at idx if it fits, but one at least.
Fits ==
    /\ chunker.idx <= LastOf(parents[chunker.parent])
    /\ \/ chunker.idx = chunker.start
       \/ chunker.tokens + TokensIn(chunker.idx, chunker.idx) <= ChildMax

TakeSentence ==
    /\ chunker.pc = "take" /\ Fits
    /\ chunker' = [chunker EXCEPT !.idx = @ + 1,
                                  !.tokens = @ + TokensIn(chunker.idx, chunker.idx)]
    /\ UNCHANGED <<section, parents, children>>

\* The sentences taken are a child: the last one of its parent, or one that the
\* next overlaps.
MakeChild ==
    /\ chunker.pc = "take" /\ ~Fits
    /\ children' = Append(children, [parent |-> chunker.parent, first |-> chunker.start,
                                     last |-> chunker.idx - 1])
    /\ \/ /\ chunker.idx <= LastOf(parents[chunker.parent])
          /\ chunker' = [chunker EXCEPT !.pc = "overlap", !.tokens = 0, !.back = chunker.idx - 1]
       \/ /\ chunker.idx > LastOf(parents[chunker.parent]) /\ chunker.parent < Len(parents)
          /\ chunker' = [chunker EXCEPT !.parent = @ + 1, !.tokens = 0, !.start = chunker.idx]
       \/ /\ chunker.idx > LastOf(parents[chunker.parent]) /\ chunker.parent = Len(parents)
          /\ chunker' = [chunker EXCEPT !.pc = "done"]
    /\ UNCHANGED <<section, parents>>

\* Mutant: back to the first sentence of the child itself.
StepsBackToStart == chunker.back >= chunker.start /\ chunker.tokens < OverlapTokens

\* Over sentences worth OverlapTokens, but not over the first of the child.
StepsBack == chunker.back > chunker.start /\ chunker.tokens < OverlapTokens

StepBack ==
    /\ chunker.pc = "overlap" /\ StepsBack
    /\ chunker' = [chunker EXCEPT !.back = @ - 1,
                                  !.tokens = @ + TokensIn(chunker.back, chunker.back)]
    /\ UNCHANGED <<section, parents, children>>

StartChild ==
    /\ chunker.pc = "overlap" /\ ~StepsBack
    /\ chunker' = [chunker EXCEPT !.pc = "take", !.tokens = 0,
                                  !.start = chunker.back + 1, !.idx = chunker.back + 1]
    /\ UNCHANGED <<section, parents, children>>

ChunkerNext ==
    \/ \E w \in WordCounts, new \in BOOLEAN : AddSentence(w, new)
    \/ StartChunking \/ PackParagraph \/ PackLast
    \/ TakeSentence \/ MakeChild \/ StepBack \/ StartChild

ChunkerSpec == ChunkerInit /\ [][ChunkerNext]_chunkerVars

-----------------------------------------------------------------------------
(* Properties.                                                             *)

\* Every variable has its type.
ChunkerTypeOK ==
    /\ section \in [words : Seq(Nat), ends : Seq(Nat)]
    /\ chunker \in [pc : ChunkerPC, from : Nat, next : Nat, tokens : Nat,
                    parent : Nat, start : Nat, idx : Nat, back : Nat]
    /\ parents \in Seq([from : Nat, to : Nat])
    /\ children \in Seq([parent : Nat, first : Nat, last : Nat])

\* A chunk of n pieces keeps within a limit but for what rounding leaves of each
\* piece, and one piece is never split.
Within(first, last, n, limit) == n = 1 \/ TokensIn(first, last) < limit + n

\* Parents are runs of whole paragraphs, one after the other, within ParentMax.
ParentsPartition ==
    \A i \in DOMAIN parents :
        /\ parents[i].from = IF i = 1 THEN 1 ELSE parents[i-1].to + 1
        /\ parents[i].to \in parents[i].from .. Len(section.ends)
        /\ Within(FirstOf(parents[i]), LastOf(parents[i]),
                  parents[i].to - parents[i].from + 1, ParentMax)

\* The first child of a parent has its first sentence, and the one before it had
\* the last of the parent before.
OpensParent(before, child) ==
    /\ child.first = FirstOf(parents[child.parent])
    /\ IF before = <<>> THEN child.parent = 1
       ELSE before[1].parent = child.parent - 1 /\ before[1].last = LastOf(parents[child.parent - 1])

\* A later child repeats the end of the one before, if that has several sentences:
\* all but the first, or as many as it takes for OverlapTokens, and no more.
Continues(before, child) ==
    /\ child.parent = before.parent
    /\ child.first > before.first /\ child.first <= before.last + 1
    /\ before.last > before.first =>
        /\ child.first <= before.last
        /\ child.first = before.first + 1 \/ TokensIn(child.first, before.last) >= OverlapTokens
        /\ TokensIn(child.first + 1, before.last) < OverlapTokens + (before.last - child.first)

\* No sentence is lost: the children of the parents, one after the other, go from
\* the first sentence to the last, each within ChildMax and its parent.
ChildrenCover ==
    /\ ParentsPartition
    /\ \A i \in DOMAIN children :
        LET child == children[i]
        IN /\ child.last \in child.first .. LastOf(parents[child.parent])
           /\ Within(child.first, child.last, child.last - child.first + 1, ChildMax)
           /\ \/ i > 1 /\ Continues(children[i-1], child)
              \/ OpensParent(IF i = 1 THEN <<>> ELSE <<children[i-1]>>, child)
    /\ chunker.pc = "done" =>
        /\ parents[Len(parents)].to = Len(section.ends)
        /\ children[Len(children)].parent = Len(parents)
        /\ children[Len(children)].last = Len(section.words)
=============================================================================
