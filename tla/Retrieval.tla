------------------------------ MODULE Retrieval ------------------------------
(***************************************************************************)
(* The hybrid retriever (retrieval/hybrid_retriever.py) on the collection  *)
(* of one tenant: a dense and a sparse search in the scope of a coverage,  *)
(* their fusion by reciprocal ranks, the reranker's choice and the text of *)
(* the parents; and the two lookups that judge a quote.                    *)
(*                                                                         *)
(* How near two vectors are is left open. A text is a sequence of words.   *)
(***************************************************************************)
EXTENDS Integers, Sequences, FiniteSets

CONSTANTS
    Chunk,        \* of each point: its coverage, type, parent, document and words
    Stopwords,    \* words that are no tokens
    Queries,      \* texts that are searched for
    Quotes,       \* texts that are claimed to be quotes
    RrfK, TopK, TopN

Points == DOMAIN Chunk
CoveragesSearched == {Chunk[p].coverage : p \in Points}
ChunkDocuments == {Chunk[p].doc : p \in Points}

ASSUME CollectionIsFinite == IsFiniteSet(Points)

ASSUME RankNumbers == RrfK \in Nat /\ TopK \in Nat /\ TopN \in Nat

\* With more results than this in a list, being in both is not enough.
ASSUME ShortLists == TopK <= RrfK + 1

VARIABLES
    stored,   \* the points in Qdrant
    search,   \* a retrieve() call
    quoted    \* a quote and what the enforcer makes of it

retrievalVars == <<stored, search, quoted>>

-----------------------------------------------------------------------------

NoText == <<>>
NoCoverage == "none"

SearchAtRest == [pc |-> "idle", coverage |-> NoCoverage, text |-> NoText, dense |-> <<>>,
                 sparse |-> <<>>, fused |-> <<>>, texts |-> <<>>]
NoQuote == [verdict |-> "none", coverage |-> NoCoverage, text |-> NoText, passages |-> {}]

RetrievalInit ==
    /\ stored = Points
    /\ search = SearchAtRest
    /\ quoted = NoQuote

ListOf(S, n) == {s \in [1 .. n -> S] : \A i, j \in 1 .. n : s[i] = s[j] => i = j}
Shortest(m, n) == IF m <= n THEN m ELSE n
In(p, list) == \E i \in DOMAIN list : list[i] = p
RankIn(p, list) == CHOOSE i \in DOMAIN list : list[i] = p

\* _build_filter: every search asks for the coverage, and for no parents.
Searchable(c) == {p \in stored : Chunk[p].coverage = c /\ Chunk[p].type # "parent"}

Tokens(text) == {text[i] : i \in DOMAIN text} \ Stopwords

\* The sparse score: each shared token counts, with a weight of one or more.
Overlap(text, p) == Cardinality(Tokens(text) \cap Tokens(Chunk[p].words))
Matching(text, c) == {p \in Searchable(c) : Overlap(text, p) > 0}

-----------------------------------------------------------------------------
(* retrieve.                                                               *)

\* Without a coverage the call raises, and there is nothing to model.
SearchDense(c, text) ==
    /\ search.pc = "idle"
    /\ \E list \in ListOf(Searchable(c), Shortest(Cardinality(Searchable(c)), TopK)) :
         search' = [search EXCEPT !.pc = "sparse", !.coverage = c, !.text = text, !.dense = list]
    /\ UNCHANGED <<stored, quoted>>

SearchSparse ==
    /\ search.pc = "sparse"
    /\ LET hits == Matching(search.text, search.coverage)
       IN \E list \in ListOf(hits, Shortest(Cardinality(hits), TopK)) :
            /\ \A i \in DOMAIN list, p \in hits :
                 Overlap(search.text, list[i]) < Overlap(search.text, p) =>
                     \E j \in DOMAIN list : j < i /\ list[j] = p
            /\ search' = [search EXCEPT !.pc = "fuse", !.sparse = list]
    /\ UNCHANGED <<stored, quoted>>

\* Mutant: a list sets the score instead of adding to it.
LastScore(p) ==
    IF In(p, search.sparse) THEN <<1, RrfK + RankIn(p, search.sparse)>>
    ELSE <<1, RrfK + RankIn(p, search.dense)>>

\* The sum of 1 / (k + rank) over the lists that have p, as a fraction.
Score(p) ==
    LET a == RrfK + RankIn(p, search.dense)
        b == RrfK + RankIn(p, search.sparse)
    IN IF ~In(p, search.sparse) THEN <<1, a>>
       ELSE IF ~In(p, search.dense) THEN <<1, b>>
       ELSE <<a + b, a * b>>

Less(x, y) == x[1] * y[2] < y[1] * x[2]

Candidates == {p \in Points : In(p, search.dense) \/ In(p, search.sparse)}

\* Where a chunk entered the dictionary of scores, which a tie is sorted by.
Entered(p) ==
    IF In(p, search.dense) THEN RankIn(p, search.dense)
    ELSE Len(search.dense) + RankIn(p, search.sparse)

\* _reciprocal_rank_fusion: the only order with descending scores and ties as
\* they entered.
Fuse ==
    /\ search.pc = "fuse"
    /\ \E list \in ListOf(Candidates, Cardinality(Candidates)) :
         /\ \A i, j \in DOMAIN list : i < j =>
              \/ Less(Score(list[j]), Score(list[i]))
              \/ ~Less(Score(list[i]), Score(list[j])) /\ Entered(list[i]) < Entered(list[j])
         /\ search' = [search EXCEPT !.pc = "rerank", !.fused = list]
    /\ UNCHANGED <<stored, quoted>>

\* The cross encoder's scores put any TopN of the candidates in any order; the
\* parents are read one by one, and may be gone.
RerankAndHydrate ==
    /\ search.pc = "rerank"
    /\ LET n == Shortest(Len(search.fused), TopN)
       IN \E list \in ListOf(Candidates, n) :
            search' = [search EXCEPT !.pc = "done",
                          !.texts = [i \in 1 .. n |->
                              [id |-> list[i], context |-> Chunk[list[i]].parent \in stored]]]
    /\ UNCHANGED <<stored, quoted>>

\* delete_document (module Ingestion), between any two steps of the call.
PurgeChunks(d) ==
    /\ \E p \in stored : Chunk[p].doc = d
    /\ stored' = {p \in stored : Chunk[p].doc # d}
    /\ UNCHANGED <<search, quoted>>

-----------------------------------------------------------------------------
(* retrieve_exact_quote, retrieve_semantic_quote, and what the citation    *)
(* enforcer makes of them.                                                 *)

\* BM25 finds the best overlap, which passes the threshold of 0.5 as soon as
\* there is one; else a passage may be near enough, whichever words it has.
JudgeQuote(c, text) ==
    /\ quoted = NoQuote
    /\ \E verdict \in IF Matching(text, c) # {} THEN {"exact"}
                      ELSE {"absent"} \cup (IF Searchable(c) = {} THEN {} ELSE {"close"}) :
         quoted' = [verdict |-> verdict, coverage |-> c, text |-> text,
                    passages |-> Searchable(c)]
    /\ UNCHANGED <<stored, search>>

RetrievalNext ==
    \/ \E c \in CoveragesSearched, text \in Queries : SearchDense(c, text)
    \/ SearchSparse \/ Fuse \/ RerankAndHydrate
    \/ \E d \in ChunkDocuments : PurgeChunks(d)
    \/ \E c \in CoveragesSearched, text \in Quotes : JudgeQuote(c, text)

RetrievalSpec == RetrievalInit /\ [][RetrievalNext]_retrievalVars

-----------------------------------------------------------------------------
(* Properties.                                                             *)

RetrievalTypeOK ==
    /\ stored \subseteq Points
    /\ search.pc \in {"idle", "sparse", "fuse", "rerank", "done"}
    /\ search.coverage \in CoveragesSearched \cup {NoCoverage}
    /\ search.text \in Queries \cup {NoText}
    /\ {search.dense, search.sparse, search.fused} \subseteq Seq(Points)
    /\ Len(search.dense) <= TopK /\ Len(search.sparse) <= TopK
    /\ search.texts \in Seq([id : Points, context : BOOLEAN])
    /\ quoted \in [verdict : {"none", "exact", "close", "absent"},
                   coverage : CoveragesSearched \cup {NoCoverage}, text : Quotes \cup {NoText},
                   passages : SUBSET Points]

InBoth(p) == In(p, search.dense) /\ In(p, search.sparse)

\* A chunk that both searches found comes before every chunk that one of them
\* missed, however far up that one is: the constant of the fusion is large for
\* the length of the lists.
BothListsFirst ==
    \A i, j \in DOMAIN search.fused : i < j /\ InBoth(search.fused[j]) => InBoth(search.fused[i])

\* hybrid_retriever.py:12: BM25 "finds the exact phrase a citation claims to
\* quote": a quote that counts as exact stands in a passage word for word. The
\* code does not keep this: one word in common is enough.
QuotesAreVerbatim ==
    quoted.verdict = "exact" =>
        \E p \in quoted.passages : \E i \in 0 .. Len(Chunk[p].words) - Len(quoted.text) :
            \A j \in DOMAIN quoted.text : Chunk[p].words[i + j] = quoted.text[j]
=============================================================================
