--------------------------- MODULE ServiceProofs ---------------------------
(***************************************************************************)
(* Theorems about services: the order of a search's results, the two gates *)
(* on citations, the meaning of normalised values, the pace of requests to *)
(* SEC EDGAR, the chunks of a section; and, with those of ReaderProofs, of *)
(* the specification that composes all of them.                            *)
(***************************************************************************)
EXTENDS Services, ReaderProofs

-----------------------------------------------------------------------------
(* Retrieval.                                                              *)

\* A list of at most TopK results.
Short(list) == /\ DOMAIN list \subseteq 1 .. TopK
               /\ \A i \in DOMAIN list : list[i] \in Points

Fields == {"pc", "coverage", "text", "dense", "sparse", "fused", "texts"}

ListsShort ==
    /\ stored \subseteq Points
    /\ DOMAIN search = Fields
    /\ Short(search.dense) /\ Short(search.sparse)
    /\ search.pc \in {"idle", "sparse", "fuse"} => search.fused = <<>>

FusionInv == ListsShort /\ BothListsFirst

\* Reciprocal ranks: with short lists two bad ranks add up to more than the
\* best one.
LEMMA TwoRanksBeatOne ==
    ASSUME NEW a \in Nat, NEW b \in Nat, NEW c \in Nat,
           RrfK < a, a <= RrfK + TopK, RrfK < b, b <= RrfK + TopK, RrfK < c
    PROVE  Less(<<1, c>>, <<a + b, a * b>>) /\ ~Less(<<a + b, a * b>>, <<1, c>>)
<1>1. a <= 2 * RrfK + 1 /\ b <= 2 * RrfK + 1 /\ RrfK + 1 <= c /\ a + b > 0
    BY RankNumbers, ShortLists
<1> DEFINE m == 2 * RrfK + 1
<1>2. m \in Nat
    BY RankNumbers
<1>3. 2 * (a * b) <= (a + b) * m
    <2>1. a * b <= a * m
        BY <1>1, <1>2, SMT
    <2>2. b * a <= b * m
        BY <1>1, <1>2, SMT
    <2>3. a * b = b * a /\ (a + b) * m = a * m + b * m
        BY <1>2, SMT
    <2> HIDE DEF m
    <2>4. a * b \in Nat /\ a * m \in Nat /\ b * m \in Nat
        BY <1>2, SMT
    <2> QED BY <2>1, <2>2, <2>3, <2>4, SMT
<1>4. (a + b) * m < (a + b) * (2 * c)
    <2>1. m < 2 * c
        BY <1>1, RankNumbers
    <2>2. (a + b) * m + (a + b) * 1 <= (a + b) * (2 * c)
        <3>1. m + 1 <= 2 * c
            BY <1>2, <2>1
        <3> HIDE DEF m
        <3>2. (a + b) * (m + 1) <= (a + b) * (2 * c)
            BY <1>2, <3>1, SMT
        <3>3. (a + b) * (m + 1) = (a + b) * m + (a + b) * 1
            BY <1>2, SMT
        <3> QED BY <3>2, <3>3
    <2> HIDE DEF m
    <2>3. (a + b) * m \in Nat /\ (a + b) * (2 * c) \in Nat
        BY <1>2, SMT
    <2> QED BY <1>1, <2>2, <2>3, SMT
<1> HIDE DEF m
<1>5. (a + b) * (2 * c) = 2 * ((a + b) * c) /\ (a + b) * c \in Nat /\ a * b \in Nat
    BY SMT
<1>6. a * b < (a + b) * c
    BY <1>2, <1>3, <1>4, <1>5, SMT
<1>7. 1 * (a * b) = a * b
    BY <1>5
<1> QED BY <1>5, <1>6, <1>7 DEF Less

LEMMA RankBounds ==
    ASSUME NEW p, NEW list, Short(list), In(p, list)
    PROVE  RankIn(p, list) \in 1 .. TopK /\ RrfK + RankIn(p, list) \in Nat
<1>1. RankIn(p, list) \in DOMAIN list
    BY DEF In, RankIn
<1> QED BY <1>1, RankNumbers DEF Short

LEMMA BothScoreHigher ==
    ASSUME ListsShort, NEW p \in Candidates, NEW q, InBoth(q), ~InBoth(p)
    PROVE  Less(Score(p), Score(q)) /\ ~Less(Score(q), Score(p))
<1> DEFINE a == RrfK + RankIn(q, search.dense)
           b == RrfK + RankIn(q, search.sparse)
<1>1. Score(q) = <<a + b, a * b>>
    BY DEF Score, InBoth
<1>2. PICK list \in {search.dense, search.sparse} :
        In(p, list) /\ Score(p) = <<1, RrfK + RankIn(p, list)>>
    BY DEF Score, InBoth, Candidates
<1> DEFINE c == RrfK + RankIn(p, list)
<1>3. /\ a \in Nat /\ RrfK < a /\ a <= RrfK + TopK
      /\ b \in Nat /\ RrfK < b /\ b <= RrfK + TopK
    BY RankBounds, RankNumbers DEF InBoth, ListsShort
<1>4. c \in Nat /\ RrfK < c
    BY <1>2, RankBounds, RankNumbers DEF ListsShort
<1>5. Score(p) = <<1, c>>
    BY <1>2
<1> HIDE DEF a, b, c
<1> QED BY <1>1, <1>3, <1>4, <1>5, TwoRanksBeatOne

LEMMA ListIsShort ==
    ASSUME NEW S \in SUBSET Points, NEW list \in ListOf(S, Shortest(Cardinality(S), TopK))
    PROVE  Short(list)
<1>1. IsFiniteSet(S)
    BY CollectionIsFinite, FS_Subset
<1>2. Cardinality(S) \in Nat
    BY <1>1, FS_CardinalityType
<1> DEFINE n == Shortest(Cardinality(S), TopK)
<1>3. n \in Nat /\ n <= TopK
    BY <1>2, RankNumbers DEF Shortest
<1> HIDE DEF n
<1>4. list \in [1 .. n -> S]
    BY DEF ListOf, n
<1> QED BY <1>3, <1>4, RankNumbers DEF Short

LEMMA FusionInit == RetrievalInit => FusionInv
<1> SUFFICES ASSUME RetrievalInit PROVE FusionInv
    OBVIOUS
<1>1. DOMAIN SearchAtRest = Fields
    BY DEF SearchAtRest, Fields
<1>2. /\ SearchAtRest.pc = "idle" /\ SearchAtRest.dense = <<>> /\ SearchAtRest.sparse = <<>>
      /\ SearchAtRest.fused = <<>>
    BY DEF SearchAtRest
<1>3. search = SearchAtRest /\ stored = Points
    BY DEF RetrievalInit
<1> QED BY <1>1, <1>2, <1>3 DEF FusionInv, ListsShort, Short, BothListsFirst

\* A step before the fusion.
LEMMA NotYetFused ==
    ASSUME FusionInv, stored' \subseteq Points, DOMAIN search' = Fields,
           Short(search.dense)', Short(search.sparse)', search'.fused = <<>>
    PROVE  FusionInv'
BY DEF FusionInv, ListsShort, BothListsFirst

LEMMA FusionStep == FusionInv /\ [RetrievalNext]_retrievalVars => FusionInv'
<1> SUFFICES ASSUME FusionInv, [RetrievalNext]_retrievalVars PROVE FusionInv'
    OBVIOUS
<1>0. /\ ListsShort /\ BothListsFirst /\ stored \subseteq Points
      /\ Short(search.dense) /\ Short(search.sparse) /\ DOMAIN search = Fields
    BY DEF FusionInv, ListsShort
<1>s. \A c : Searchable(c) \in SUBSET Points
    BY <1>0 DEF Searchable
<1>1. ASSUME NEW c, NEW words, SearchDense(c, words) PROVE FusionInv'
    <2>1. PICK list \in ListOf(Searchable(c), Shortest(Cardinality(Searchable(c)), TopK)) :
            search' = [search EXCEPT !.pc = "sparse", !.coverage = c, !.text = words, !.dense = list]
        BY <1>1 DEF SearchDense
    <2>2. Short(list)
        BY <1>s, <2>1, ListIsShort
    <2>3. search.fused = <<>> /\ stored' = stored
        BY <1>0, <1>1 DEF SearchDense, ListsShort
    <2>4. /\ search'.dense = list /\ search'.sparse = search.sparse /\ search'.fused = search.fused
          /\ DOMAIN search' = Fields
        BY <1>0, <2>1 DEF Fields
    <2>5. Short(search.dense)' /\ Short(search.sparse)'
        BY <1>0, <2>2, <2>4 DEF Short
    <2> QED BY <1>0, <2>3, <2>4, <2>5, NotYetFused
<1>2. CASE SearchSparse
    <2> DEFINE hits == Matching(search.text, search.coverage)
    <2>1. PICK list \in ListOf(hits, Shortest(Cardinality(hits), TopK)) :
            search' = [search EXCEPT !.pc = "fuse", !.sparse = list]
        BY <1>2 DEF SearchSparse
    <2>2. Short(list)
        <3>1. hits \in SUBSET Points
            BY <1>s DEF Matching
        <3> HIDE DEF hits
        <3> QED BY <2>1, <3>1, ListIsShort
    <2>3. search.fused = <<>> /\ stored' = stored
        BY <1>0, <1>2 DEF SearchSparse, ListsShort
    <2>4. /\ search'.dense = search.dense /\ search'.sparse = list /\ search'.fused = search.fused
          /\ DOMAIN search' = Fields
        BY <1>0, <2>1 DEF Fields
    <2>5. Short(search.dense)' /\ Short(search.sparse)'
        BY <1>0, <2>2, <2>4 DEF Short
    <2> QED BY <1>0, <2>3, <2>4, <2>5, NotYetFused
<1>3. CASE Fuse
    <2>1. PICK list \in ListOf(Candidates, Cardinality(Candidates)) :
            /\ \A i, j \in DOMAIN list : i < j =>
                 \/ Less(Score(list[j]), Score(list[i]))
                 \/ ~Less(Score(list[i]), Score(list[j])) /\ Entered(list[i]) < Entered(list[j])
            /\ search' = [search EXCEPT !.pc = "rerank", !.fused = list]
        BY <1>3 DEF Fuse
    <2>2. /\ search'.dense = search.dense /\ search'.sparse = search.sparse
          /\ search'.fused = list /\ search'.pc = "rerank" /\ DOMAIN search' = Fields
        BY <1>0, <2>1 DEF Fields
    <2>3. \A i \in DOMAIN list : list[i] \in Candidates
        BY DEF ListOf
    <2>4. ASSUME NEW i \in DOMAIN list, NEW j \in DOMAIN list, i < j, InBoth(list[j])
          PROVE  InBoth(list[i])
        <3>1. SUFFICES ASSUME ~InBoth(list[i]) PROVE FALSE
            OBVIOUS
        <3>2. Less(Score(list[i]), Score(list[j])) /\ ~Less(Score(list[j]), Score(list[i]))
            BY <1>0, <2>3, <2>4, <3>1, BothScoreHigher
        <3> QED BY <2>1, <2>4, <3>2
    <2>5. BothListsFirst'
        BY <2>2, <2>4 DEF BothListsFirst, InBoth, In
    <2>6. ListsShort'
        BY <1>0, <1>3, <2>2 DEF Fuse, ListsShort, Short
    <2> QED BY <2>5, <2>6 DEF FusionInv
<1>4. CASE RerankAndHydrate
    <2>1. search'.pc = "done" /\ DOMAIN search' = Fields
          /\ search'.dense = search.dense /\ search'.sparse = search.sparse
          /\ search'.fused = search.fused
        BY <1>0, <1>4 DEF RerankAndHydrate, Fields
    <2> QED BY <1>0, <1>4, <2>1
        DEF RerankAndHydrate, FusionInv, ListsShort, Short, BothListsFirst, InBoth, In
<1>5. CASE UNCHANGED search /\ stored' \subseteq stored
    BY <1>0, <1>5 DEF FusionInv, ListsShort, Short, BothListsFirst, InBoth, In
<1>6. ASSUME NEW d, PurgeChunks(d) PROVE FusionInv'
    BY <1>5, <1>6 DEF PurgeChunks
<1>7. ASSUME NEW c, NEW words, JudgeQuote(c, words) PROVE FusionInv'
    BY <1>5, <1>7 DEF JudgeQuote
<1>8. CASE UNCHANGED retrievalVars
    BY <1>5, <1>8 DEF retrievalVars
<1> QED BY <1>1, <1>2, <1>3, <1>4, <1>6, <1>7, <1>8 DEF RetrievalNext

\* However near the vectors are said to be, a chunk that both searches found
\* comes before every chunk that one of them missed.
THEOREM BothFirst == RetrievalSpec => []BothListsFirst
<1>1. FusionInv => BothListsFirst
    BY DEF FusionInv
<1> QED BY FusionInit, FusionStep, <1>1, PTL DEF RetrievalSpec

-----------------------------------------------------------------------------
(* The citation enforcer.                                                  *)

LEMMA ParagraphsAreFinite ==
    ASSUME NEW s \in Seq(Piece)
    PROVE  /\ IsFiniteSet(Paragraphs(s))
           /\ \A p \in Paragraphs(s) : p \subseteq DOMAIN s
<1>1. Len(s) \in Nat /\ DOMAIN s = 1 .. Len(s)
    OBVIOUS
<1>2. IsFiniteSet(SUBSET DOMAIN s)
    <2>1. IsFiniteSet(DOMAIN s)
        BY <1>1, FS_Interval
    <2> HIDE <1>1
    <2> QED BY <2>1, FS_SUBSET
<1>3. \A p \in Paragraphs(s) : p \subseteq DOMAIN s
    BY DEF Paragraphs, Paragraph
<1>4. Paragraphs(s) \in SUBSET SUBSET DOMAIN s
    BY <1>3
<1> QED BY <1>2, <1>3, <1>4, FS_Subset

\* A text whose claims are cited to 95 % for the enforcer has the same
\* citations, and no more claims, for the schema.
LEMMA FloorPassed ==
    ASSUME NEW s \in Seq(Piece), NEW pad \in Nat, PassesCoverage(s, pad),
           ~Has(s, DOMAIN s, {"Verb"}), ~CitedButSetAside(s)
    PROVE  PassesFloor(s, pad)
<1> DEFINE schemaClaims == {p \in Paragraphs(s) : (HasDigit(s, p) \/ HasAnyVerb(s, p))
                                                  /\ ~Has(s, p, {"notfound"})}
           cited == {p \in Claims(s) : CitedParagraph(s, p)}
<1>1. \A p \in Paragraphs(s) : HasAnyVerb(s, p) => HasVerb(s, p)
    BY ParagraphsAreFinite DEF HasAnyVerb, HasVerb, Has
<1>2. schemaClaims \subseteq Claims(s)
    BY <1>1 DEF Claims
<1>3. {p \in schemaClaims : CitedParagraph(s, p)} = cited
    BY <1>1, Zenon DEF CitedButSetAside, HasAnyVerb, HasVerb, Has, Claims
<1>4. IsFiniteSet(Claims(s))
    BY ParagraphsAreFinite, FS_Subset DEF Claims
<1>5. ParagraphsOf(s, DOMAIN s) = Paragraphs(s)
    <2>1. \A i \in DOMAIN s : Paragraph(s, i) \cap DOMAIN s = Paragraph(s, i)
        BY DEF Paragraph
    <2> QED BY <2>1 DEF ParagraphsOf, Paragraphs
<1>6. AnswerCoverage(s, DOMAIN s, pad) = Coverage(s, pad, schemaClaims)
    BY <1>5, Zenon DEF AnswerCoverage
<1> HIDE DEF schemaClaims, cited
<1>7. /\ Cardinality(Claims(s)) \in Nat /\ Cardinality(schemaClaims) \in Nat
      /\ Cardinality(schemaClaims) <= Cardinality(Claims(s))
    BY <1>2, <1>4, FS_Subset, FS_CardinalityType
<1>8. Cardinality(cited) \in Nat
    <2>1. cited \subseteq Claims(s)
        BY DEF cited
    <2> QED BY <1>4, <2>1, FS_Subset, FS_CardinalityType
<1>9. AtLeast(<<pad + Cardinality(cited), pad + Cardinality(Claims(s))>>, 95)
    BY DEF PassesCoverage, Coverage, cited
<1>10. AtLeast(<<pad + Cardinality(cited), pad + Cardinality(schemaClaims)>>, 90)
    BY <1>7, <1>8, <1>9 DEF AtLeast
<1> QED BY <1>3, <1>6, <1>10 DEF PassesFloor, Coverage

\* Of fewer than twenty claims, 95 % are all of them.
LEMMA AllClaimsCited ==
    ASSUME NEW s \in Seq(Piece), NEW pad \in Nat, PassesCoverage(s, pad),
           pad + Cardinality(Claims(s)) < 20
    PROVE  \A p \in Claims(s) : CitedParagraph(s, p)
<1> DEFINE cited == {p \in Claims(s) : CitedParagraph(s, p)}
<1>1. IsFiniteSet(Claims(s)) /\ cited \subseteq Claims(s)
    BY ParagraphsAreFinite, FS_Subset DEF Claims
<1>2. AtLeast(<<pad + Cardinality(cited), pad + Cardinality(Claims(s))>>, 95)
    BY DEF PassesCoverage, Coverage
<1> HIDE DEF cited
<1>3. /\ Cardinality(Claims(s)) \in Nat /\ Cardinality(cited) \in Nat
      /\ Cardinality(cited) <= Cardinality(Claims(s))
    BY <1>1, FS_Subset, FS_CardinalityType
<1>4. Cardinality(cited) = Cardinality(Claims(s))
    BY <1>2, <1>3 DEF AtLeast
<1>5. cited = Claims(s)
    BY <1>1, <1>4, FS_Subset
<1> QED BY <1>5 DEF cited

\* Headers that begin paragraphs leave what comes before and after them in
\* different ones: the citations of a claim are in the answer the claim is in.
LEMMA CitedInItsAnswer ==
    ASSUME NEW s \in Seq(Piece), HeadersOpen(s), NEW h \in Nat,
           h = 0 \/ (h \in DOMAIN s /\ s[h].feature = "header"),
           NEW j \in Body(s, h), NEW i \in Paragraph(s, j), s[i].feature \in Citations
    PROVE  i \in Body(s, h)
<1>1. /\ i \in DOMAIN s /\ j \in DOMAIN s /\ DOMAIN s = 1 .. Len(s) /\ Len(s) \in Nat
      /\ h < j /\ \A k \in DOMAIN s : h < k /\ k <= j => s[k].feature # "header"
      /\ \A k \in DOMAIN s : (j < k /\ k <= i) \/ (i < k /\ k <= j) => ~s[k].opens
    BY DEF Body, Paragraph
<1>2. \A k \in DOMAIN s : s[k].feature = "header" => s[k].opens
    BY DEF HeadersOpen
<1>3. h < i
    <2> SUFFICES ASSUME i <= h PROVE FALSE
        BY <1>1
    <2>1. h \in DOMAIN s /\ s[h].feature = "header"
        BY <1>1
    <2>2. CASE i = h
        BY <2>1, <2>2 DEF Citations
    <2>3. CASE i < h
        BY <1>1, <1>2, <2>1, <2>3
    <2> QED BY <1>1, <2>2, <2>3
<1>4. ASSUME NEW k \in DOMAIN s, h < k, k <= i PROVE s[k].feature # "header"
    <2>1. CASE k <= j
        BY <1>1, <1>4, <2>1
    <2>2. CASE j < k
        BY <1>1, <1>2, <1>4, <2>2
    <2> QED BY <1>1, <2>1, <2>2
<1> QED BY <1>1, <1>3, <1>4 DEF Body

LEMMA AnswerIsCited ==
    ASSUME NEW s \in Seq(Piece), HeadersOpen(s), ~Has(s, DOMAIN s, {"Verb"}),
           \A p \in Claims(s) : CitedParagraph(s, p),
           NEW h \in Nat, h = 0 \/ (h \in DOMAIN s /\ s[h].feature = "header"), NEW pad \in Nat
    PROVE  AnswerStands(s, Body(s, h), pad)
<1> DEFINE body == Body(s, h)
           claims == {p \in ParagraphsOf(s, body) :
                        (HasDigit(s, p) \/ HasAnyVerb(s, p)) /\ ~Has(s, p, {"notfound"})}
<1>1. ASSUME NEW q \in claims PROVE CitedParagraph(s, q)
    <2>1. PICK j \in body : q = Paragraph(s, j) \cap body
        BY DEF ParagraphsOf
    <2>2. j \in DOMAIN s /\ Paragraph(s, j) \subseteq DOMAIN s
        BY DEF Body, Paragraph
    <2>3. HasDigit(s, q) \/ HasAnyVerb(s, q)
        OBVIOUS
    <2> HIDE DEF claims, body
    <2>4. HasDigit(s, Paragraph(s, j)) \/ HasVerb(s, Paragraph(s, j))
        BY <2>1, <2>2, <2>3 DEF HasDigit, HasVerb, HasAnyVerb, Has
    <2>5. Paragraph(s, j) \in Claims(s)
        BY <2>2, <2>4 DEF Claims, Paragraphs
    <2>6. PICK i \in Paragraph(s, j) : s[i].feature \in Citations
        BY <2>5 DEF CitedParagraph, Has
    <2>7. i \in body
        BY <2>6, CitedInItsAnswer DEF body
    <2> QED BY <2>1, <2>6, <2>7 DEF CitedParagraph, Has
<1>2. IsFiniteSet(claims)
    <2>1. IsFiniteSet(SUBSET DOMAIN s)
        <3>1. Len(s) \in Nat /\ DOMAIN s = 1 .. Len(s)
            OBVIOUS
        <3>2. IsFiniteSet(DOMAIN s)
            BY <3>1, FS_Interval
        <3> HIDE <3>1
        <3> QED BY <3>2, FS_SUBSET
    <2>2. claims \subseteq SUBSET DOMAIN s
        BY DEF ParagraphsOf, Body, Paragraph
    <2> QED BY <2>1, <2>2, FS_Subset
<1>3. {p \in claims : CitedParagraph(s, p)} = claims
    BY <1>1
<1>4. AnswerCoverage(s, body, pad)
        = <<pad + Cardinality({p \in claims : CitedParagraph(s, p)}), pad + Cardinality(claims)>>
    BY Zenon DEF AnswerCoverage, Coverage
<1> HIDE DEF claims, body
<1>5. Cardinality(claims) \in Nat
    BY <1>2, FS_CardinalityType
<1>6. AnswerCoverage(s, body, pad) = <<pad + Cardinality(claims), pad + Cardinality(claims)>>
    BY <1>3, <1>4, Zenon
<1>7. AtLeast(AnswerCoverage(s, body, pad), 50)
    <2> DEFINE n == pad + Cardinality(claims)
    <2>1. n \in Nat
        BY <1>5
    <2>2. AnswerCoverage(s, body, pad) = <<n, n>>
        BY <1>6
    <2> HIDE DEF n
    <2> QED BY <2>1, <2>2 DEF AtLeast
<1> QED BY <1>7 DEF AnswerStands, body

VerdictInv ==
    /\ text \in Seq(Piece) /\ padding \in Nat
    /\ verdict.approved => PassesCoverage(text, padding)

LEMMA VerdictStep == VerdictInv /\ [EnforcerNext]_enforcerVars => VerdictInv'
<1> SUFFICES ASSUME VerdictInv, [EnforcerNext]_enforcerVars PROVE VerdictInv'
    OBVIOUS
<1>1. ASSUME NEW piece \in Piece, Write(piece) PROVE VerdictInv'
    <2>1. ~verdict.approved /\ verdict' = verdict /\ padding' = padding
        BY <1>1 DEF Write, NoVerdict
    <2>2. text' \in Seq(Piece)
        BY <1>1 DEF Write, VerdictInv
    <2> QED BY <2>1, <2>2 DEF VerdictInv
<1>2. ASSUME NEW pad \in Paddings, ValidateText(pad) PROVE VerdictInv'
    <2>1. text' = text /\ padding' = pad /\ pad \in Nat
        BY <1>2, EnforcerAssumption DEF ValidateText
    <2>2. verdict'.approved = Approved(text, pad)
        BY <1>2 DEF ValidateText
    <2>3. verdict'.approved => PassesCoverage(text', padding')
        BY <2>1, <2>2 DEF Approved
    <2> QED BY <2>1, <2>3 DEF VerdictInv
<1>3. CASE UNCHANGED enforcerVars
    BY <1>3 DEF enforcerVars, VerdictInv
<1> QED BY <1>1, <1>2, <1>3 DEF EnforcerNext

LEMMA VerdictInit == EnforcerInit => VerdictInv
BY DEF EnforcerInit, NoVerdict, VerdictInv

LEMMA VerdictIsStrict == VerdictInv => EnforcerIsStricter
<1> SUFFICES ASSUME text \in Seq(Piece), padding \in Nat, PassesCoverage(text, padding),
                    ~Has(text, DOMAIN text, {"Verb"}), ~CitedButSetAside(text)
             PROVE  /\ PassesFloor(text, padding)
                    /\ HeadersOpen(text) /\ padding + Cardinality(Claims(text)) < 20 =>
                         AnswersStand(text, padding)
    BY DEF VerdictInv, EnforcerIsStricter
<1>1. PassesFloor(text, padding)
    BY FloorPassed
<1>2. ASSUME HeadersOpen(text), padding + Cardinality(Claims(text)) < 20
      PROVE  AnswersStand(text, padding)
    <2>1. \A p \in Claims(text) : CitedParagraph(text, p)
        BY <1>2, AllClaimsCited
    <2>2. \A h \in DOMAIN text : h \in Nat
        OBVIOUS
    <2>3. ASSUME NEW h \in DOMAIN text, text[h].feature = "header"
          PROVE  AnswerStands(text, Body(text, h), 0)
        BY <1>2, <2>1, <2>2, <2>3, AnswerIsCited
    <2>4. AnswerStands(text, Body(text, 0), 1)
        BY <1>2, <2>1, AnswerIsCited
    <2> QED BY <2>3, <2>4 DEF AnswersStand
<1> QED BY <1>1, <1>2

\* What the enforcer approves is above the floor of the schemas, and its
\* answers stand if it has fewer than twenty claims, for texts of any length:
\* what the gates count differently as a claim is named in the property.
THEOREM EnforcerIsTheStricter == EnforcerSpec => []EnforcerIsStricter
BY VerdictInit, VerdictStep, VerdictIsStrict, PTL DEF EnforcerSpec

-----------------------------------------------------------------------------
(* The normaliser.                                                         *)

LEMMA Quotient ==
    ASSUME NEW a \in Nat, NEW b \in Nat \ {0}
    PROVE  (a * b) \div b = a
OBVIOUS

LEMMA Powers ==
    ASSUME NEW n \in Nat
    PROVE  /\ n * (Power["thousand"] \div Thousand) = n
           /\ n * (Power["million"] \div Thousand) = n * Thousand
           /\ n * (Power["billion"] \div Thousand) = n * Thousand * Thousand
<1>0. Thousand \in Nat \ {0}
    BY NormalizerAssumption
<1>1. Thousand \div Thousand = 1
    BY <1>0, SMT
<1>2. (Thousand * Thousand) \div Thousand = Thousand
    BY <1>0, Quotient
<1>3. (Thousand * Thousand * Thousand) \div Thousand = Thousand * Thousand
    <2> DEFINE square == Thousand * Thousand
    <2>1. square \in Nat
        BY <1>0, SMT
    <2> HIDE DEF square
    <2>2. (square * Thousand) \div Thousand = square
        BY <1>0, <2>1, Quotient
    <2> QED BY <2>2 DEF square
<1>4. n * (Thousand * Thousand) = n * Thousand * Thousand
    BY <1>0, SMT
<1> QED BY <1>0, <1>1, <1>2, <1>3, <1>4 DEF Power

LEMMA MoneyKeepsMeaning ==
    ASSUME NEW v \in ValueWriting, v.kind = "money", v.suffix # "odd", NEW context \in ContextUnits
    PROVE  Monetary(v, context) = Meaning(v, context)
<1>1. v.number \in Nat /\ v.suffix \in {"none", "thousand", "million", "billion"}
    BY NormalizerAssumption DEF ValueWriting, UnitSuffixes
<1>2. CASE v.suffix = "none"
    <2>1. v.number * 1 = v.number
        BY <1>1
    <2>2. v.number * (Thousand * Thousand) = v.number * Thousand * Thousand
        BY <1>1, NormalizerAssumption, SMT
    <2>3. Monetary(v, context) = v.number * ContextScale[context]
        BY <1>2 DEF Monetary
    <2>4. CASE context = "thousands"
        BY <1>2, <2>1, <2>3, <2>4 DEF Meaning, ContextScale
    <2>5. CASE context = "billions"
        BY <1>2, <2>2, <2>3, <2>5 DEF Meaning, ContextScale
    <2>6. CASE context \in {"none", "millions"}
        BY <1>2, <2>3, <2>6 DEF Meaning, ContextScale
    <2> QED BY <2>4, <2>5, <2>6 DEF ContextUnits
<1>3. CASE v.suffix # "none"
    <2>1. Monetary(v, context) = v.number * (Power[v.suffix] \div Thousand)
        BY <1>3 DEF Monetary
    <2>2. CASE v.suffix = "thousand"
        BY <1>1, <2>1, <2>2, Powers DEF Meaning
    <2>3. CASE v.suffix = "million"
        BY <1>1, <2>1, <2>3, Powers DEF Meaning
    <2>4. CASE v.suffix = "billion"
        BY <1>1, <2>1, <2>4, Powers DEF Meaning
    <2> QED BY <1>1, <1>3, <2>2, <2>3, <2>4
<1> QED BY <1>2, <1>3

LEMMA ValueKeepsMeaning ==
    ASSUME NEW v \in ValueWriting, NEW context \in ContextUnits,
           NormalizeValue(v, context) # Refused
    PROVE  /\ NormalizeValue(v, context).value = Meaning(v, context)
           /\ NormalizeValue(v, context).negative <=> v.mark \in {"minus", "parentheses"}
<1>1. /\ v.kind \in {"money", "sign", "percent", "shares", "ratio"} /\ v.number \in Nat
      /\ v.mark \in {"none", "minus", "parentheses"}
      /\ v.kind \notin {"money", "shares"} => v.suffix = "none"
    BY NormalizerAssumption DEF ValueWriting
<1>2. Enclosed(v) /\ v.suffix # "odd"
    BY DEF NormalizeValue
<1>3. NormalizeValue(v, context).negative = (v.mark # "none")
    BY <1>2 DEF NormalizeValue
<1>4. NormalizeValue(v, context).value =
          CASE v.kind = "money" -> Monetary(v, context)
            [] v.kind = "shares" -> v.number * Power[v.suffix]
            [] OTHER -> v.number
    BY <1>2 DEF NormalizeValue
<1>5. CASE v.kind = "money"
    BY <1>1, <1>2, <1>3, <1>4, <1>5, MoneyKeepsMeaning
<1>6. CASE v.kind = "shares"
    <2>1. v.suffix = "none" => v.number * Power[v.suffix] = v.number
        BY <1>1 DEF Power
    <2> QED BY <1>1, <1>3, <1>4, <1>6, <2>1 DEF Meaning
<1>7. CASE v.kind \notin {"money", "shares"}
    BY <1>1, <1>3, <1>4, <1>7 DEF Meaning
<1> QED BY <1>5, <1>6, <1>7

LEMMA MeaningInit == NormalizerInit => NormalizedOrRefused
BY DEF NormalizerInit, NoItem, NormalizedOrRefused

LEMMA MeaningStep == NormalizedOrRefused /\ [NormalizerNext]_item => NormalizedOrRefused'
<1> SUFFICES ASSUME NormalizedOrRefused, [NormalizerNext]_item
             PROVE  NormalizedOrRefused'
    OBVIOUS
<1>1. ASSUME NEW v \in ValueWriting, NEW context \in ContextUnits,
             NormalizeItemValue(v, context)
      PROVE  NormalizedOrRefused'
    <2>1. /\ item'.pc = "value" /\ item'.raw = v /\ item'.context = context
          /\ item'.value = NormalizeValue(v, context)
        BY <1>1 DEF NormalizeItemValue
    <2>2. \/ NormalizeValue(v, context) = Refused
          \/ /\ NormalizeValue(v, context).value = Meaning(v, context)
             /\ NormalizeValue(v, context).negative <=> v.mark \in {"minus", "parentheses"}
        BY ValueKeepsMeaning
    <2> QED BY <2>1, <2>2 DEF NormalizedOrRefused, Meaning
<1>2. ASSUME NEW p \in PeriodWriting, NormalizeItemPeriod(p) PROVE NormalizedOrRefused'
    <2>1. item'.pc = "period" /\ item'.period = p /\ item'.label = NormalizePeriod(p)
        BY <1>2 DEF NormalizeItemPeriod
    <2>2. \/ item'.label = Unreadable \/ p.form = "Q of FY"
          \/ item'.label = [year |-> p.year, quarter |-> p.quarter]
        BY <2>1 DEF NormalizePeriod
    <2> QED BY <2>1, <2>2 DEF NormalizedOrRefused
<1>3. CASE UNCHANGED item
    BY <1>3 DEF NormalizedOrRefused
<1> QED BY <1>1, <1>2, <1>3 DEF NormalizerNext

\* Any value in any table unit, and any period, keeps its meaning or is refused.
THEOREM MeaningIsKept == NormalizerSpec => []NormalizedOrRefused
BY MeaningInit, MeaningStep, PTL DEF NormalizerSpec

-----------------------------------------------------------------------------
(* The connector.                                                          *)

\* What the bucket holds was gathered since the last request went out.
Gathered ==
    /\ ticks \in Nat
    /\ bucket.tokens \in Int /\ bucket.last \in Int
    /\ sent \in Int \X Int
    /\ bucket.tokens <= bucket.last - sent[2]

PaceInv == Gathered /\ RequestsPaced

\* A turn of the loop adds no more than the time that has gone by.
LEMMA FilledBound ==
    ASSUME Gathered
    PROVE  Filled \in Int /\ Filled <= Interval /\ Filled <= ticks - sent[2]
BY EdgarAssumption DEF Gathered, Filled

LEMMA PaceInit == EdgarInit => PaceInv
BY EdgarAssumption DEF EdgarInit, PaceInv, Gathered, RequestsPaced, Long

LEMMA PaceStep == PaceInv /\ [EdgarNext]_edgarVars => PaceInv'
<1> SUFFICES ASSUME PaceInv, [EdgarNext]_edgarVars PROVE PaceInv'
    OBVIOUS
<1>0. Gathered /\ RequestsPaced
    BY DEF PaceInv
<1>1. ASSUME Tick PROVE PaceInv'
    BY <1>0, <1>1 DEF Tick, PaceInv, Gathered, RequestsPaced
<1>2. ASSUME NEW c \in Callers, Acquire(c) PROVE PaceInv'
    <2>1. Filled \in Int /\ Filled <= Interval /\ Filled <= ticks - sent[2]
        BY <1>0, FilledBound
    <2>2. ticks \in Nat /\ sent \in Int \X Int
        BY <1>0 DEF Gathered
    <2>3. CASE Filled >= Interval
        <3>1. /\ bucket' = [tokens |-> Filled - Interval, last |-> ticks]
              /\ sent' = <<sent[2], ticks>> /\ ticks' = ticks
            BY <1>2, <2>3 DEF Acquire
        <3>2. ticks - sent[2] >= Interval
            BY <2>1, <2>2, <2>3, EdgarAssumption
        <3>3. Gathered'
            BY <2>1, <2>2, <3>1, EdgarAssumption DEF Gathered
        <3>4. RequestsPaced'
            BY <2>2, <3>1, <3>2 DEF RequestsPaced
        <3> QED BY <3>3, <3>4 DEF PaceInv
    <2>4. CASE ~(Filled >= Interval)
        <3>1. /\ bucket' = [tokens |-> Filled, last |-> ticks]
              /\ sent' = sent /\ ticks' = ticks
            BY <1>2, <2>4 DEF Acquire
        <3> QED BY <1>0, <2>1, <2>2, <3>1 DEF PaceInv, Gathered, RequestsPaced
    <2> QED BY <2>3, <2>4
<1>3. ASSUME NEW c \in Callers, CallConnector(c) \/ Answered200(c) \/ Throttled(c) \/ Refuses(c)
      PROVE PaceInv'
    <2>1. UNCHANGED <<ticks, bucket, sent>>
        BY <1>3 DEF CallConnector, Answered200, Throttled, Refuses
    <2> QED BY <1>0, <2>1 DEF PaceInv, Gathered, RequestsPaced
<1>4. ASSUME UNCHANGED edgarVars PROVE PaceInv'
    BY <1>0, <1>4 DEF edgarVars, PaceInv, Gathered, RequestsPaced
<1> QED BY <1>1, <1>2, <1>3, <1>4 DEF EdgarNext

\* Whatever coroutines share a connector, and however long it stood idle, two
\* requests in a row are at least one interval of the rate apart.
THEOREM Paced == EdgarSpec => []RequestsPaced
<1>1. PaceInv => RequestsPaced
    BY DEF PaceInv
<1> QED BY PaceInit, PaceStep, <1>1, PTL DEF EdgarSpec

-----------------------------------------------------------------------------
(* The chunker.                                                            *)

SentenceEnds == 0 .. Len(section.words)
ParagraphEnds == 0 .. Len(section.ends)

\* The text: totals never fall, and paragraphs have sentences.
TextInv ==
    /\ \A i, j \in SentenceEnds : i <= j => WordsTo(i) <= WordsTo(j)
    /\ \A p \in ParagraphEnds : SentencesTo(p) \in SentenceEnds
    /\ \A p, q \in ParagraphEnds : p < q => SentencesTo(p) < SentencesTo(q)
    /\ SentencesTo(Len(section.ends)) = Len(section.words)

\* What a loop knows of the n pieces from the first to the last that it has summed.
Summed(first, last, n, limit) ==
    /\ n = 0 => chunker.tokens = 0
    /\ n > 0 => TokensIn(first, last) < chunker.tokens + n
    /\ n > 1 => chunker.tokens <= limit

\* Before the split there are no children, and the split starts at the first sentence.
BeforeInv ==
    chunker.pc \in {"write", "pack"} =>
        /\ children = <<>>
        /\ chunker.parent = 1 /\ chunker.start = 1 /\ chunker.idx = 1
        /\ chunker.pc = "write" => parents = <<>> /\ chunker = ChunkerAtRest

PackInv ==
    chunker.pc = "pack" =>
        /\ section.ends # <<>>
        /\ chunker.from \in 1 .. chunker.next /\ chunker.next \in 1 .. Len(section.ends) + 1
        /\ chunker.from = chunker.next => chunker.next = 1
        /\ chunker.from = (IF parents = <<>> THEN 1 ELSE parents[Len(parents)].to + 1)
        /\ Summed(SentencesTo(chunker.from - 1) + 1, SentencesTo(chunker.next - 1),
                  chunker.next - chunker.from, ParentMax)

\* The parent that is split, and where in it.
SplitInv ==
    chunker.pc \in {"take", "overlap", "done"} =>
        /\ chunker.parent \in DOMAIN parents
        /\ parents[Len(parents)].to = Len(section.ends)
        /\ chunker.start \in FirstOf(parents[chunker.parent]) .. LastOf(parents[chunker.parent])
        /\ chunker.idx \in chunker.start .. LastOf(parents[chunker.parent]) + 1

\* A child follows the children before it.
Follows(before, child) ==
    IF before = <<>> THEN OpensParent(<<>>, child)
    ELSE \/ Continues(before[Len(before)], child)
         \/ OpensParent(<<before[Len(before)]>>, child)

TakeInv ==
    chunker.pc = "take" =>
        /\ Follows(children, [parent |-> chunker.parent, first |-> chunker.start])
        /\ Summed(chunker.start, chunker.idx - 1, chunker.idx - chunker.start, ChildMax)

OverlapInv ==
    chunker.pc = "overlap" =>
        /\ children # <<>>
        /\ children[Len(children)] = [parent |-> chunker.parent, first |-> chunker.start,
                                      last |-> chunker.idx - 1]
        /\ chunker.idx \in chunker.start + 1 .. LastOf(parents[chunker.parent])
        /\ chunker.back \in chunker.start .. chunker.idx - 1
        /\ Summed(chunker.back + 1, chunker.idx - 1, chunker.idx - 1 - chunker.back, chunker.tokens)
        /\ chunker.tokens <= TokensIn(chunker.back + 1, chunker.idx - 1)
        /\ chunker.back < chunker.idx - 1 =>
              TokensIn(chunker.back + 2, chunker.idx - 1) < OverlapTokens + (chunker.idx - 2 - chunker.back)

ChunkerInv ==
    /\ ChunkerTypeOK /\ TextInv /\ BeforeInv /\ PackInv /\ SplitInv /\ TakeInv /\ OverlapInv
    /\ ChildrenCover

LEMMA EstimateSum ==
    ASSUME NEW x \in Nat, NEW y \in Nat
    PROVE  /\ Estimate(x) \in Nat
           /\ Estimate(x) + Estimate(y) <= Estimate(x + y)
           /\ Estimate(x + y) <= Estimate(x) + Estimate(y) + 1
BY DEF Estimate

\* A range of sentences has the tokens of its two parts, but for one that rounding
\* leaves.
LEMMA TokensSplit ==
    ASSUME ChunkerTypeOK, TextInv, NEW a \in Nat \ {0}, NEW b \in Nat, NEW c \in Nat,
           a <= b + 1, b <= c, c <= Len(section.words)
    PROVE  /\ TokensIn(a, b) \in Nat /\ TokensIn(b + 1, c) \in Nat /\ TokensIn(a, c) \in Nat
           /\ TokensIn(a, b) + TokensIn(b + 1, c) <= TokensIn(a, c)
           /\ TokensIn(a, c) <= TokensIn(a, b) + TokensIn(b + 1, c) + 1
           /\ a = b + 1 => TokensIn(a, b) = 0
<1>1. Len(section.words) \in Nat /\ section.words \in Seq(Nat)
  BY DEF ChunkerTypeOK
<1>2. a - 1 \in SentenceEnds /\ b \in SentenceEnds /\ c \in SentenceEnds
  BY <1>1 DEF SentenceEnds
<1>3. \A i \in SentenceEnds : WordsTo(i) \in Nat
  BY <1>1 DEF SentenceEnds, WordsTo
<1>4. WordsTo(a - 1) <= WordsTo(b) /\ WordsTo(b) <= WordsTo(c)
  BY <1>2 DEF TextInv
<1> DEFINE x == WordsTo(b) - WordsTo(a - 1)
           y == WordsTo(c) - WordsTo(b)
<1>5. x \in Nat /\ y \in Nat
  BY <1>2, <1>3, <1>4
<1>6. x + y = WordsTo(c) - WordsTo(a - 1)
  BY <1>2, <1>3
<1>7. TokensIn(a, b) = Estimate(x) /\ TokensIn(a, c) = Estimate(x + y)
  BY <1>6 DEF TokensIn
<1>8. (b + 1) - 1 = b
  OBVIOUS
<1>9. TokensIn(b + 1, c) = Estimate(y)
  BY <1>8 DEF TokensIn
<1>10. ASSUME a = b + 1 PROVE Estimate(x) = 0
  <2>1. x = 0
    BY <1>10, <1>8, <1>2, <1>3
  <2> QED BY <2>1 DEF Estimate
<1>11. /\ Estimate(x) \in Nat /\ Estimate(y) \in Nat /\ Estimate(x + y) \in Nat
       /\ Estimate(x) + Estimate(y) <= Estimate(x + y)
       /\ Estimate(x + y) <= Estimate(x) + Estimate(y) + 1
  <2>1. x + y \in Nat
    BY <1>5
  <2>2. Estimate(x + y) \in Nat /\ Estimate(y) \in Nat
    BY <1>5, <2>1, EstimateSum
  <2> QED BY <1>5, <2>2, EstimateSum
<1> HIDE DEF x, y
<1> QED BY <1>7, <1>9, <1>10, <1>11

\* A parent has the first and the last sentence of its paragraphs.
LEMMA ParentSpan ==
    ASSUME ChunkerTypeOK, TextInv, ParentsPartition, NEW i \in DOMAIN parents
    PROVE  /\ parents[i].from \in Nat \ {0} /\ parents[i].to \in Nat
           /\ parents[i].from <= parents[i].to /\ parents[i].to <= Len(section.ends)
           /\ FirstOf(parents[i]) \in Nat \ {0} /\ LastOf(parents[i]) \in Nat
           /\ FirstOf(parents[i]) <= LastOf(parents[i])
           /\ LastOf(parents[i]) <= Len(section.words)
<1>1. /\ Len(section.words) \in Nat /\ Len(section.ends) \in Nat
      /\ parents \in Seq([from : Nat, to : Nat])
  BY DEF ChunkerTypeOK
<1> DEFINE Record == [from : Nat, to : Nat]
<1>2. /\ parents[i] \in Record
      /\ i \in Nat \ {0}
      /\ i # 1 => i - 1 \in DOMAIN parents /\ parents[i - 1] \in Record
  <2> HIDE DEF Record
  <2>1. parents \in Seq(Record) /\ DOMAIN parents = 1 .. Len(parents) /\ Len(parents) \in Nat
    BY <1>1 DEF Record
  <2>2. i \in 1 .. Len(parents)
    BY <2>1
  <2>3. parents[i] \in Record
    BY <2>1, <2>2
  <2>4. ASSUME i # 1 PROVE i - 1 \in DOMAIN parents /\ parents[i - 1] \in Record
    <3>1. i - 1 \in 1 .. Len(parents)
      BY <2>1, <2>2, <2>4
    <3> QED BY <2>1, <3>1
  <2> QED BY <2>2, <2>1, <2>3, <2>4
<1>3. parents[i].from # 0
  <2>1. CASE i = 1
    BY <2>1 DEF ParentsPartition
  <2>2. CASE i # 1
    <3>1. parents[i - 1].to \in Nat
      BY <1>2, <2>2
    <3> QED BY <3>1, <2>2 DEF ParentsPartition
  <2> QED BY <2>1, <2>2
<1>4. parents[i].to \in parents[i].from .. Len(section.ends)
  BY DEF ParentsPartition
<1>5. parents[i].from - 1 \in ParagraphEnds /\ parents[i].to \in ParagraphEnds
      /\ parents[i].from - 1 < parents[i].to
  BY <1>1, <1>2, <1>3, <1>4 DEF ParagraphEnds
<1>6. /\ SentencesTo(parents[i].from - 1) \in SentenceEnds /\ SentencesTo(parents[i].to) \in SentenceEnds
      /\ SentencesTo(parents[i].from - 1) < SentencesTo(parents[i].to)
  BY <1>5 DEF TextInv
<1> QED BY <1>1, <1>2, <1>3, <1>4, <1>6 DEF SentenceEnds, FirstOf, LastOf

LEMMA ChunkerBegins == ChunkerInit => ChunkerInv
<1> SUFFICES ASSUME ChunkerInit PROVE ChunkerInv
  OBVIOUS
<1> USE DEF ChunkerInit, ChunkerAtRest
<1>1. ChunkerTypeOK
  BY DEF ChunkerTypeOK, ChunkerPC
<1>2. TextInv
  BY DEF TextInv, SentenceEnds, ParagraphEnds, WordsTo, SentencesTo
<1>3. BeforeInv /\ PackInv /\ SplitInv /\ TakeInv /\ OverlapInv
  BY DEF BeforeInv, PackInv, SplitInv, TakeInv, OverlapInv
<1>4. ChildrenCover
  BY DEF ChildrenCover, ParentsPartition
<1> QED BY <1>1, <1>2, <1>3, <1>4 DEF ChunkerInv

LEMMA AddSentenceKeeps ==
    ASSUME ChunkerInv, NEW w \in WordCounts, NEW new \in BOOLEAN, AddSentence(w, new)
    PROVE  ChunkerInv'
<1> PICK n : n = Len(section.words)
  OBVIOUS
<1> PICK p : p = IF new THEN Len(section.ends) + 1 ELSE Len(section.ends)
  OBVIOUS
<1> DEFINE words == Append(section.words, WordsTo(n) + w)
           ends == [k \in 1 .. p |-> IF k = p THEN n + 1 ELSE section.ends[k]]
<1>1. /\ chunker.pc = "write" /\ p > 0
      /\ section' = [words |-> words, ends |-> ends]
      /\ chunker' = chunker /\ parents' = parents /\ children' = children
  BY DEF AddSentence
<1>2. chunker = ChunkerAtRest /\ parents = <<>> /\ children = <<>>
  BY <1>1 DEF ChunkerInv, BeforeInv
<1>3. /\ section.words \in Seq(Nat) /\ section.ends \in Seq(Nat) /\ w \in Nat
      /\ n \in Nat /\ Len(section.ends) \in Nat
  BY ChunkerAssumption DEF ChunkerInv, ChunkerTypeOK
<1>4. p \in Nat /\ p - 1 <= Len(section.ends) /\ Len(section.ends) <= p /\ p >= 1
  BY <1>1, <1>3
<1>5. /\ \A i \in 0 .. n : WordsTo(i) \in Nat
      /\ \A i, j \in 0 .. n : i <= j => WordsTo(i) <= WordsTo(j)
  <2>1. \A i \in 0 .. n : WordsTo(i) \in Nat
    BY <1>3 DEF WordsTo
  <2>2. \A i, j \in 0 .. n : i <= j => WordsTo(i) <= WordsTo(j)
    BY <1>3 DEF ChunkerInv, TextInv, SentenceEnds
  <2> QED BY <2>1, <2>2
<1>6. words \in Seq(Nat) /\ Len(words) = n + 1
  <2>1. WordsTo(n) + w \in Nat
    BY <1>3, <1>5
  <2> QED BY <1>3, <2>1
<1>7. /\ \A i \in 0 .. n : WordsTo(i)' = WordsTo(i)
      /\ WordsTo(n + 1)' = WordsTo(n) + w
  <2>1. section'.words = words
    BY <1>1
  <2>2. /\ \A i \in 1 .. n : words[i] = section.words[i]
        /\ words[n + 1] = WordsTo(n) + w
    BY <1>3, <1>5
  <2> HIDE DEF words
  <2> QED BY <2>1, <2>2, <1>3 DEF WordsTo
<1>8. /\ \A q \in 0 .. p - 1 : SentencesTo(q)' = SentencesTo(q)
      /\ SentencesTo(p)' = n + 1
  BY <1>1, <1>3, <1>4 DEF SentencesTo
<1>9. ends \in Seq(Nat) /\ Len(ends) = p
  <2>1. \A k \in 1 .. p : k # p => section.ends[k] \in Nat
    BY <1>3, <1>4
  <2>2. \A k \in 1 .. p : (IF k = p THEN n + 1 ELSE section.ends[k]) \in Nat
    BY <2>1, <1>3
  <2> QED BY <2>2, <1>4
<1>10. section'.words = words /\ section'.ends = ends
  BY <1>1
<1>11. SentenceEnds' = 0 .. n + 1 /\ ParagraphEnds' = 0 .. p
  BY <1>10, <1>6, <1>9 DEF SentenceEnds, ParagraphEnds
<1>12. /\ \A q \in 0 .. p - 1 : SentencesTo(q) \in 0 .. n
       /\ \A q, r \in 0 .. p - 1 : q < r => SentencesTo(q) < SentencesTo(r)
  <2>1. \A q \in 0 .. p - 1 : q \in ParagraphEnds
    BY <1>3, <1>4 DEF ParagraphEnds
  <2>2. SentenceEnds = 0 .. n /\ TextInv
    BY DEF ChunkerInv, SentenceEnds
  <2> QED BY <2>1, <2>2 DEF TextInv
<1>13. TextInv'
  <2>1. (\A i, j \in SentenceEnds : i <= j => WordsTo(i) <= WordsTo(j))'
    <3> SUFFICES ASSUME NEW i \in 0 .. n + 1, NEW j \in 0 .. n + 1, i <= j
                 PROVE  WordsTo(i)' <= WordsTo(j)'
      BY <1>11
    <3>1. CASE j \in 0 .. n
      <4>1. i \in 0 .. n
        BY <3>1, <1>3
      <4>2. WordsTo(i)' = WordsTo(i) /\ WordsTo(j)' = WordsTo(j) /\ WordsTo(i) <= WordsTo(j)
        BY <3>1, <4>1, <1>5, <1>7
      <4> QED BY <4>2
    <3>2. CASE i \in 0 .. n /\ j = n + 1
      <4>1. WordsTo(i) <= WordsTo(n)
        BY <3>2, <1>3, <1>5
      <4>2. WordsTo(i) \in Nat /\ WordsTo(n) \in Nat
        BY <3>2, <1>3, <1>5
      <4> QED BY <3>2, <4>1, <4>2, <1>3, <1>7
    <3>3. CASE i = n + 1 /\ j = n + 1
      <4>1. WordsTo(n) \in Nat /\ i = j
        BY <3>3, <1>3, <1>5
      <4>2. WordsTo(n + 1)' \in Nat
        BY <4>1, <1>3, <1>7
      <4> QED BY <3>3, <4>2
    <3> QED BY <3>1, <3>2, <3>3, <1>3
  <2>2. (\A q \in ParagraphEnds : SentencesTo(q) \in SentenceEnds)'
    <3> SUFFICES ASSUME NEW q \in 0 .. p PROVE SentencesTo(q)' \in 0 .. n + 1
      BY <1>11
    <3>1. CASE q = p
      BY <3>1, <1>3, <1>8
    <3>2. CASE q # p
      <4>1. q \in 0 .. p - 1
        BY <3>2, <1>4
      <4> QED BY <4>1, <1>3, <1>8, <1>12
    <3> QED BY <3>1, <3>2
  <2>3. (\A q, r \in ParagraphEnds : q < r => SentencesTo(q) < SentencesTo(r))'
    <3> SUFFICES ASSUME NEW q \in 0 .. p, NEW r \in 0 .. p, q < r
                 PROVE  SentencesTo(q)' < SentencesTo(r)'
      BY <1>11
    <3>1. q \in 0 .. p - 1
      BY <1>4
    <3>2. CASE r = p
      BY <3>1, <3>2, <1>3, <1>8, <1>12
    <3>3. CASE r # p
      <4>1. r \in 0 .. p - 1
        BY <3>3, <1>4
      <4> QED BY <3>1, <4>1, <1>8, <1>12
    <3> QED BY <3>2, <3>3
  <2>4. (SentencesTo(Len(section.ends)) = Len(section.words))'
    <3>1. Len(section'.ends) = p /\ Len(section'.words) = n + 1
      BY <1>10, <1>6, <1>9
    <3>2. section'.ends[p] = n + 1 /\ p # 0
      BY <1>10, <1>4
    <3> QED BY <3>1, <3>2 DEF SentencesTo
  <2> QED BY <2>1, <2>2, <2>3, <2>4 DEF TextInv
<1>14. ChunkerTypeOK'
  <2>1. section' \in [words : Seq(Nat), ends : Seq(Nat)]
    BY <1>1, <1>6, <1>9
  <2> QED BY <2>1, <1>1 DEF ChunkerInv, ChunkerTypeOK
<1>15. ChildrenCover'
  BY <1>1, <1>2 DEF ChildrenCover, ParentsPartition
<1>16. BeforeInv' /\ PackInv' /\ SplitInv' /\ TakeInv' /\ OverlapInv'
  BY <1>1, <1>2 DEF ChunkerAtRest, BeforeInv, PackInv, SplitInv, TakeInv, OverlapInv
<1> QED BY <1>13, <1>14, <1>15, <1>16 DEF ChunkerInv

LEMMA SameSection == section' = section /\ TextInv => TextInv'
BY DEF TextInv, SentenceEnds, ParagraphEnds, WordsTo, SentencesTo

\* What is said of a parent or a child stays so while the text does.
LEMMA SameChunks ==
    ASSUME section' = section, parents' = parents, children' = children, ChunkerInv,
           (chunker.pc = "done" <=> chunker'.pc = "done")
    PROVE  ChildrenCover' /\ ParentsPartition'
<1>1. ParentsPartition'
  BY DEF ChunkerInv, ChildrenCover, ParentsPartition, Within, TokensIn, WordsTo, FirstOf, LastOf,
         SentencesTo
<1>2. ChildrenCover
  BY DEF ChunkerInv
<1> QED
  BY <1>1, <1>2 DEF ChildrenCover, Within, TokensIn, WordsTo, FirstOf, LastOf,
         SentencesTo, Continues, OpensParent

LEMMA StartChunkingKeeps ==
    ASSUME ChunkerInv, StartChunking
    PROVE  ChunkerInv'
<1>1. /\ chunker.pc = "write" /\ section.ends # <<>>
      /\ chunker' = [ChunkerAtRest EXCEPT !.pc = "pack"]
      /\ section' = section /\ parents' = parents /\ children' = children
      /\ parents = <<>> /\ children = <<>>
  BY DEF StartChunking, ChunkerInv, BeforeInv
<1>2. ChunkerTypeOK' /\ TextInv'
  BY <1>1, SameSection DEF ChunkerInv, ChunkerTypeOK, ChunkerAtRest, ChunkerPC
<1>3. ChildrenCover'
  BY <1>1 DEF ChildrenCover, ParentsPartition, ChunkerAtRest
<1>4. BeforeInv' /\ SplitInv' /\ TakeInv' /\ OverlapInv'
  BY <1>1 DEF ChunkerAtRest, BeforeInv, SplitInv, TakeInv, OverlapInv
<1>5. PackInv'
  BY <1>1 DEF ChunkerAtRest, PackInv, Summed, ChunkerInv, ChunkerTypeOK
<1> QED BY <1>2, <1>3, <1>4, <1>5 DEF ChunkerInv

\* A flushed parent comes after the last one, and is within its limit.
LEMMA FlushParent ==
    ASSUME ChunkerInv, chunker.pc = "pack", chunker.from < chunker.next, section' = section,
           parents' = Append(parents, Group), children' = children, chunker'.pc # "done"
    PROVE  /\ ParentsPartition' /\ ChildrenCover'
           /\ parents' \in Seq([from : Nat, to : Nat]) /\ parents' # <<>>
           /\ parents'[Len(parents')].to = chunker.next - 1
           /\ parents'[1].from = 1
<1> PICK n : n = Len(parents)
  OBVIOUS
<1>1. /\ parents \in Seq([from : Nat, to : Nat]) /\ n \in Nat
      /\ DOMAIN parents = 1 .. n
      /\ chunker.from \in Nat /\ chunker.next \in Nat /\ chunker.tokens \in Nat
      /\ Len(section.ends) \in Nat /\ ParentMax \in Nat
  BY ChunkerAssumption DEF ChunkerInv, ChunkerTypeOK
<1>2. /\ chunker.from >= 1 /\ chunker.next <= Len(section.ends) + 1
      /\ chunker.from = (IF parents = <<>> THEN 1 ELSE parents[n].to + 1)
      /\ Summed(SentencesTo(chunker.from - 1) + 1, SentencesTo(chunker.next - 1),
                chunker.next - chunker.from, ParentMax)
  BY <1>1 DEF ChunkerInv, PackInv
<1>3. Group \in [from : Nat, to : Nat] /\ Group.from = chunker.from /\ Group.to = chunker.next - 1
  BY <1>1 DEF Group
<1>4. /\ parents' \in Seq([from : Nat, to : Nat]) /\ Len(parents') = n + 1
      /\ \A i \in 1 .. n : parents'[i] = parents[i]
      /\ parents'[n + 1] = Group
      /\ DOMAIN parents' = 1 .. n + 1
  BY <1>1, <1>3
<1>5. Within(FirstOf(Group), LastOf(Group), Group.to - Group.from + 1, ParentMax)
  <2>1. Group.to - Group.from + 1 = chunker.next - chunker.from
    BY <1>1, <1>3
  <2>2. /\ FirstOf(Group) = SentencesTo(chunker.from - 1) + 1
        /\ LastOf(Group) = SentencesTo(chunker.next - 1)
    BY <1>3 DEF FirstOf, LastOf
  <2> SUFFICES ASSUME chunker.next - chunker.from # 1
               PROVE  TokensIn(FirstOf(Group), LastOf(Group))
                         < ParentMax + (chunker.next - chunker.from)
    BY <2>1 DEF Within
  <2>3. chunker.tokens <= ParentMax
    BY <1>1, <1>2 DEF Summed
  <2>4. TokensIn(FirstOf(Group), LastOf(Group)) < chunker.tokens + (chunker.next - chunker.from)
    BY <1>1, <1>2, <2>2 DEF Summed
  <2>5. TokensIn(FirstOf(Group), LastOf(Group)) \in Int
    <3>1. chunker.from - 1 \in ParagraphEnds /\ chunker.next - 1 \in ParagraphEnds
          /\ chunker.from - 1 < chunker.next - 1
      <4>1. chunker.from >= 1 /\ chunker.next <= Len(section.ends) + 1
        BY <1>2
      <4> QED BY <1>1, <4>1 DEF ParagraphEnds
    <3>2. SentencesTo(chunker.from - 1) \in SentenceEnds /\ SentencesTo(chunker.next - 1) \in SentenceEnds
          /\ SentencesTo(chunker.from - 1) < SentencesTo(chunker.next - 1)
      BY <3>1 DEF ChunkerInv, TextInv
    <3>3. Len(section.words) \in Nat
      BY DEF ChunkerInv, ChunkerTypeOK
    <3>4. SentencesTo(chunker.next - 1) \in Nat /\ SentencesTo(chunker.next - 1) <= Len(section.words)
          /\ SentencesTo(chunker.from - 1) + 1 \in Nat \ {0}
          /\ SentencesTo(chunker.from - 1) + 1 <= SentencesTo(chunker.next - 1) + 1
      BY <3>2, <3>3 DEF SentenceEnds
    <3>5. ChunkerTypeOK /\ TextInv
      BY DEF ChunkerInv
    <3>6. TokensIn(SentencesTo(chunker.from - 1) + 1, SentencesTo(chunker.next - 1)) \in Nat
      <4>1. ASSUME NEW a \in Nat \ {0}, NEW b \in Nat, a <= b + 1, b <= Len(section.words)
            PROVE  TokensIn(a, b) \in Nat
        <5>1. b <= b
          OBVIOUS
        <5> QED BY <3>5, <4>1, <5>1, TokensSplit
      <4> QED BY <3>4, <4>1
    <3> QED BY <2>2, <3>6
  <2> QED BY <1>1, <2>3, <2>4, <2>5
<1>6. ParentsPartition
  BY DEF ChunkerInv, ChildrenCover
<1>7. ParentsPartition'
  <2> SUFFICES ASSUME NEW i \in 1 .. n + 1
               PROVE  /\ parents'[i].from = IF i = 1 THEN 1 ELSE parents'[i-1].to + 1
                      /\ parents'[i].to \in parents'[i].from .. Len(section.ends)
                      /\ Within(FirstOf(parents'[i]), LastOf(parents'[i]),
                                parents'[i].to - parents'[i].from + 1, ParentMax)
    BY <1>4 DEF ParentsPartition, Within, TokensIn, WordsTo, FirstOf, LastOf, SentencesTo
  <2>1. CASE i \in 1 .. n
    <3>1. i # 1 => i - 1 \in 1 .. n
      BY <1>1, <2>1
    <3> QED BY <3>1, <2>1, <1>1, <1>4, <1>6 DEF ParentsPartition
  <2>2. CASE i = n + 1
    <3>1. parents'[i] = Group
      BY <1>4, <2>2
    <3>2. Group.to \in Group.from .. Len(section.ends)
      <4>1. \A a, b, k \in Nat : a < b /\ b <= k + 1 => b - 1 \in a .. k
        BY ONLY TRUE
      <4>2. chunker.next - 1 \in chunker.from .. Len(section.ends)
        BY <4>1, <1>1, <1>2
      <4> QED BY <4>2, <1>3
    <3>3. Group.from = IF i = 1 THEN 1 ELSE parents'[i-1].to + 1
      <4>1. CASE i = 1
        <5>1. parents = <<>>
          BY <4>1, <2>2, <1>1
        <5> QED BY <5>1, <4>1, <1>2, <1>3
      <4>2. CASE i # 1
        <5>1. parents # <<>> /\ i - 1 = n /\ n \in 1 .. n
          BY <4>2, <2>2, <1>1
        <5>2. parents'[i - 1] = parents[n]
          BY <5>1, <1>4
        <5> QED BY <5>1, <5>2, <4>2, <1>2, <1>3
      <4> QED BY <4>1, <4>2
    <3>4. parents'[i].from = IF i = 1 THEN 1 ELSE parents'[i-1].to + 1
      BY ONLY <3>1, <3>3
    <3>6. parents'[i].to \in parents'[i].from .. Len(section.ends)
      BY ONLY <3>1, <3>2
    <3>5. Within(FirstOf(parents'[i]), LastOf(parents'[i]),
                 parents'[i].to - parents'[i].from + 1, ParentMax)
      BY <3>1, <1>5
    <3> QED BY ONLY <3>4, <3>5, <3>6
  <2>3. i \in 1 .. n \/ i = n + 1
    BY <1>1
  <2> QED BY <2>1, <2>2, <2>3, Zenon
<1>8. ChildrenCover'
  <2>1. children = <<>>
    BY DEF ChunkerInv, BeforeInv
  <2> QED BY <2>1, <1>7 DEF ChildrenCover
<1>9. parents'[1].from = 1
  <2>1. 1 \in DOMAIN parents'
    BY <1>1, <1>4
  <2> QED BY <2>1, <1>7 DEF ParentsPartition
<1> QED BY <1>1, <1>3, <1>4, <1>7, <1>8, <1>9

\* A paragraph ends after the one before it.
LEMMA ParagraphTokens ==
    ASSUME ChunkerInv, NEW f \in Nat \ {0}, NEW t \in Nat, f <= t, t <= Len(section.ends)
    PROVE  LET first == SentencesTo(f - 1) + 1
               last == SentencesTo(t)
               before == SentencesTo(t - 1)
           IN /\ TokensIn(first, last) \in Nat /\ TokensIn(before + 1, last) \in Nat
              /\ f < t => /\ TokensIn(first, before) \in Nat
                          /\ TokensIn(first, last) <= TokensIn(first, before) + TokensIn(before + 1, last) + 1
<1> PICK x : x = SentencesTo(f - 1)
  OBVIOUS
<1> PICK y : y = SentencesTo(t)
  OBVIOUS
<1> PICK z : z = SentencesTo(t - 1)
  OBVIOUS
<1>1. ChunkerTypeOK /\ TextInv
  BY DEF ChunkerInv
<1>2. Len(section.words) \in Nat /\ Len(section.ends) \in Nat
  BY <1>1 DEF ChunkerTypeOK
<1>3. /\ f - 1 \in ParagraphEnds /\ t \in ParagraphEnds /\ t - 1 \in ParagraphEnds
      /\ f - 1 < t /\ t - 1 < t
      /\ f < t => f - 1 < t - 1
  BY <1>2 DEF ParagraphEnds
<1>4. /\ x \in SentenceEnds /\ y \in SentenceEnds /\ z \in SentenceEnds
      /\ x < y /\ z < y
      /\ f < t => x < z
  BY <1>1, <1>3 DEF TextInv
<1>5. /\ x \in Nat /\ y \in Nat /\ z \in Nat /\ x < y /\ z < y
      /\ x + 1 \in Nat \ {0} /\ z + 1 \in Nat \ {0}
      /\ x + 1 <= y + 1 /\ z + 1 <= y + 1 /\ y <= y /\ z <= y
      /\ y <= Len(section.words)
      /\ f < t => x + 1 <= z + 1
  BY <1>2, <1>4 DEF SentenceEnds
<1>6. TokensIn(x + 1, y) \in Nat /\ TokensIn(z + 1, y) \in Nat
  BY <1>1, <1>5, TokensSplit
<1>7. ASSUME f < t
      PROVE  /\ TokensIn(x + 1, z) \in Nat
             /\ TokensIn(x + 1, y) <= TokensIn(x + 1, z) + TokensIn(z + 1, y) + 1
  BY <1>1, <1>5, <1>7, TokensSplit
<1> QED BY <1>6, <1>7, Zenon

LEMMA PackParagraphKeeps ==
    ASSUME ChunkerInv, PackParagraph
    PROVE  ChunkerInv'
<1> PICK f : f = chunker.from
  OBVIOUS
<1> PICK t : t = chunker.next
  OBVIOUS
<1> DEFINE before == SentencesTo(t - 1)
           last == SentencesTo(t)
           first == SentencesTo(f - 1) + 1
           tokens == TokensIn(before + 1, last)
<1>1. /\ chunker.pc = "pack" /\ t <= Len(section.ends)
      /\ section' = section /\ children' = children
  BY DEF PackParagraph
<1>2. \/ /\ TooLong(tokens) /\ parents' = Append(parents, Group)
         /\ chunker' = [chunker EXCEPT !.from = chunker.next, !.next = @ + 1, !.tokens = tokens]
      \/ /\ ~TooLong(tokens) /\ parents' = parents
         /\ chunker' = [chunker EXCEPT !.next = @ + 1, !.tokens = @ + tokens]
  BY DEF PackParagraph
<1>3. /\ section.ends # <<>> /\ f \in Nat \ {0} /\ t \in Nat \ {0} /\ f <= t
      /\ f = t => t = 1
      /\ f = (IF parents = <<>> THEN 1 ELSE parents[Len(parents)].to + 1)
      /\ Summed(first, before, t - f, ParentMax)
  <2>1. PackInv /\ chunker.from \in Nat /\ chunker.next \in Nat /\ Len(section.ends) \in Nat
    BY DEF ChunkerInv, ChunkerTypeOK
  <2> QED BY <1>1, <2>1 DEF PackInv
<1>4. /\ TokensIn(first, last) \in Nat /\ tokens \in Nat
      /\ f < t => /\ TokensIn(first, before) \in Nat
                  /\ TokensIn(first, last) <= TokensIn(first, before) + tokens + 1
  BY <1>1, <1>3, ParagraphTokens
<1>5. /\ chunker.tokens \in Nat /\ ParentMax \in Nat /\ Len(section.ends) \in Nat
      /\ children = <<>> /\ chunker.parent = 1 /\ chunker.start = 1 /\ chunker.idx = 1
      /\ chunker \in [pc : ChunkerPC, from : Nat, next : Nat, tokens : Nat, parent : Nat,
                      start : Nat, idx : Nat, back : Nat]
  BY <1>1, ChunkerAssumption DEF ChunkerInv, ChunkerTypeOK, BeforeInv
<1> HIDE DEF tokens
<1> DEFINE Place == [pc : ChunkerPC, from : Nat, next : Nat, tokens : Nat, parent : Nat,
                     start : Nat, idx : Nat, back : Nat]
<1>6. /\ chunker'.pc = "pack" /\ chunker'.next = t + 1
      /\ chunker'.parent = 1 /\ chunker'.start = 1 /\ chunker'.idx = 1
      /\ chunker' \in [pc : ChunkerPC, from : Nat, next : Nat, tokens : Nat, parent : Nat,
                       start : Nat, idx : Nat, back : Nat]
  <2>1. CASE chunker' = [chunker EXCEPT !.from = chunker.next, !.next = @ + 1, !.tokens = tokens]
    <3>1. chunker.next + 1 = t + 1 /\ t + 1 \in Nat
      BY <1>3
    <3>2. chunker' \in Place
      BY <2>1, <1>3, <1>4, <1>5, <3>1
    <3>3. /\ chunker'.pc = chunker.pc /\ chunker'.next = t + 1 /\ chunker'.parent = chunker.parent
          /\ chunker'.start = chunker.start /\ chunker'.idx = chunker.idx
      BY <2>1, <1>5, <3>1
    <3> QED BY <3>2, <3>3, <1>1, <1>5
  <2>2. CASE chunker' = [chunker EXCEPT !.next = @ + 1, !.tokens = @ + tokens]
    <3>1. chunker.tokens + tokens \in Nat
      BY <1>4, <1>5
    <3>2. chunker.next + 1 = t + 1 /\ t + 1 \in Nat
      BY <1>3
    <3>3. chunker' \in Place
      BY <2>2, <1>3, <1>4, <1>5, <3>1, <3>2
    <3>4. /\ chunker'.pc = chunker.pc /\ chunker'.next = t + 1 /\ chunker'.parent = chunker.parent
          /\ chunker'.start = chunker.start /\ chunker'.idx = chunker.idx
      BY <2>2, <1>5, <3>2
    <3> QED BY <3>3, <3>4, <1>1, <1>5
  <2> QED BY <1>2, <2>1, <2>2
<1>7. TextInv' /\ BeforeInv' /\ SplitInv' /\ TakeInv' /\ OverlapInv'
  BY <1>1, <1>5, <1>6, SameSection DEF ChunkerInv, BeforeInv, SplitInv, TakeInv, OverlapInv
<1>8. CASE /\ TooLong(tokens) /\ parents' = Append(parents, Group)
           /\ chunker' = [chunker EXCEPT !.from = chunker.next, !.next = @ + 1, !.tokens = tokens]
  <2>1. /\ ParentsPartition' /\ ChildrenCover'
        /\ parents' \in Seq([from : Nat, to : Nat]) /\ parents' # <<>>
        /\ parents'[Len(parents')].to = chunker.next - 1
    <3>1. chunker.from < chunker.next
      BY <1>8 DEF TooLong
    <3> QED BY <1>1, <1>6, <1>8, <3>1, FlushParent
  <2>2. chunker'.from = t /\ chunker'.tokens = tokens
    BY <1>5, <1>8
  <2>3. /\ chunker'.from - 1 = t - 1 /\ chunker'.next - 1 = t
        /\ chunker'.next - chunker'.from = 1
        /\ chunker'.from \in 1 .. chunker'.next /\ chunker'.next \in 1 .. Len(section.ends) + 1
        /\ chunker'.from = chunker'.next => chunker'.next = 1
    BY <1>1, <1>3, <1>5, <1>6, <2>2
  <2>4. TokensIn(SentencesTo(chunker.from - 1) + 1, SentencesTo(chunker.next - 1))' = tokens
    BY <1>1, <2>3 DEF tokens, TokensIn, WordsTo, SentencesTo
  <2>5. Summed(SentencesTo(chunker.from - 1) + 1, SentencesTo(chunker.next - 1),
               chunker.next - chunker.from, ParentMax)'
    BY <2>2, <2>3, <2>4, <1>4 DEF Summed
  <2>6. PackInv'
    <3>1. t - 1 + 1 = t
      BY <1>3
    <3> QED BY <1>1, <1>3, <2>1, <2>2, <2>3, <2>5, <3>1 DEF PackInv
  <2> QED BY <1>1, <1>5, <1>6, <1>7, <2>1, <2>6 DEF ChunkerInv, ChunkerTypeOK
<1>10. f \in Nat \ {0} /\ t \in Nat \ {0} /\ (f = t \/ f < t) /\ f <= t
  BY <1>3
<1>9. CASE /\ ~TooLong(tokens) /\ parents' = parents
           /\ chunker' = [chunker EXCEPT !.next = @ + 1, !.tokens = @ + tokens]
  <2>1. ChildrenCover'
    BY <1>1, <1>6, <1>9, SameChunks
  <2>2. chunker'.from = f /\ chunker'.tokens = chunker.tokens + tokens
    BY <1>5, <1>9
  <2>3. /\ chunker'.from - 1 = f - 1 /\ chunker'.next - 1 = t
        /\ chunker'.next - chunker'.from = t - f + 1
        /\ chunker'.from \in 1 .. chunker'.next /\ chunker'.next \in 1 .. Len(section.ends) + 1
        /\ chunker'.from = chunker'.next => chunker'.next = 1
    BY <1>1, <1>10, <1>5, <1>6, <2>2
  <2>4. TokensIn(SentencesTo(chunker.from - 1) + 1, SentencesTo(chunker.next - 1))'
          = TokensIn(first, last)
    BY <1>1, <2>3 DEF TokensIn, WordsTo, SentencesTo
  <2>5. /\ TokensIn(first, last) < chunker.tokens + tokens + (t - f + 1)
        /\ t - f + 1 > 1 => chunker.tokens + tokens <= ParentMax
    <3>1. CASE f = t
      <4>1. first = before + 1
        BY <3>1
      <4> QED BY <4>1, <3>1, <1>3, <1>4, <1>5 DEF tokens
    <3>2. CASE f < t
      <4>1. TokensIn(first, before) < chunker.tokens + (t - f)
        BY <3>2, <1>3 DEF Summed
      <4>2. chunker.tokens + tokens <= ParentMax
        BY <3>2, <1>4, <1>5, <1>9 DEF TooLong
      <4>3. /\ TokensIn(first, before) \in Nat /\ TokensIn(first, last) \in Nat /\ tokens \in Nat
            /\ TokensIn(first, last) <= TokensIn(first, before) + tokens + 1
        BY <3>2, <1>4
      <4>4. TokensIn(first, last) < chunker.tokens + tokens + (t - f + 1)
        <5>1. \A a, b, k, c \in Nat :
                 a < c + (t - f) /\ b <= a + k + 1 => b < c + k + (t - f + 1)
          BY <1>10
        <5> HIDE DEF first, before, last
        <5> QED BY <4>1, <4>3, <5>1, <1>5
      <4> QED BY <4>2, <4>4
    <3> QED BY <3>1, <3>2, <1>10, Zenon
  <2>6. Summed(SentencesTo(chunker.from - 1) + 1, SentencesTo(chunker.next - 1),
               chunker.next - chunker.from, ParentMax)'
    <3>1. t - f + 1 # 0
      BY <1>3
    <3> QED BY <2>2, <2>3, <2>4, <2>5, <3>1 DEF Summed
  <2>7. PackInv'
    BY <1>1, <1>3, <1>9, <2>2, <2>3, <2>6 DEF PackInv
  <2> QED BY <1>1, <1>5, <1>6, <1>7, <1>9, <2>1, <2>7 DEF ChunkerInv, ChunkerTypeOK
<1> QED BY <1>2, <1>8, <1>9

LEMMA FirstParent ==
    ChunkerTypeOK /\ TextInv /\ ParentsPartition /\ 1 \in DOMAIN parents
    => LastOf(parents[1]) \in Nat /\ FirstOf(parents[1]) <= LastOf(parents[1])
BY ParentSpan

LEMMA FirstParentSpan ==
    (ChunkerTypeOK /\ TextInv /\ ParentsPartition /\ 1 \in DOMAIN parents
     => LastOf(parents[1]) \in Nat /\ FirstOf(parents[1]) <= LastOf(parents[1]))'
BY FirstParent, PTL

LEMMA PackLastKeeps ==
    ASSUME ChunkerInv, PackLast
    PROVE  ChunkerInv'
<1>1. /\ chunker.pc = "pack" /\ chunker.next > Len(section.ends)
      /\ section' = section /\ children' = children /\ parents' = Append(parents, Group)
      /\ chunker' = [chunker EXCEPT !.pc = "take", !.tokens = 0]
  BY DEF PackLast
<1>2. /\ section.ends # <<>> /\ section.ends \in Seq(Nat)
      /\ chunker.from \in Nat /\ chunker.next \in Nat /\ Len(section.ends) \in Nat
      /\ chunker.from <= chunker.next /\ chunker.from >= 1
      /\ chunker.next <= Len(section.ends) + 1
      /\ chunker.from = chunker.next => chunker.next = 1
      /\ children = <<>> /\ chunker.parent = 1 /\ chunker.start = 1 /\ chunker.idx = 1
      /\ chunker \in [pc : ChunkerPC, from : Nat, next : Nat, tokens : Nat, parent : Nat,
                      start : Nat, idx : Nat, back : Nat]
  BY <1>1 DEF ChunkerInv, ChunkerTypeOK, PackInv, BeforeInv
<1>3. Len(section.ends) > 0
  BY <1>2
<1>4. chunker.from < chunker.next /\ chunker.next - 1 = Len(section.ends)
  <2>1. chunker.next = Len(section.ends) + 1
    BY <1>1, <1>2
  <2>2. chunker.next # 1
    BY <2>1, <1>2, <1>3
  <2>3. chunker.from # chunker.next
    BY <2>2, <1>2
  <2> QED BY <2>1, <2>3, <1>2
<1>5. /\ chunker'.pc = "take" /\ chunker'.tokens = 0 /\ chunker'.parent = 1
      /\ chunker'.start = 1 /\ chunker'.idx = 1
      /\ chunker' \in [pc : ChunkerPC, from : Nat, next : Nat, tokens : Nat, parent : Nat,
                       start : Nat, idx : Nat, back : Nat]
  BY <1>1, <1>2 DEF ChunkerPC
<1>6. /\ ParentsPartition' /\ ChildrenCover'
      /\ parents' \in Seq([from : Nat, to : Nat]) /\ parents' # <<>>
      /\ parents'[Len(parents')].to = Len(section.ends)
      /\ parents'[1].from = 1
  BY <1>1, <1>4, <1>5, FlushParent
<1>7. ChunkerTypeOK' /\ TextInv'
  <2>1. children' \in Seq([parent : Nat, first : Nat, last : Nat])
    BY <1>1, <1>2
  <2> QED BY <1>1, <1>5, <1>6, <2>1, SameSection DEF ChunkerInv, ChunkerTypeOK
<1>8. BeforeInv' /\ PackInv' /\ OverlapInv'
  BY <1>5 DEF BeforeInv, PackInv, OverlapInv
<1>9. 1 \in DOMAIN parents'
  BY <1>6
<1>10. FirstOf(parents[1])' = 1
  BY <1>6 DEF FirstOf, SentencesTo
<1>11. (LastOf(parents[1]) \in Nat /\ FirstOf(parents[1]) <= LastOf(parents[1]))'
  BY <1>6, <1>7, <1>9, FirstParentSpan
<1>12. SplitInv'
  <2>1. /\ 1 \in (FirstOf(parents[1]) .. LastOf(parents[1]))'
        /\ 1 \in (1 .. LastOf(parents[1]) + 1)'
    BY <1>10, <1>11
  <2>2. section'.ends = section.ends
    BY <1>1
  <2> QED BY <1>5, <1>6, <1>9, <2>1, <2>2 DEF SplitInv
<1>13. TakeInv'
  <2>1. children' = <<>>
    BY <1>1, <1>2
  <2>2. Follows(children, [parent |-> chunker.parent, first |-> chunker.start])'
    BY <1>5, <1>10, <2>1 DEF Follows, OpensParent
  <2>3. (chunker.idx - chunker.start)' = 0 /\ chunker'.tokens = 0
    BY <1>5
  <2>4. Summed(chunker.start, chunker.idx - 1, chunker.idx - chunker.start, ChildMax)'
    BY <2>3 DEF Summed
  <2> QED BY <2>2, <2>4 DEF TakeInv
<1> QED BY <1>6, <1>7, <1>8, <1>12, <1>13 DEF ChunkerInv

\* Where a parent is split.
LEMMA SplitBounds ==
    ASSUME ChunkerInv, chunker.pc \in {"take", "overlap"}
    PROVE  /\ chunker.parent \in DOMAIN parents
           /\ parents[Len(parents)].to = Len(section.ends)
           /\ chunker.start \in Nat \ {0} /\ chunker.idx \in Nat \ {0}
           /\ chunker.tokens \in Nat /\ chunker.back \in Nat
           /\ FirstOf(parents[chunker.parent]) \in Nat \ {0}
           /\ LastOf(parents[chunker.parent]) \in Nat
           /\ Len(section.words) \in Nat
           /\ FirstOf(parents[chunker.parent]) <= chunker.start
           /\ chunker.start <= LastOf(parents[chunker.parent])
           /\ chunker.start <= chunker.idx /\ chunker.idx <= LastOf(parents[chunker.parent]) + 1
           /\ LastOf(parents[chunker.parent]) <= Len(section.words)
<1>1. ChunkerTypeOK /\ TextInv /\ ParentsPartition
  BY DEF ChunkerInv, ChildrenCover
<1>2. /\ chunker.parent \in DOMAIN parents
      /\ parents[Len(parents)].to = Len(section.ends)
      /\ chunker.start \in FirstOf(parents[chunker.parent]) .. LastOf(parents[chunker.parent])
      /\ chunker.idx \in chunker.start .. LastOf(parents[chunker.parent]) + 1
  BY DEF ChunkerInv, SplitInv
<1>3. /\ FirstOf(parents[chunker.parent]) \in Nat \ {0} /\ LastOf(parents[chunker.parent]) \in Nat
      /\ LastOf(parents[chunker.parent]) <= Len(section.words)
  BY <1>1, <1>2, ParentSpan
<1>4. chunker.tokens \in Nat /\ chunker.back \in Nat /\ Len(section.words) \in Nat
  BY <1>1 DEF ChunkerTypeOK
<1> QED BY <1>2, <1>3, <1>4

LEMMA TakeSentenceKeeps ==
    ASSUME ChunkerInv, TakeSentence
    PROVE  ChunkerInv'
<1> PICK i : i = chunker.idx
  OBVIOUS
<1> PICK s : s = chunker.start
  OBVIOUS
<1> PICK c : c = chunker.tokens
  OBVIOUS
<1>1. /\ chunker.pc = "take" /\ Fits
      /\ section' = section /\ parents' = parents /\ children' = children
      /\ chunker' = [chunker EXCEPT !.idx = i + 1, !.tokens = c + TokensIn(i, i)]
  BY DEF TakeSentence
<1>2. /\ chunker.parent \in DOMAIN parents
      /\ parents[Len(parents)].to = Len(section.ends)
      /\ i \in Nat \ {0} /\ s \in Nat \ {0} /\ c \in Nat /\ s <= i
      /\ LastOf(parents[chunker.parent]) \in Nat
      /\ i <= LastOf(parents[chunker.parent])
      /\ i <= Len(section.words)
  BY <1>1, SplitBounds DEF Fits
<1>3. /\ TokensIn(i, i) \in Nat /\ TokensIn(s, i) \in Nat
      /\ i > s => /\ TokensIn(s, i - 1) \in Nat
                  /\ TokensIn(s, i) <= TokensIn(s, i - 1) + TokensIn(i, i) + 1
  <2>1. /\ i - 1 \in Nat /\ s <= i - 1 + 1 /\ i - 1 <= i /\ i - 1 + 1 = i
        /\ ChunkerTypeOK /\ TextInv /\ i \in Nat
    BY <1>2 DEF ChunkerInv
  <2>2. TokensIn(s, i - 1) \in Nat /\ TokensIn(i - 1 + 1, i) \in Nat /\ TokensIn(s, i) \in Nat
        /\ TokensIn(s, i) <= TokensIn(s, i - 1) + TokensIn(i - 1 + 1, i) + 1
    BY <1>2, <2>1, TokensSplit
  <2> QED BY <2>1, <2>2
<1>4. /\ chunker'.pc = "take" /\ chunker'.parent = chunker.parent /\ chunker'.start = s
      /\ chunker'.idx = i + 1 /\ chunker'.tokens = c + TokensIn(i, i)
      /\ chunker' \in [pc : ChunkerPC, from : Nat, next : Nat, tokens : Nat, parent : Nat,
                       start : Nat, idx : Nat, back : Nat]
  <2>1. c + TokensIn(i, i) \in Nat /\ i + 1 \in Nat
    BY <1>2, <1>3
  <2>2. chunker \in [pc : ChunkerPC, from : Nat, next : Nat, tokens : Nat, parent : Nat,
                     start : Nat, idx : Nat, back : Nat]
    BY DEF ChunkerInv, ChunkerTypeOK
  <2> QED BY <1>1, <2>1, <2>2
<1>5. ChunkerTypeOK' /\ TextInv'
  BY <1>1, <1>4, SameSection DEF ChunkerInv, ChunkerTypeOK
<1>6. ChildrenCover'
  BY <1>1, <1>4, SameChunks
<1>7. BeforeInv' /\ PackInv' /\ OverlapInv'
  BY <1>4 DEF BeforeInv, PackInv, OverlapInv
<1>8. SplitInv'
  <2>1. chunker.start \in FirstOf(parents[chunker.parent]) .. LastOf(parents[chunker.parent])
    BY <1>1 DEF ChunkerInv, SplitInv
  <2>2. i + 1 \in s .. LastOf(parents[chunker.parent]) + 1
    BY <1>2
  <2> QED BY <1>1, <1>2, <1>4, <2>1, <2>2 DEF SplitInv, FirstOf, LastOf, SentencesTo
<1>9. /\ TokensIn(s, i) < c + TokensIn(i, i) + (i + 1 - s)
      /\ i + 1 - s > 1 => c + TokensIn(i, i) <= ChildMax
  <2>1. Summed(s, i - 1, i - s, ChildMax)
    BY <1>1 DEF ChunkerInv, TakeInv
  <2>2. CASE i = s
    BY <2>2, <1>2, <1>3
  <2>3. CASE i > s
    <3>1. TokensIn(s, i - 1) < c + (i - s)
      BY <2>1, <2>3, <1>2 DEF Summed
    <3>2. \A x, y, z, t, j, k \in Nat :
             x < t + (j - k) /\ y <= x + z + 1 => y < t + z + (j + 1 - k)
      BY ONLY TRUE
    <3>3. TokensIn(s, i) < c + TokensIn(i, i) + (i + 1 - s)
      <4>1. /\ TokensIn(s, i - 1) \in Nat /\ TokensIn(s, i) \in Nat /\ TokensIn(i, i) \in Nat
            /\ TokensIn(s, i) <= TokensIn(s, i - 1) + TokensIn(i, i) + 1
            /\ c \in Nat /\ i \in Nat /\ s \in Nat
        BY <2>3, <1>2, <1>3
      <4> QED BY ONLY <4>1, <3>1, <3>2
    <3>4. c + TokensIn(i, i) <= ChildMax
      BY <2>3, <1>1, <1>2 DEF Fits
    <3> QED BY <3>3, <3>4
  <2>4. i = s \/ i > s
    BY <1>2
  <2> QED BY <2>2, <2>3, <2>4, Zenon
<1>10. Summed(chunker.start, chunker.idx - 1, chunker.idx - chunker.start, ChildMax)'
  <2>1. /\ chunker'.idx - 1 = i /\ chunker'.idx - chunker'.start = i + 1 - s
        /\ chunker'.start = s /\ i + 1 - s # 0
    <3>1. chunker'.idx = i + 1 /\ chunker'.start = s
      BY <1>4
    <3>2. i \in Nat /\ s \in Nat /\ s <= i
      BY <1>2
    <3> QED BY ONLY <3>1, <3>2
  <2>2. TokensIn(chunker.start, chunker.idx - 1)' = TokensIn(s, i)
    BY <1>1, <2>1 DEF TokensIn, WordsTo
  <2> QED BY <1>4, <1>9, <2>1, <2>2 DEF Summed
<1>11. TakeInv'
  <2>1. Follows(children, [parent |-> chunker.parent, first |-> chunker.start])
    BY <1>1 DEF ChunkerInv, TakeInv
  <2>2. Follows(children, [parent |-> chunker.parent, first |-> chunker.start])'
    BY <1>1, <1>4, <2>1 DEF Follows, OpensParent, Continues, FirstOf, LastOf, SentencesTo,
                            TokensIn, WordsTo
  <2> QED BY <2>2, <1>10 DEF TakeInv
<1> QED BY <1>5, <1>6, <1>7, <1>8, <1>11 DEF ChunkerInv

LEMMA MakeChildKeeps ==
    ASSUME ChunkerInv, MakeChild
    PROVE  ChunkerInv'
<1> PICK i : i = chunker.idx
  OBVIOUS
<1> PICK s : s = chunker.start
  OBVIOUS
<1> PICK p : p = chunker.parent
  OBVIOUS
<1> PICK n : n = Len(children)
  OBVIOUS
<1> PICK last : last = LastOf(parents[p])
  OBVIOUS
<1> DEFINE child == [parent |-> p, first |-> s, last |-> i - 1]
           Child == [parent : Nat, first : Nat, last : Nat]
           Place == [pc : ChunkerPC, from : Nat, next : Nat, tokens : Nat, parent : Nat,
                     start : Nat, idx : Nat, back : Nat]
<1>1. /\ chunker.pc = "take" /\ ~Fits
      /\ section' = section /\ parents' = parents /\ children' = Append(children, child)
  BY DEF MakeChild
<1>2. \/ /\ i <= last
         /\ chunker' = [chunker EXCEPT !.pc = "overlap", !.tokens = 0, !.back = i - 1]
      \/ /\ i > last /\ p < Len(parents)
         /\ chunker' = [chunker EXCEPT !.parent = p + 1, !.tokens = 0, !.start = i]
      \/ /\ i > last /\ p = Len(parents)
         /\ chunker' = [chunker EXCEPT !.pc = "done"]
  BY DEF MakeChild
<1>3. /\ p \in DOMAIN parents /\ parents[Len(parents)].to = Len(section.ends)
      /\ i \in Nat \ {0} /\ s \in Nat \ {0} /\ last \in Nat
      /\ s <= last /\ s <= i /\ i <= last + 1
      /\ FirstOf(parents[p]) \in Nat /\ FirstOf(parents[p]) <= s
      /\ Len(section.words) \in Nat /\ last <= Len(section.words)
  BY <1>1, SplitBounds
<1>4. s < i
  <2>1. i # s
    BY <1>1, <1>3 DEF Fits
  <2> QED BY <2>1, <1>3
<1>5. /\ ChunkerTypeOK /\ TextInv /\ ParentsPartition /\ ChildrenCover
      /\ parents \in Seq([from : Nat, to : Nat]) /\ Len(parents) \in Nat
      /\ DOMAIN parents = 1 .. Len(parents)
      /\ children \in Seq(Child) /\ n \in Nat /\ DOMAIN children = 1 .. n
      /\ chunker \in Place
  <2>1. ChunkerTypeOK /\ TextInv /\ ParentsPartition /\ ChildrenCover
    BY DEF ChunkerInv, ChildrenCover
  <2>2. /\ parents \in Seq([from : Nat, to : Nat]) /\ children \in Seq(Child)
        /\ chunker \in Place
    BY <2>1 DEF ChunkerTypeOK
  <2> HIDE DEF Child, Place
  <2> QED BY <2>1, <2>2
<1>6. /\ p \in Nat /\ p <= Len(parents) /\ i - 1 \in Nat /\ p + 1 \in Nat
      /\ child \in Child
  <2>1. /\ p \in Nat /\ p <= Len(parents) /\ p + 1 \in Nat
    <3>1. p \in 1 .. Len(parents) /\ Len(parents) \in Nat
      BY <1>3, <1>5
    <3> QED BY ONLY <3>1
  <2>2. i - 1 \in Nat /\ s \in Nat
    BY <1>3
  <2> QED BY <2>1, <2>2
<1>7. /\ children' \in Seq(Child) /\ Len(children') = n + 1 /\ DOMAIN children' = 1 .. n + 1
      /\ \A j \in 1 .. n : children'[j] = children[j]
      /\ children'[n + 1] = child
  <2> HIDE DEF child, Child
  <2> QED BY <1>1, <1>5, <1>6
<1>8. chunker' \in Place
  <2>1. CASE chunker' = [chunker EXCEPT !.pc = "overlap", !.tokens = 0, !.back = i - 1]
    BY <2>1, <1>5, <1>6 DEF ChunkerPC
  <2>2. CASE chunker' = [chunker EXCEPT !.parent = p + 1, !.tokens = 0, !.start = i]
    <3>1. i \in Nat
      BY <1>3
    <3> QED BY <2>2, <3>1, <1>5, <1>6
  <2>3. CASE chunker' = [chunker EXCEPT !.pc = "done"]
    BY <2>3, <1>5 DEF ChunkerPC
  <2> QED BY <1>2, <2>1, <2>2, <2>3
<1>9. ChunkerTypeOK' /\ TextInv' /\ ParentsPartition'
  <2>1. ChunkerTypeOK'
    BY <1>1, <1>5, <1>7, <1>8 DEF ChunkerTypeOK
  <2>2. ParentsPartition'
    BY <1>1, <1>5 DEF ParentsPartition, Within, TokensIn, WordsTo, FirstOf, LastOf, SentencesTo
  <2> QED BY <1>1, <1>5, <2>1, <2>2, SameSection
<1> DEFINE Good(q, before, c) ==
              /\ c.last \in c.first .. LastOf(parents[c.parent])
              /\ Within(c.first, c.last, c.last - c.first + 1, ChildMax)
              /\ \/ q > 1 /\ Continues(before, c)
                 \/ OpensParent(IF q = 1 THEN <<>> ELSE <<before>>, c)
<1>10. Good(n + 1, children[n], child)
  <2>1. child.last \in child.first .. LastOf(parents[child.parent])
    BY <1>3, <1>4, <1>6
  <2>2. Within(child.first, child.last, child.last - child.first + 1, ChildMax)
    <3>1. Summed(s, i - 1, i - s, ChildMax) /\ chunker.tokens \in Nat
      BY <1>1, <1>5 DEF ChunkerInv, TakeInv
    <3>2. i - 1 - s + 1 = i - s /\ i - s > 0 /\ i - s \in Nat
      BY <1>3, <1>4
    <3>3. TokensIn(s, i - 1) \in Nat
      <4>1. s <= i - 1 + 1 /\ i - 1 <= i - 1 /\ i - 1 <= Len(section.words)
        BY <1>3
      <4> QED BY <4>1, <1>3, <1>5, <1>6, TokensSplit
    <3>4. i - s = 1 \/ TokensIn(s, i - 1) < ChildMax + (i - s)
      <4>1. CASE i - s > 1
        <5>1. TokensIn(s, i - 1) < chunker.tokens + (i - s) /\ chunker.tokens <= ChildMax
          BY <3>1, <3>2, <4>1 DEF Summed
        <5>2. ChildMax \in Nat
          BY ChunkerAssumption
        <5>3. \A x, y, z, k \in Nat : x < y + k /\ y <= z => x < z + k
          OBVIOUS
        <5> QED BY <5>1, <5>2, <5>3, <3>1, <3>2, <3>3
      <4>2. CASE ~(i - s > 1)
        BY <4>2, <3>2
      <4> QED BY <4>1, <4>2
    <3> QED BY <3>2, <3>4 DEF Within
  <2>3. \/ n + 1 > 1 /\ Continues(children[n], child)
        \/ OpensParent(IF n + 1 = 1 THEN <<>> ELSE <<children[n]>>, child)
    <3>1. Follows(children, [parent |-> p, first |-> s])
      BY <1>1 DEF ChunkerInv, TakeInv
    <3>2. CASE children = <<>>
      <4>1. n + 1 = 1
        BY <3>2
      <4>2. OpensParent(<<>>, child)
        BY <3>1, <3>2 DEF Follows, OpensParent
      <4> QED BY <4>1, <4>2
    <3>3. CASE children # <<>>
      <4>1. n + 1 > 1 /\ n + 1 # 1
        BY <3>3, <1>5
      <4>2. Continues(children[n], child) \/ OpensParent(<<children[n]>>, child)
        BY <3>1, <3>3 DEF Follows, OpensParent, Continues
      <4> QED BY <4>1, <4>2
    <3> QED BY <3>2, <3>3
  <2> QED BY <2>1, <2>2, <2>3
<1>11. \A j \in DOMAIN children' : Good(j, children'[j - 1], children'[j])
  <2> SUFFICES ASSUME NEW j \in 1 .. n + 1 PROVE Good(j, children'[j - 1], children'[j])
    BY <1>7
  <2>1. CASE j = n + 1
    <3>1. children'[j] = child
      BY <1>7, <2>1
    <3>2. n = 0 \/ children'[n] = children[n]
      <4>1. n = 0 \/ n \in 1 .. n
        BY <1>5
      <4> QED BY <4>1, <1>7
    <3>3. j - 1 = n
      BY <1>5, <2>1
    <3>4. Good(n + 1, children'[n], child)
      <4>1. CASE n = 0
        BY <4>1, <1>10
      <4>2. CASE children'[n] = children[n]
        <5> HIDE DEF Good
        <5> QED BY <4>2, <1>10
      <4> QED BY <3>2, <4>1, <4>2
    <3> HIDE DEF Good
    <3> QED BY <3>1, <3>3, <3>4, <2>1
  <2>2. CASE j \in 1 .. n
    <3>1. Good(j, children[j - 1], children[j])
      BY <1>5, <2>2 DEF ChildrenCover
    <3>2. children'[j] = children[j]
      BY <1>7, <2>2
    <3>3. CASE j = 1
      BY <3>1, <3>2, <3>3
    <3>4. CASE j > 1
      <4>1. children'[j - 1] = children[j - 1]
        <5>1. j - 1 \in 1 .. n
          BY <2>2, <3>4, <1>5
        <5> QED BY <5>1, <1>7
      <4> HIDE DEF Good
      <4> QED BY <3>1, <3>2, <4>1
    <3> QED BY <3>3, <3>4, <2>2
  <2> QED BY <2>1, <2>2, <1>5
<1>12. /\ last + 1 = i \/ i <= last
       /\ i > last => i - 1 = last
  BY <1>3
<1>13. ASSUME chunker'.pc = "done"
       PROVE  /\ parents[Len(parents)].to = Len(section.ends)
              /\ p = Len(parents) /\ i - 1 = Len(section.words)
  <2>1. i > last /\ p = Len(parents)
    BY <1>1, <1>2, <1>5, <1>13
  <2>2. last = SentencesTo(Len(section.ends))
    BY <2>1, <1>3 DEF LastOf
  <2>3. last = Len(section.words)
    BY <2>2, <1>5 DEF TextInv
  <2> QED BY <2>1, <2>3, <1>3, <1>12
<1>14. ChildrenCover'
  <2>1. \A j \in DOMAIN children' :
          (LET c == children[j]
           IN /\ c.last \in c.first .. LastOf(parents[c.parent])
              /\ Within(c.first, c.last, c.last - c.first + 1, ChildMax)
              /\ \/ j > 1 /\ Continues(children[j-1], c)
                 \/ OpensParent(IF j = 1 THEN <<>> ELSE <<children[j-1]>>, c))'
    <3> SUFFICES ASSUME NEW j \in DOMAIN children'
                 PROVE  (LET c == children[j]
                         IN /\ c.last \in c.first .. LastOf(parents[c.parent])
                            /\ Within(c.first, c.last, c.last - c.first + 1, ChildMax)
                            /\ \/ j > 1 /\ Continues(children[j-1], c)
                               \/ OpensParent(IF j = 1 THEN <<>> ELSE <<children[j-1]>>, c))'
      OBVIOUS
    <3> PICK c : c = children'[j]
      OBVIOUS
    <3> PICK b : b = children'[j - 1]
      OBVIOUS
    <3>1. Good(j, b, c)
      BY <1>11
    <3>2. (c.last \in c.first .. LastOf(parents[c.parent]))'
      BY <1>1, <3>1 DEF LastOf, SentencesTo
    <3>3. Within(c.first, c.last, c.last - c.first + 1, ChildMax)'
      BY <1>1, <3>1 DEF Within, TokensIn, WordsTo
    <3>4. CASE j > 1 /\ Continues(b, c)
      <4>1. Continues(b, c)'
        BY <1>1, <3>4 DEF Continues, TokensIn, WordsTo
      <4> QED BY <3>2, <3>3, <3>4, <4>1
    <3>5. CASE OpensParent(IF j = 1 THEN <<>> ELSE <<b>>, c)
      <4>1. OpensParent(IF j = 1 THEN <<>> ELSE <<b>>, c)'
        BY <1>1, <3>5 DEF OpensParent, FirstOf, LastOf, SentencesTo
      <4> QED BY <3>2, <3>3, <4>1
    <3> QED BY <3>1, <3>4, <3>5
  <2>2. chunker'.pc = "done" =>
          /\ parents'[Len(parents')].to = Len(section'.ends)
          /\ children'[Len(children')].parent = Len(parents')
          /\ children'[Len(children')].last = Len(section'.words)
    BY <1>1, <1>7, <1>13
  <2> HIDE DEF Good, child
  <2> QED BY <1>9, <2>1, <2>2 DEF ChildrenCover
<1>15. BeforeInv' /\ PackInv'
  BY <1>1, <1>2, <1>5 DEF BeforeInv, PackInv
<1>16. CASE /\ i <= last
            /\ chunker' = [chunker EXCEPT !.pc = "overlap", !.tokens = 0, !.back = i - 1]
  <2>1. /\ chunker'.pc = "overlap" /\ chunker'.tokens = 0 /\ chunker'.back = i - 1
        /\ chunker'.parent = p /\ chunker'.start = s /\ chunker'.idx = i
    BY <1>5, <1>16
  <2>2. SplitInv'
    <3>1. SplitInv
      BY DEF ChunkerInv
    <3> QED BY <1>1, <2>1, <3>1 DEF SplitInv, FirstOf, LastOf, SentencesTo
  <2>3. /\ i - 1 + 1 = i /\ i - 1 - (i - 1) = 0
        /\ i \in s + 1 .. last /\ i - 1 \in s .. i - 1
    <3>1. i \in Nat /\ s \in Nat /\ last \in Nat /\ s < i /\ i <= last
      BY <1>3, <1>4, <1>16
    <3> QED BY ONLY <3>1
  <2>4. TokensIn(i, i - 1) \in Nat
    <3>1. i <= i - 1 + 1 /\ i - 1 <= i - 1 /\ i - 1 <= Len(section.words)
      BY <1>3
    <3> QED BY <3>1, <1>3, <1>5, <1>6, TokensSplit
  <2>5. /\ TokensIn(chunker.back + 1, chunker.idx - 1)' = TokensIn(i, i - 1)
        /\ LastOf(parents[chunker.parent])' = last
    BY <1>1, <2>1, <2>3 DEF TokensIn, WordsTo, LastOf, SentencesTo
  <2>6. Summed(chunker.back + 1, chunker.idx - 1, chunker.idx - 1 - chunker.back, chunker.tokens)'
    BY <2>1, <2>3 DEF Summed
  <2>7. children' # <<>> /\ children'[Len(children')] = child
    BY <1>5, <1>7
  <2>8. OverlapInv'
    BY <2>1, <2>3, <2>4, <2>5, <2>6, <2>7 DEF OverlapInv
  <2>9. TakeInv'
    BY <2>1 DEF TakeInv
  <2> QED BY <1>9, <1>14, <1>15, <2>2, <2>8, <2>9 DEF ChunkerInv
<1>17. CASE /\ i > last /\ p < Len(parents)
            /\ chunker' = [chunker EXCEPT !.parent = p + 1, !.tokens = 0, !.start = i]
  <2>1. /\ chunker'.pc = "take" /\ chunker'.tokens = 0
        /\ chunker'.parent = p + 1 /\ chunker'.start = i /\ chunker'.idx = i
    BY <1>1, <1>5, <1>17
  <2>2. p + 1 \in DOMAIN parents /\ p + 1 # 1
    <3>1. p \in Nat /\ p < Len(parents) /\ Len(parents) \in Nat /\ p >= 1
      BY <1>3, <1>5, <1>6, <1>17
    <3>2. p + 1 \in 1 .. Len(parents) /\ p + 1 # 1
      BY ONLY <3>1
    <3> QED BY <3>2, <1>5
  <2>3. FirstOf(parents[p + 1]) = i
    <3>1. p + 1 - 1 = p
      BY <1>6
    <3>2. parents[p + 1].from = parents[p].to + 1
      <4>1. ASSUME NEW q \in DOMAIN parents, q # 1
            PROVE  parents[q].from = parents[q - 1].to + 1
        BY <1>5, <4>1 DEF ParentsPartition
      <4> PICK q \in Nat : q = p + 1
        BY <1>6
      <4>2. q \in DOMAIN parents /\ q # 1 /\ q - 1 = p
        BY <2>2, <1>6
      <4>3. parents[q].from = parents[q - 1].to + 1
        BY <4>1, <4>2
      <4> QED BY <4>2, <4>3
    <3>3. parents[p].to \in Nat
      BY <1>3, <1>5, ParentSpan
    <3>4. parents[p + 1].from - 1 = parents[p].to
      BY <3>2, <3>3
    <3> QED BY <3>4, <1>3, <1>12, <1>17 DEF FirstOf, LastOf
  <2>4. i <= LastOf(parents[p + 1]) /\ LastOf(parents[p + 1]) \in Nat
    BY <1>5, <2>2, <2>3, ParentSpan
  <2>5. SplitInv'
    <3>1. /\ i \in FirstOf(parents[p + 1]) .. LastOf(parents[p + 1])
          /\ i \in i .. LastOf(parents[p + 1]) + 1
      BY <2>3, <2>4, <1>3
    <3> QED BY <1>1, <1>3, <2>1, <2>2, <3>1 DEF SplitInv, FirstOf, LastOf, SentencesTo
  <2>6. Follows(children, [parent |-> chunker.parent, first |-> chunker.start])'
    <3>1. children' # <<>> /\ children'[Len(children')] = child
      BY <1>5, <1>7
    <3>2. p + 1 - 1 = p /\ i - 1 = last
      BY <1>6, <1>12, <1>17
    <3>3. OpensParent(<<child>>, [parent |-> p + 1, first |-> i])
      <4> HIDE DEF child
      <4> PICK q \in Nat : q = p + 1
        BY <1>6
      <4>1. <<child>> # <<>> /\ <<child>>[1] = child
        OBVIOUS
      <4>4. q - 1 = p
        BY <1>6
      <4>5. child.parent = p /\ child.last = last
        BY <3>2 DEF child
      <4>2. child.parent = q - 1 /\ child.last = LastOf(parents[q - 1])
        BY <4>4, <4>5
      <4>3. OpensParent(<<child>>, [parent |-> q, first |-> i])
        BY <2>3, <4>1, <4>2 DEF OpensParent
      <4> QED BY <4>3
    <3>4. OpensParent(<<children[Len(children)]>>,
                      [parent |-> chunker.parent, first |-> chunker.start])'
      BY <1>1, <2>1, <3>1, <3>3 DEF OpensParent, FirstOf, LastOf, SentencesTo
    <3> QED BY <3>1, <3>4 DEF Follows
  <2>7. TakeInv'
    <3>1. chunker'.idx - chunker'.start = 0
      BY <2>1, <1>3
    <3>2. Summed(chunker.start, chunker.idx - 1, chunker.idx - chunker.start, ChildMax)'
      BY <2>1, <3>1 DEF Summed
    <3> QED BY <2>6, <3>2 DEF TakeInv
  <2>8. OverlapInv'
    BY <2>1 DEF OverlapInv
  <2> QED BY <1>9, <1>14, <1>15, <2>5, <2>7, <2>8 DEF ChunkerInv
<1>18. CASE /\ i > last /\ p = Len(parents)
            /\ chunker' = [chunker EXCEPT !.pc = "done"]
  <2>1. /\ chunker'.pc = "done" /\ chunker'.parent = p /\ chunker'.start = s /\ chunker'.idx = i
    BY <1>5, <1>18
  <2>2. SplitInv'
    <3>1. SplitInv
      BY DEF ChunkerInv
    <3> QED BY <1>1, <2>1, <3>1 DEF SplitInv, FirstOf, LastOf, SentencesTo
  <2>3. TakeInv' /\ OverlapInv'
    BY <2>1 DEF TakeInv, OverlapInv
  <2> QED BY <1>9, <1>14, <1>15, <2>2, <2>3 DEF ChunkerInv
<1> QED BY <1>2, <1>16, <1>17, <1>18

\* What the overlap has summed.
LEMMA OverlapFacts ==
    ASSUME ChunkerInv, chunker.pc = "overlap"
    PROVE  LET s == chunker.start
               i == chunker.idx
               b == chunker.back
           IN /\ s \in Nat \ {0} /\ i \in Nat \ {0} /\ b \in Nat \ {0} /\ chunker.tokens \in Nat
              /\ s < i /\ i <= LastOf(parents[chunker.parent]) /\ i <= Len(section.words)
              /\ s <= b /\ b <= i - 1
              /\ LastOf(parents[chunker.parent]) \in Nat /\ Len(section.words) \in Nat
              /\ chunker.parent \in DOMAIN parents
              /\ TokensIn(b + 1, i - 1) \in Nat
              /\ chunker.tokens <= TokensIn(b + 1, i - 1)
              /\ b = i - 1 => chunker.tokens = 0 /\ TokensIn(b + 1, i - 1) = 0
              /\ b < i - 1 => /\ TokensIn(b + 1, i - 1) < chunker.tokens + (i - 1 - b)
                              /\ TokensIn(b + 2, i - 1) < OverlapTokens + (i - 2 - b)
<1> PICK i : i = chunker.idx
  OBVIOUS
<1> PICK s : s = chunker.start
  OBVIOUS
<1> PICK b : b = chunker.back
  OBVIOUS
<1> PICK last : last = LastOf(parents[chunker.parent])
  OBVIOUS
<1>1. /\ chunker.parent \in DOMAIN parents
      /\ s \in Nat \ {0} /\ i \in Nat \ {0} /\ b \in Nat /\ chunker.tokens \in Nat
      /\ last \in Nat /\ Len(section.words) \in Nat /\ last <= Len(section.words)
  BY SplitBounds
<1>2. /\ i \in s + 1 .. last
      /\ b \in s .. i - 1
      /\ Summed(b + 1, i - 1, i - 1 - b, chunker.tokens)
      /\ chunker.tokens <= TokensIn(b + 1, i - 1)
      /\ b < i - 1 => TokensIn(b + 2, i - 1) < OverlapTokens + (i - 2 - b)
  BY DEF ChunkerInv, OverlapInv
<1>3. s < i /\ i <= last /\ i <= Len(section.words) /\ s <= b /\ b <= i - 1 /\ b \in Nat \ {0}
  BY <1>1, <1>2
<1>4. TokensIn(b + 1, i - 1) \in Nat /\ (b + 1 = i - 1 + 1 => TokensIn(b + 1, i - 1) = 0)
  <2>1. /\ ChunkerTypeOK /\ TextInv
        /\ b + 1 \in Nat \ {0} /\ i - 1 \in Nat /\ b + 1 <= i - 1 + 1 /\ i - 1 <= i - 1
        /\ i - 1 <= Len(section.words)
    BY <1>1, <1>3 DEF ChunkerInv
  <2> QED BY <2>1, TokensSplit
<1>5. ASSUME b = i - 1 PROVE chunker.tokens = 0 /\ TokensIn(b + 1, i - 1) = 0
  <2>1. i - 1 - b = 0 /\ b + 1 = i - 1 + 1
    BY <1>1, <1>5
  <2> QED BY <2>1, <1>2, <1>4 DEF Summed
<1>6. ASSUME b < i - 1 PROVE TokensIn(b + 1, i - 1) < chunker.tokens + (i - 1 - b)
  <2>1. i - 1 - b > 0
    BY <1>1, <1>6
  <2> QED BY <2>1, <1>2 DEF Summed
<1> QED BY <1>1, <1>2, <1>3, <1>4, <1>5, <1>6

LEMMA StepBackKeeps ==
    ASSUME ChunkerInv, StepBack
    PROVE  ChunkerInv'
<1> PICK i : i = chunker.idx
  OBVIOUS
<1> PICK s : s = chunker.start
  OBVIOUS
<1> PICK b : b = chunker.back
  OBVIOUS
<1> PICK c : c = chunker.tokens
  OBVIOUS
<1>1. /\ chunker.pc = "overlap" /\ b > s /\ c < OverlapTokens
      /\ section' = section /\ parents' = parents /\ children' = children
      /\ chunker' = [chunker EXCEPT !.back = b - 1, !.tokens = c + TokensIn(b, b)]
  BY DEF StepBack, StepsBack
<1>2. /\ s \in Nat \ {0} /\ i \in Nat \ {0} /\ b \in Nat \ {0} /\ c \in Nat
      /\ s < i /\ i <= Len(section.words) /\ s <= b /\ b <= i - 1
      /\ Len(section.words) \in Nat
      /\ TokensIn(b + 1, i - 1) \in Nat /\ c <= TokensIn(b + 1, i - 1)
      /\ b = i - 1 => c = 0 /\ TokensIn(b + 1, i - 1) = 0
      /\ b < i - 1 => TokensIn(b + 1, i - 1) < c + (i - 1 - b)
  BY <1>1, OverlapFacts
<1>3. /\ TokensIn(b, b) \in Nat /\ TokensIn(b, i - 1) \in Nat
      /\ TokensIn(b, b) + TokensIn(b + 1, i - 1) <= TokensIn(b, i - 1)
      /\ TokensIn(b, i - 1) <= TokensIn(b, b) + TokensIn(b + 1, i - 1) + 1
  <2>1. /\ ChunkerTypeOK /\ TextInv
        /\ b \in Nat /\ i - 1 \in Nat /\ b <= b + 1 /\ b <= i - 1
        /\ i - 1 <= Len(section.words)
    BY <1>2 DEF ChunkerInv
  <2> QED BY <1>2, <2>1, TokensSplit
<1>4. /\ chunker'.pc = "overlap" /\ chunker'.back = b - 1 /\ chunker'.tokens = c + TokensIn(b, b)
      /\ chunker'.parent = chunker.parent /\ chunker'.start = s /\ chunker'.idx = i
      /\ chunker' \in [pc : ChunkerPC, from : Nat, next : Nat, tokens : Nat, parent : Nat,
                       start : Nat, idx : Nat, back : Nat]
  <2>1. c + TokensIn(b, b) \in Nat /\ b - 1 \in Nat
    <3>1. c \in Nat /\ b \in Nat \ {0} /\ TokensIn(b, b) \in Nat
      BY <1>2, <1>3
    <3> QED BY ONLY <3>1
  <2>2. chunker \in [pc : ChunkerPC, from : Nat, next : Nat, tokens : Nat, parent : Nat,
                     start : Nat, idx : Nat, back : Nat]
    BY DEF ChunkerInv, ChunkerTypeOK
  <2> QED BY <1>1, <2>1, <2>2
<1>5. ChunkerTypeOK' /\ TextInv'
  BY <1>1, <1>4, SameSection DEF ChunkerInv, ChunkerTypeOK
<1>6. ChildrenCover'
  BY <1>1, <1>4, SameChunks
<1>7. BeforeInv' /\ PackInv' /\ TakeInv'
  BY <1>4 DEF BeforeInv, PackInv, TakeInv
<1>8. SplitInv'
  <2>1. SplitInv
    BY DEF ChunkerInv
  <2> QED BY <1>1, <1>4, <2>1 DEF SplitInv, FirstOf, LastOf, SentencesTo
<1>9. /\ TokensIn(b, i - 1) < c + TokensIn(b, b) + (i - b)
      /\ c + TokensIn(b, b) <= TokensIn(b, i - 1)
      /\ TokensIn(b + 1, i - 1) < OverlapTokens + (i - 1 - b)
  <2>1. c + TokensIn(b, b) <= TokensIn(b, i - 1)
    BY <1>2, <1>3
  <2>2. OverlapTokens \in Nat \ {0}
    BY ChunkerAssumption
  <2>3. CASE b = i - 1
    <3>1. i - b = 1 /\ i - 1 - b = 0
      BY <2>3, <1>2
    <3>2. TokensIn(b, i - 1) = TokensIn(b, b)
      BY <2>3
    <3>3. c = 0 /\ TokensIn(b + 1, i - 1) = 0 /\ TokensIn(b, b) \in Nat
      BY <2>3, <1>2, <1>3
    <3>4. TokensIn(b, i - 1) < c + TokensIn(b, b) + (i - b)
      BY ONLY <3>1, <3>2, <3>3
    <3>5. TokensIn(b + 1, i - 1) < OverlapTokens + (i - 1 - b)
      BY ONLY <2>2, <3>1, <3>3
    <3> QED BY <2>1, <3>4, <3>5
  <2>4. CASE b < i - 1
    <3>1. \A x, y, z \in Nat :
             x < c + (i - 1 - b) /\ y <= z + x + 1 => y < c + z + (i - b)
      BY <1>2
    <3>2. \A x, y \in Nat : x < c + (i - 1 - b) /\ c < y => x < y + (i - 1 - b)
      BY <1>2
    <3>3. /\ TokensIn(b + 1, i - 1) \in Nat /\ TokensIn(b, b) \in Nat
          /\ TokensIn(b, i - 1) \in Nat
          /\ TokensIn(b + 1, i - 1) < c + (i - 1 - b)
          /\ TokensIn(b, i - 1) <= TokensIn(b, b) + TokensIn(b + 1, i - 1) + 1
      BY <2>4, <1>2, <1>3
    <3>4. TokensIn(b, i - 1) < c + TokensIn(b, b) + (i - b)
      BY <3>1, <3>3
    <3>5. TokensIn(b + 1, i - 1) < OverlapTokens + (i - 1 - b)
      BY <3>2, <3>3, <2>2, <1>1
    <3> QED BY <2>1, <3>4, <3>5
  <2>5. b = i - 1 \/ b < i - 1
    BY <1>2
  <2> QED BY <2>3, <2>4, <2>5, Zenon
<1>10. OverlapInv'
  <2>1. /\ chunker'.back + 1 = b /\ chunker'.back + 2 = b + 1
        /\ chunker'.idx - 1 = i - 1 /\ chunker'.idx - 1 - chunker'.back = i - b
        /\ chunker'.idx - 2 - chunker'.back = i - 1 - b
        /\ i - b # 0
        /\ b - 1 \in s .. i - 1
    <3>1. chunker'.back = b - 1 /\ chunker'.idx = i
      BY <1>4
    <3>2. b \in Nat /\ i \in Nat /\ s \in Nat /\ b <= i - 1 /\ s < b
      BY <1>1, <1>2
    <3> QED BY ONLY <3>1, <3>2
  <2>2. /\ TokensIn(chunker.back + 1, chunker.idx - 1)' = TokensIn(b, i - 1)
        /\ TokensIn(chunker.back + 2, chunker.idx - 1)' = TokensIn(b + 1, i - 1)
    BY <1>1, <2>1 DEF TokensIn, WordsTo
  <2>3. Summed(chunker.back + 1, chunker.idx - 1, chunker.idx - 1 - chunker.back, chunker.tokens)'
    <3>1. chunker'.tokens \in Nat /\ chunker'.tokens <= chunker'.tokens
      BY <1>2, <1>3, <1>4
    <3> QED BY <1>4, <1>9, <2>1, <2>2, <3>1 DEF Summed
  <2>4. /\ children # <<>>
        /\ children[Len(children)] = [parent |-> chunker.parent, first |-> s, last |-> i - 1]
        /\ i \in s + 1 .. LastOf(parents[chunker.parent])
    BY <1>1 DEF ChunkerInv, OverlapInv
  <2>5. (chunker.idx \in chunker.start + 1 .. LastOf(parents[chunker.parent]))'
    BY <1>1, <1>4, <2>4 DEF LastOf, SentencesTo
  <2>6. (chunker.back \in chunker.start .. chunker.idx - 1)'
    BY <1>4, <2>1
  <2> QED BY <1>1, <1>4, <1>9, <2>1, <2>2, <2>3, <2>4, <2>5, <2>6 DEF OverlapInv
<1> QED BY <1>5, <1>6, <1>7, <1>8, <1>10 DEF ChunkerInv

LEMMA StartChildKeeps ==
    ASSUME ChunkerInv, StartChild
    PROVE  ChunkerInv'
<1> PICK i : i = chunker.idx
  OBVIOUS
<1> PICK s : s = chunker.start
  OBVIOUS
<1> PICK b : b = chunker.back
  OBVIOUS
<1> PICK c : c = chunker.tokens
  OBVIOUS
<1> PICK p : p = chunker.parent
  OBVIOUS
<1>1. /\ chunker.pc = "overlap" /\ ~(b > s /\ c < OverlapTokens)
      /\ section' = section /\ parents' = parents /\ children' = children
      /\ chunker' = [chunker EXCEPT !.pc = "take", !.tokens = 0, !.start = b + 1, !.idx = b + 1]
  BY DEF StartChild, StepsBack
<1>2. /\ s \in Nat \ {0} /\ i \in Nat \ {0} /\ b \in Nat \ {0} /\ c \in Nat
      /\ s < i /\ i <= LastOf(parents[p]) /\ s <= b /\ b <= i - 1
      /\ LastOf(parents[p]) \in Nat
      /\ TokensIn(b + 1, i - 1) \in Nat /\ c <= TokensIn(b + 1, i - 1)
      /\ b = i - 1 => c = 0
      /\ b < i - 1 => TokensIn(b + 2, i - 1) < OverlapTokens + (i - 2 - b)
  BY <1>1, OverlapFacts
<1>3. /\ chunker'.pc = "take" /\ chunker'.tokens = 0 /\ chunker'.parent = p
      /\ chunker'.start = b + 1 /\ chunker'.idx = b + 1
      /\ chunker' \in [pc : ChunkerPC, from : Nat, next : Nat, tokens : Nat, parent : Nat,
                       start : Nat, idx : Nat, back : Nat]
  <2>1. b + 1 \in Nat /\ "take" \in ChunkerPC
    BY <1>2 DEF ChunkerPC
  <2>2. chunker \in [pc : ChunkerPC, from : Nat, next : Nat, tokens : Nat, parent : Nat,
                     start : Nat, idx : Nat, back : Nat]
    BY DEF ChunkerInv, ChunkerTypeOK
  <2> QED BY <1>1, <2>1, <2>2
<1>4. ChunkerTypeOK' /\ TextInv'
  BY <1>1, <1>3, SameSection DEF ChunkerInv, ChunkerTypeOK
<1>5. ChildrenCover'
  BY <1>1, <1>3, SameChunks
<1>6. BeforeInv' /\ PackInv' /\ OverlapInv'
  BY <1>3 DEF BeforeInv, PackInv, OverlapInv
<1>7. SplitInv'
  <2>1. /\ p \in DOMAIN parents /\ parents[Len(parents)].to = Len(section.ends)
        /\ s \in FirstOf(parents[p]) .. LastOf(parents[p])
    BY <1>1 DEF ChunkerInv, SplitInv
  <2>2. FirstOf(parents[p]) \in Nat /\ FirstOf(parents[p]) <= s
    BY <1>1, SplitBounds
  <2>3. /\ b + 1 \in FirstOf(parents[p]) .. LastOf(parents[p])
        /\ b + 1 \in b + 1 .. LastOf(parents[p]) + 1
    BY <1>2, <2>2
  <2> QED BY <1>1, <1>3, <2>1, <2>3 DEF SplitInv, FirstOf, LastOf, SentencesTo
<1>8. TakeInv'
  <2>1. /\ children # <<>>
        /\ children[Len(children)] = [parent |-> p, first |-> s, last |-> i - 1]
    BY <1>1 DEF ChunkerInv, OverlapInv
  <2>2. ASSUME i - 1 > s
        PROVE  /\ b + 1 <= i - 1
               /\ b + 1 = s + 1 \/ TokensIn(b + 1, i - 1) >= OverlapTokens
               /\ TokensIn(b + 1 + 1, i - 1) < OverlapTokens + (i - 1 - (b + 1))
    <3>1. OverlapTokens \in Nat \ {0}
      BY ChunkerAssumption
    <3>2. b = s \/ c >= OverlapTokens
      BY <1>1, <1>2, <3>1
    <3>3. b < i - 1
      BY <1>2, <2>2, <3>1, <3>2
    <3>4. b + 1 + 1 = b + 2 /\ i - 1 - (b + 1) = i - 2 - b
      BY <1>2
    <3>5. b + 1 = s + 1 \/ TokensIn(b + 1, i - 1) >= OverlapTokens
      BY <1>2, <3>1, <3>2
    <3> QED BY <1>2, <3>3, <3>4, <3>5
  <2>3. Continues([parent |-> p, first |-> s, last |-> i - 1], [parent |-> p, first |-> b + 1])
    <3>1. b + 1 > s /\ b + 1 <= i - 1 + 1
      BY <1>2
    <3> QED BY <2>2, <3>1 DEF Continues
  <2>4. Follows(children, [parent |-> chunker.parent, first |-> chunker.start])'
    <3>1. Continues(children[Len(children)], [parent |-> chunker.parent, first |-> chunker.start])'
      BY <1>1, <1>3, <2>1, <2>3 DEF Continues, TokensIn, WordsTo
    <3> QED BY <1>1, <2>1, <3>1 DEF Follows
  <2>5. Summed(chunker.start, chunker.idx - 1, chunker.idx - chunker.start, ChildMax)'
    <3>1. chunker'.idx - chunker'.start = 0
      BY <1>2, <1>3
    <3> QED BY <1>3, <3>1 DEF Summed
  <2> QED BY <2>4, <2>5 DEF TakeInv
<1> QED BY <1>4, <1>5, <1>6, <1>7, <1>8 DEF ChunkerInv

LEMMA ChunkerStutters == ChunkerInv /\ UNCHANGED chunkerVars => ChunkerInv'
<1> SUFFICES ASSUME ChunkerInv, UNCHANGED chunkerVars PROVE ChunkerInv'
  OBVIOUS
<1>1. section' = section /\ chunker' = chunker /\ parents' = parents /\ children' = children
  BY DEF chunkerVars
<1> USE <1>1 DEF TokensIn, WordsTo, SentencesTo, FirstOf, LastOf, SentenceEnds, ParagraphEnds
<1>2. ChunkerTypeOK' /\ TextInv' /\ BeforeInv'
  BY DEF ChunkerInv, ChunkerTypeOK, TextInv, BeforeInv
<1>3. PackInv' /\ SplitInv'
  BY DEF ChunkerInv, PackInv, SplitInv, Summed
<1>4. TakeInv' /\ OverlapInv'
  BY DEF ChunkerInv, TakeInv, OverlapInv, Summed, Follows, Continues, OpensParent
<1>5. ParentsPartition'
  BY DEF ChunkerInv, ChildrenCover, ParentsPartition, Within
<1>6. ChildrenCover'
  BY <1>5 DEF ChunkerInv, ChildrenCover, Within, Continues, OpensParent
<1> QED BY <1>2, <1>3, <1>4, <1>6 DEF ChunkerInv

\* Every step keeps the invariant.
LEMMA ChunkerStep == ChunkerInv /\ [ChunkerNext]_chunkerVars => ChunkerInv'
<1> SUFFICES ASSUME ChunkerInv, [ChunkerNext]_chunkerVars PROVE ChunkerInv'
  OBVIOUS
<1>1. CASE \E w \in WordCounts, new \in BOOLEAN : AddSentence(w, new)
  BY <1>1, AddSentenceKeeps
<1>2. CASE StartChunking
  BY <1>2, StartChunkingKeeps
<1>3. CASE PackParagraph
  BY <1>3, PackParagraphKeeps
<1>4. CASE PackLast
  BY <1>4, PackLastKeeps
<1>5. CASE TakeSentence
  BY <1>5, TakeSentenceKeeps
<1>6. CASE MakeChild
  BY <1>6, MakeChildKeeps
<1>7. CASE StepBack
  BY <1>7, StepBackKeeps
<1>8. CASE StartChild
  BY <1>8, StartChildKeeps
<1>9. CASE UNCHANGED chunkerVars
  BY <1>9, ChunkerStutters
<1> QED
  BY <1>1, <1>2, <1>3, <1>4, <1>5, <1>6, <1>7, <1>8, <1>9 DEF ChunkerNext

\* A section is split without loss, for every text and every limit: parents are runs of
\* whole paragraphs, children overlap and go from the first sentence to the last, and a chunk
\* is over its limit by what rounding leaves only.
THEOREM ChildrenCoverParents == ChunkerSpec => []ChildrenCover
<1>1. ChunkerInv => ChildrenCover
  BY DEF ChunkerInv
<1> QED BY <1>1, ChunkerBegins, ChunkerStep, PTL DEF ChunkerSpec
-----------------------------------------------------------------------------
(* The types of the services.                                              *)

SearchRecord == [pc : {"idle", "sparse", "fuse", "rerank", "done"},
                 coverage : CoveragesSearched \cup {NoCoverage}, text : Queries \cup {NoText},
                 dense : Seq(Points), sparse : Seq(Points), fused : Seq(Points),
                 texts : Seq([id : Points, context : BOOLEAN])]

QuoteRecord == [verdict : {"none", "exact", "close", "absent"},
                coverage : CoveragesSearched \cup {NoCoverage}, text : Quotes \cup {NoText},
                passages : SUBSET Points]

RetrievalTypes ==
    /\ stored \subseteq Points /\ quoted \in QuoteRecord
    /\ search \in SearchRecord /\ Len(search.dense) <= TopK /\ Len(search.sparse) <= TopK

LEMMA ListIsSequence ==
    ASSUME NEW S \in SUBSET Points, NEW n \in Nat, NEW list \in ListOf(S, n)
    PROVE  list \in Seq(Points) /\ Len(list) = n
BY DEF ListOf

LEMMA ShortestIsLess ==
    ASSUME NEW m \in Nat, NEW n \in Nat
    PROVE  Shortest(m, n) \in Nat /\ Shortest(m, n) <= n /\ Shortest(m, n) <= m
BY DEF Shortest

LEMMA RetrievalTypesInit == RetrievalInit => RetrievalTypes
<1> SUFFICES ASSUME RetrievalInit PROVE RetrievalTypes
    OBVIOUS
<1>1. SearchAtRest \in SearchRecord
    BY DEF SearchAtRest, SearchRecord
<1>2. NoQuote \in QuoteRecord
    BY DEF NoQuote, QuoteRecord
<1>3. Len(SearchAtRest.dense) <= TopK /\ Len(SearchAtRest.sparse) <= TopK
    BY RankNumbers DEF SearchAtRest
<1> QED BY <1>1, <1>2, <1>3 DEF RetrievalInit, RetrievalTypes

LEMMA RetrievalTypesStep == RetrievalTypes /\ [RetrievalNext]_retrievalVars => RetrievalTypes'
<1> SUFFICES ASSUME RetrievalTypes, [RetrievalNext]_retrievalVars PROVE RetrievalTypes'
    OBVIOUS
<1>0. /\ stored \subseteq Points /\ quoted \in QuoteRecord
      /\ search \in SearchRecord /\ Len(search.dense) <= TopK /\ Len(search.sparse) <= TopK
    BY DEF RetrievalTypes
<1>s. ASSUME NEW S \in SUBSET Points
      PROVE  IsFiniteSet(S) /\ Cardinality(S) \in Nat
    BY CollectionIsFinite, FS_Subset, FS_CardinalityType
<1>l. ASSUME NEW S \in SUBSET Points, NEW list \in ListOf(S, Shortest(Cardinality(S), TopK))
      PROVE  list \in Seq(Points) /\ Len(list) <= TopK
    <2>1. /\ Shortest(Cardinality(S), TopK) \in Nat
          /\ Shortest(Cardinality(S), TopK) <= TopK
        BY <1>s, ShortestIsLess, RankNumbers
    <2> QED BY <2>1, ListIsSequence
<1>1. ASSUME NEW c \in CoveragesSearched, NEW words \in Queries, SearchDense(c, words)
      PROVE  RetrievalTypes'
    <2>1. PICK list \in ListOf(Searchable(c), Shortest(Cardinality(Searchable(c)), TopK)) :
            search' = [search EXCEPT !.pc = "sparse", !.coverage = c, !.text = words, !.dense = list]
        BY <1>1 DEF SearchDense
    <2>2. Searchable(c) \in SUBSET Points
        BY <1>0 DEF Searchable
    <2>3. list \in Seq(Points) /\ Len(list) <= TopK
        BY <1>l, <2>1, <2>2
    <2>4. search' \in SearchRecord /\ search'.dense = list /\ search'.sparse = search.sparse
        BY <1>0, <2>1, <2>3 DEF SearchRecord
    <2> QED BY <1>0, <1>1, <2>3, <2>4 DEF SearchDense, RetrievalTypes
<1>2. CASE SearchSparse
    <2> DEFINE hits == Matching(search.text, search.coverage)
    <2>1. PICK list \in ListOf(hits, Shortest(Cardinality(hits), TopK)) :
            search' = [search EXCEPT !.pc = "fuse", !.sparse = list]
        BY <1>2 DEF SearchSparse
    <2>2. hits \in SUBSET Points
        BY <1>0 DEF Matching, Searchable
    <2> HIDE DEF hits
    <2>3. list \in Seq(Points) /\ Len(list) <= TopK
        BY <1>l, <2>1, <2>2
    <2>4. search' \in SearchRecord /\ search'.dense = search.dense /\ search'.sparse = list
        BY <1>0, <2>1, <2>3 DEF SearchRecord
    <2> QED BY <1>0, <1>2, <2>3, <2>4 DEF SearchSparse, RetrievalTypes
<1>3. CASE Fuse
    <2>1. PICK list \in ListOf(Candidates, Cardinality(Candidates)) :
            search' = [search EXCEPT !.pc = "rerank", !.fused = list]
        BY <1>3 DEF Fuse
    <2>2. Candidates \in SUBSET Points
        BY DEF Candidates
    <2>3. list \in Seq(Points)
        BY <1>s, <2>1, <2>2, ListIsSequence
    <2>4. search' \in SearchRecord /\ search'.dense = search.dense /\ search'.sparse = search.sparse
        BY <1>0, <2>1, <2>3 DEF SearchRecord
    <2> QED BY <1>0, <1>3, <2>4 DEF Fuse, RetrievalTypes
<1>4. CASE RerankAndHydrate
    <2>1. PICK n : n = Shortest(Len(search.fused), TopN)
        OBVIOUS
    <2>2. PICK list \in ListOf(Candidates, n) :
            search' = [search EXCEPT !.pc = "done",
                          !.texts = [i \in 1 .. n |->
                              [id |-> list[i], context |-> Chunk[list[i]].parent \in stored]]]
        BY <1>4, <2>1 DEF RerankAndHydrate
    <2>3. n \in Nat
        <3>1. Len(search.fused) \in Nat
            BY <1>0 DEF SearchRecord
        <3> QED BY <2>1, <3>1, ShortestIsLess, RankNumbers
    <2>4. \A i \in 1 .. n : list[i] \in Points
        BY DEF ListOf, Candidates
    <2>5. [i \in 1 .. n |-> [id |-> list[i], context |-> Chunk[list[i]].parent \in stored]]
             \in Seq([id : Points, context : BOOLEAN])
        <3>1. \A i \in 1 .. n : [id |-> list[i], context |-> Chunk[list[i]].parent \in stored]
                                   \in [id : Points, context : BOOLEAN]
            BY <2>4
        <3> QED BY <2>3, <3>1
    <2>6. search' \in SearchRecord /\ search'.dense = search.dense /\ search'.sparse = search.sparse
        BY <1>0, <2>2, <2>5 DEF SearchRecord
    <2> QED BY <1>0, <1>4, <2>6 DEF RerankAndHydrate, RetrievalTypes
<1>5. ASSUME NEW d, PurgeChunks(d) PROVE RetrievalTypes'
    BY <1>0, <1>5 DEF PurgeChunks, RetrievalTypes
<1>6. ASSUME NEW c \in CoveragesSearched, NEW words \in Quotes, JudgeQuote(c, words)
      PROVE  RetrievalTypes'
    <2>1. PICK v \in {"exact", "close", "absent"} :
            quoted' = [verdict |-> v, coverage |-> c, text |-> words, passages |-> Searchable(c)]
        BY <1>6 DEF JudgeQuote
    <2>2. Searchable(c) \in SUBSET Points
        BY <1>0 DEF Searchable
    <2>3. quoted' \in QuoteRecord
        BY <2>1, <2>2 DEF QuoteRecord
    <2> QED BY <1>0, <1>6, <2>3 DEF JudgeQuote, RetrievalTypes
<1>7. CASE UNCHANGED retrievalVars
    BY <1>0, <1>7 DEF retrievalVars, RetrievalTypes
<1> QED BY <1>1, <1>2, <1>3, <1>4, <1>5, <1>6, <1>7 DEF RetrievalNext

LEMMA RetrievalTyped == RetrievalTypes => RetrievalTypeOK
<1> SUFFICES ASSUME RetrievalTypes PROVE RetrievalTypeOK
    OBVIOUS
<1>1. stored \subseteq Points /\ quoted \in QuoteRecord
      /\ search \in SearchRecord /\ Len(search.dense) <= TopK /\ Len(search.sparse) <= TopK
    BY DEF RetrievalTypes
<1> QED BY <1>1 DEF RetrievalTypeOK, SearchRecord, QuoteRecord

VerdictRecord == [status : {"none", "approved", "partial", "failed"}, approved : BOOLEAN,
                  hallucinations : 0 .. 5, reported : Nat \X Nat, findings : BOOLEAN]

EnforcerTypes ==
    /\ text \in Seq(Piece) /\ Len(text) <= MaxPieces
    /\ padding \in Paddings \cup {0}
    /\ verdict \in VerdictRecord /\ verdict.reported[1] <= verdict.reported[2]
    /\ verdict.approved <=> verdict.status = "approved"

\* What is reported is a share of one at most.
LEMMA ReportedIsShare ==
    ASSUME text \in Seq(Piece), NEW pad \in Nat
    PROVE  /\ ReportedCoverage(text, pad) \in Nat \X Nat
           /\ ReportedCoverage(text, pad)[1] <= ReportedCoverage(text, pad)[2]
<1> DEFINE claims == {p \in Paragraphs(text) : HasDigit(text, p)}
           cited == {p \in claims : CitedParagraph(text, p)}
<1>1. IsFiniteSet(Paragraphs(text))
    BY ParagraphsAreFinite
<1>2. IsFiniteSet(claims) /\ cited \in SUBSET claims
    <2>1. claims \in SUBSET Paragraphs(text)
        OBVIOUS
    <2> QED BY <1>1, <2>1, FS_Subset
<1> HIDE DEF claims
<1>3. /\ Cardinality(claims) \in Nat /\ Cardinality(cited) \in Nat
      /\ Cardinality(cited) <= Cardinality(claims)
    BY <1>2, FS_Subset, FS_CardinalityType
<1>4. ReportedCoverage(text, pad) = <<pad + Cardinality(cited), pad + Cardinality(claims)>>
    BY DEF ReportedCoverage, Coverage, claims
<1> HIDE DEF cited
<1> QED BY <1>3, <1>4

LEMMA EnforcerTypesInit == EnforcerInit => EnforcerTypes
<1> SUFFICES ASSUME EnforcerInit PROVE EnforcerTypes
    OBVIOUS
<1>1. NoVerdict \in VerdictRecord /\ NoVerdict.reported[1] <= NoVerdict.reported[2]
      /\ ~NoVerdict.approved /\ NoVerdict.status = "none"
    BY DEF NoVerdict, VerdictRecord
<1> QED BY <1>1, EnforcerAssumption DEF EnforcerInit, EnforcerTypes

LEMMA EnforcerTypesStep == EnforcerTypes /\ [EnforcerNext]_enforcerVars => EnforcerTypes'
<1> SUFFICES ASSUME EnforcerTypes, [EnforcerNext]_enforcerVars PROVE EnforcerTypes'
    OBVIOUS
<1>1. ASSUME NEW piece \in Piece, Write(piece) PROVE EnforcerTypes'
    <2>1. /\ text' = Append(text, piece) /\ padding' = padding /\ verdict' = verdict
          /\ Len(text) < MaxPieces /\ text \in Seq(Piece)
        BY <1>1 DEF Write, EnforcerTypes
    <2>2. text' \in Seq(Piece) /\ Len(text') <= MaxPieces
        BY <2>1, EnforcerAssumption
    <2> QED BY <2>1, <2>2 DEF EnforcerTypes
<1>2. ASSUME NEW pad \in Paddings, ValidateText(pad) PROVE EnforcerTypes'
    <2>1. PICK count : count = Cardinality(Absent(text))
        OBVIOUS
    <2>2. PICK reported : reported = ReportedCoverage(text, pad)
        OBVIOUS
    <2>3. /\ text' = text /\ padding' = pad
          /\ verdict' = [status |-> IF Approved(text, pad) THEN "approved"
                                    ELSE IF AtLeast(reported, 80) THEN "partial" ELSE "failed",
                         approved |-> Approved(text, pad),
                         hallucinations |-> IF count > 5 THEN 5 ELSE count,
                         reported |-> reported,
                         findings |-> Absent(text) \cup Close(text) # {}]
        BY <1>2, <2>1, <2>2 DEF ValidateText
    <2>4. text \in Seq(Piece) /\ Len(text) <= MaxPieces /\ pad \in Nat
        BY EnforcerAssumption DEF EnforcerTypes
    <2>5. count \in Nat
        <3>1. Absent(text) \in SUBSET (1 .. Len(text)) /\ 1 \in Int /\ Len(text) \in Int
            BY <2>4 DEF Absent
        <3>2. IsFiniteSet(Absent(text))
            BY <3>1, FS_Interval, FS_Subset
        <3> QED BY <2>1, <3>2, FS_CardinalityType
    <2>6. reported \in Nat \X Nat /\ reported[1] <= reported[2]
        BY <2>2, <2>4, ReportedIsShare
    <2>7. (IF count > 5 THEN 5 ELSE count) \in 0 .. 5
        BY <2>5
    <2>8. Approved(text, pad) \in BOOLEAN
        BY DEF Approved, PassesFormat
    <2>9. verdict' \in VerdictRecord
        BY <2>3, <2>6, <2>7, <2>8 DEF VerdictRecord
    <2>10. verdict'.reported = reported /\ verdict'.approved = Approved(text, pad)
           /\ verdict'.status = IF Approved(text, pad) THEN "approved"
                                ELSE IF AtLeast(reported, 80) THEN "partial" ELSE "failed"
        BY <2>3
    <2>11. verdict'.approved <=> verdict'.status = "approved"
        BY <2>10
    <2> QED BY <2>3, <2>4, <2>6, <2>9, <2>10, <2>11 DEF EnforcerTypes
<1>3. CASE UNCHANGED enforcerVars
    BY <1>3 DEF enforcerVars, EnforcerTypes
<1> QED BY <1>1, <1>2, <1>3 DEF EnforcerNext

LEMMA EnforcerTyped == EnforcerTypes => EnforcerTypeOK
<1> SUFFICES ASSUME EnforcerTypes PROVE EnforcerTypeOK
    OBVIOUS
<1>1. /\ verdict.reported \in Nat \X Nat /\ verdict.reported[1] <= verdict.reported[2]
    BY DEF EnforcerTypes, VerdictRecord
<1>2. verdict.reported[1] \in 0 .. verdict.reported[2]
    BY <1>1
<1>3. \A i \in DOMAIN text : text[i] \in Piece
    BY DEF EnforcerTypes
<1> QED BY <1>2, <1>3 DEF EnforcerTypes, EnforcerTypeOK, VerdictRecord

NormalValue == [value : Nat, negative : BOOLEAN,
    unit : {"USD_millions", "EUR_millions", "count", "ratio", "percentage", "unknown"}]

\* Every value is a number in a known unit, or refused.
LEMMA ValueIsTyped ==
    ASSUME NEW v \in ValueWriting, NEW context \in ContextUnits
    PROVE  NormalizeValue(v, context) \in NormalValue
<1>1. /\ v.number \in Nat /\ v.suffix \in UnitSuffixes
      /\ v.kind \in {"money", "sign", "percent", "shares", "ratio"}
    BY NormalizerAssumption DEF ValueWriting
<1>2. Refused \in NormalValue
    BY DEF Refused, NormalValue
<1>3. ASSUME v.suffix # "odd"
      PROVE  \/ v.kind # "money"
             \/ Monetary(v, context) \in Nat
    <2>1. Thousand \in Nat /\ Thousand * Thousand \in Nat
        BY NormalizerAssumption
    <2>2. v.number * Thousand \in Nat /\ v.number * Thousand * Thousand \in Nat
        BY <1>1, <2>1
    <2>3. CASE v.kind = "money"
        <3>1. Meaning(v, context) \in Nat
            BY <1>1, <1>3, <2>2, <2>3 DEF Meaning, UnitSuffixes, ContextUnits
        <3> QED BY <1>3, <2>3, <3>1, MoneyKeepsMeaning
    <2> QED BY <2>3
<1>4. ASSUME v.suffix # "odd" PROVE v.number * Power[v.suffix] \in Nat
    <2>1. Thousand \in Nat
        BY NormalizerAssumption
    <2>2. Thousand * Thousand \in Nat
        BY <2>1
    <2>3. Thousand * Thousand * Thousand \in Nat
        BY <2>1, <2>2
    <2>4. Power[v.suffix] \in Nat
        BY <1>1, <1>4, <2>1, <2>2, <2>3 DEF Power, UnitSuffixes
    <2>5. \A a, b \in Nat : a * b \in Nat
        BY ONLY TRUE
    <2> QED BY <1>1, <2>4, <2>5
<1>5. CASE ~Enclosed(v) \/ v.suffix = "odd"
    BY <1>2, <1>5 DEF NormalizeValue
<1>6. CASE Enclosed(v) /\ v.suffix # "odd"
    <2>1. PICK n \in Nat :
            n = CASE v.kind = "money" -> Monetary(v, context)
                  [] v.kind = "shares" -> v.number * Power[v.suffix]
                  [] OTHER -> v.number
        BY <1>1, <1>3, <1>4, <1>6
    <2>2. PICK u \in {"USD_millions", "EUR_millions", "count", "ratio", "percentage"} :
            u = CASE v.kind = "money" /\ v.currency = "EUR" -> "EUR_millions"
                  [] v.kind = "money" /\ v.currency # "EUR" -> "USD_millions"
                  [] v.kind = "shares" -> "count"
                  [] v.kind = "ratio" -> "ratio"
                  [] OTHER -> "percentage"
        BY <1>1
    <2>3. NormalizeValue(v, context) = [negative |-> v.mark # "none", value |-> n, unit |-> u]
        BY <1>6, <2>1, <2>2 DEF NormalizeValue
    <2> QED BY <2>3 DEF NormalValue
<1> QED BY <1>5, <1>6

LEMMA NormalizerTypesInit == NormalizerInit => NormalizerTypeOK
BY DEF NormalizerInit, NoItem, NormalizerTypeOK

LEMMA NormalizerTypesStep == NormalizerTypeOK /\ [NormalizerNext]_item => NormalizerTypeOK'
<1> SUFFICES ASSUME NormalizerTypeOK, [NormalizerNext]_item PROVE NormalizerTypeOK'
    OBVIOUS
<1>1. ASSUME NEW v \in ValueWriting, NEW context \in ContextUnits, NormalizeItemValue(v, context)
      PROVE  NormalizerTypeOK'
    <2>1. item'.pc = "value" /\ item'.value = NormalizeValue(v, context)
        BY <1>1 DEF NormalizeItemValue
    <2>2. item'.value \in NormalValue
        BY <2>1, ValueIsTyped
    <2> QED BY <2>1, <2>2 DEF NormalizerTypeOK, NormalValue
<1>2. ASSUME NEW p \in PeriodWriting, NormalizeItemPeriod(p) PROVE NormalizerTypeOK'
    <2>1. item'.pc = "period" /\ item'.label = NormalizePeriod(p)
        BY <1>2 DEF NormalizeItemPeriod
    <2>2. p.year \in Years /\ p.quarter \in 0 .. 4
        BY DEF PeriodWriting
    <2>3. NormalizePeriod(p) \in [year : Years \cup {0}, quarter : 0 .. 4]
        <3>1. \/ NormalizePeriod(p) = Unreadable
              \/ \E q \in {0, p.quarter} : NormalizePeriod(p) = [year |-> p.year, quarter |-> q]
            BY Zenon DEF NormalizePeriod
        <3> QED BY <2>2, <3>1 DEF Unreadable
    <2> QED BY <2>1, <2>3 DEF NormalizerTypeOK
<1>3. CASE UNCHANGED item
    BY <1>3 DEF NormalizerTypeOK
<1> QED BY <1>1, <1>2, <1>3 DEF NormalizerNext

CallerRecord == [pc : CallerPC, stage : Stages, attempt : 0 .. 3, wake : Nat]

EdgarTypes ==
    /\ ticks \in 0 .. MaxTicks
    /\ bucket \in [tokens : 0 .. Interval, last : 0 .. MaxTicks] /\ bucket.last <= ticks
    /\ cached \in BOOLEAN
    /\ caller \in [Callers -> CallerRecord]

LEMMA EdgarTypesInit == EdgarInit => EdgarTypes
<1> SUFFICES ASSUME EdgarInit PROVE EdgarTypes
    OBVIOUS
<1>1. [pc |-> "idle", stage |-> "none", attempt |-> 0, wake |-> 0] \in CallerRecord
    BY DEF CallerRecord, CallerPC, Stages
<1>2. /\ 0 \in 0 .. MaxTicks /\ Interval \in 0 .. Interval
    BY EdgarAssumption
<1>3. /\ bucket = [tokens |-> Interval, last |-> 0] /\ ticks = 0 /\ cached = FALSE
      /\ caller = [c \in Callers |-> [pc |-> "idle", stage |-> "none", attempt |-> 0, wake |-> 0]]
    BY DEF EdgarInit
<1>4. caller \in [Callers -> CallerRecord]
    BY <1>1, <1>3
<1>5. bucket \in [tokens : 0 .. Interval, last : 0 .. MaxTicks] /\ bucket.last <= ticks
    BY <1>2, <1>3
<1> QED BY <1>2, <1>3, <1>4, <1>5 DEF EdgarTypes

\* A caller that goes on with another request.
LEMMA FetchingIsTyped ==
    ASSUME EdgarTypes, NEW c \in Callers, NEW stage \in Stages, Fetching(c, stage)
    PROVE  caller' \in [Callers -> CallerRecord]
BY DEF EdgarTypes, Fetching, CallerRecord, CallerPC

LEMMA GivingUpIsTyped ==
    ASSUME EdgarTypes, NEW c \in Callers, GivesUp(c)
    PROVE  caller' \in [Callers -> CallerRecord]
<1>1. CASE caller[c].stage = "index"
    <2>1. Fetching(c, "document") /\ "document" \in Stages
        BY <1>1 DEF GivesUp, Stages
    <2> QED BY <2>1, FetchingIsTyped
<1>2. CASE caller[c].stage # "index"
    BY <1>2 DEF EdgarTypes, GivesUp, CallerRecord, CallerPC
<1> QED BY <1>1, <1>2

LEMMA EdgarTypesStep == EdgarTypes /\ [EdgarNext]_edgarVars => EdgarTypes'
<1> SUFFICES ASSUME EdgarTypes, [EdgarNext]_edgarVars PROVE EdgarTypes'
    OBVIOUS
<1>0. /\ ticks \in 0 .. MaxTicks /\ cached \in BOOLEAN
      /\ bucket \in [tokens : 0 .. Interval, last : 0 .. MaxTicks] /\ bucket.last <= ticks
      /\ caller \in [Callers -> CallerRecord]
      /\ Interval \in Nat \ {0} /\ Backoff \in Nat /\ MaxTicks \in Nat
    BY EdgarAssumption DEF EdgarTypes
<1>1. CASE Tick
    BY <1>0, <1>1 DEF Tick, EdgarTypes
<1>2. ASSUME NEW c \in Callers, Acquire(c) PROVE EdgarTypes'
    <2>1. PICK filled : filled = Filled
        OBVIOUS
    <2>2. filled \in 0 .. Interval
        BY <1>0, <2>1 DEF Filled
    <2>3. ticks' = ticks /\ cached' = cached
        BY <1>2 DEF Acquire
    <2>4. CASE filled >= Interval
        <3>1. /\ bucket' = [tokens |-> filled - Interval, last |-> ticks]
              /\ caller' = [caller EXCEPT ![c] = [@ EXCEPT !.pc = "get", !.wake = 0]]
            BY <1>0, <1>2, <2>1, <2>4 DEF Acquire
        <3>2. filled - Interval \in 0 .. Interval
            BY <1>0, <2>2, <2>4
        <3>3. bucket' \in [tokens : 0 .. Interval, last : 0 .. MaxTicks] /\ bucket'.last <= ticks
            BY <1>0, <3>1, <3>2
        <3>4. caller' \in [Callers -> CallerRecord]
            BY <1>0, <3>1 DEF CallerRecord, CallerPC
        <3> QED BY <1>0, <2>3, <3>3, <3>4 DEF EdgarTypes
    <2>5. CASE ~(filled >= Interval)
        <3>1. /\ bucket' = [tokens |-> filled, last |-> ticks]
              /\ caller' = [caller EXCEPT ![c] =
                               [@ EXCEPT !.pc = "sleep", !.wake = ticks + Interval - filled]]
            BY <1>0, <1>2, <2>1, <2>5 DEF Acquire
        <3>2. ticks + Interval - filled \in Nat
            BY <1>0, <2>2
        <3>3. bucket' \in [tokens : 0 .. Interval, last : 0 .. MaxTicks] /\ bucket'.last <= ticks
            BY <1>0, <2>2, <3>1
        <3>4. caller' \in [Callers -> CallerRecord]
            BY <1>0, <3>1, <3>2 DEF CallerRecord, CallerPC
        <3> QED BY <1>0, <2>3, <3>3, <3>4 DEF EdgarTypes
    <2> QED BY <2>4, <2>5
<1>3. ASSUME NEW c \in Callers, CallConnector(c) PROVE EdgarTypes'
    <2>1. PICK stage \in {"list", "cik"} : Fetching(c, stage)
        BY <1>3 DEF CallConnector
    <2>2. caller' \in [Callers -> CallerRecord]
        BY <2>1, FetchingIsTyped DEF Stages
    <2> QED BY <1>0, <1>3, <2>2 DEF CallConnector, EdgarTypes
<1>4. ASSUME NEW c \in Callers, Answered200(c) PROVE EdgarTypes'
    <2>1. \/ \E stage \in {"list", "index", "document"} : Fetching(c, stage)
          \/ caller' = [caller EXCEPT ![c] = [@ EXCEPT !.pc = "stored"]]
        BY <1>4 DEF Answered200
    <2>2. ASSUME NEW stage \in {"list", "index", "document"}, Fetching(c, stage)
          PROVE  caller' \in [Callers -> CallerRecord]
        <3>1. stage \in Stages
            BY DEF Stages
        <3> QED BY <2>2, <3>1, FetchingIsTyped
    <2>3. ASSUME caller' = [caller EXCEPT ![c] = [@ EXCEPT !.pc = "stored"]]
          PROVE  caller' \in [Callers -> CallerRecord]
        BY <1>0, <2>3 DEF CallerRecord, CallerPC
    <2>4. caller' \in [Callers -> CallerRecord]
        BY <2>1, <2>2, <2>3
    <2>5. /\ ticks' = ticks /\ bucket' = bucket
          /\ cached' = (cached \/ caller[c].stage = "cik")
        BY <1>4 DEF Answered200
    <2>6. cached' \in BOOLEAN
        BY <2>5
    <2> QED BY <1>0, <2>4, <2>5, <2>6 DEF EdgarTypes
<1>5. ASSUME NEW c \in Callers, Throttled(c) PROVE EdgarTypes'
    <2>1. ticks' = ticks /\ bucket' = bucket /\ cached' = cached
        BY <1>5 DEF Throttled
    <2>2. CASE caller[c].attempt = 3
        BY <1>0, <1>5, <2>1, <2>2, GivingUpIsTyped DEF Throttled, EdgarTypes
    <2>3. CASE caller[c].attempt # 3
        <3>1. PICK k : k = caller[c].attempt
            OBVIOUS
        <3>2. k \in 0 .. 2 /\ ticks \in Nat
            BY <1>0, <2>3, <3>1 DEF CallerRecord
        <3>3. ticks + Backoff * k \in Nat /\ k + 1 \in 0 .. 3
            <4>1. \A a, b, t \in Nat : t + a * b \in Nat
                BY ONLY TRUE
            <4> QED BY <1>0, <3>2, <4>1
        <3>4. caller' = [caller EXCEPT ![c] =
                            [@ EXCEPT !.pc = "backoff", !.attempt = k + 1,
                                      !.wake = ticks + Backoff * k]]
            BY <1>0, <1>5, <2>3, <3>1 DEF Throttled
        <3>5. caller' \in [Callers -> CallerRecord]
            BY <1>0, <3>3, <3>4 DEF CallerRecord, CallerPC
        <3> QED BY <1>0, <2>1, <3>5 DEF EdgarTypes
    <2> QED BY <2>2, <2>3
<1>6. ASSUME NEW c \in Callers, Refuses(c) PROVE EdgarTypes'
    BY <1>0, <1>6, GivingUpIsTyped DEF Refuses, EdgarTypes
<1>7. CASE UNCHANGED edgarVars
    BY <1>0, <1>7 DEF edgarVars, EdgarTypes
<1> QED BY <1>1, <1>2, <1>3, <1>4, <1>5, <1>6, <1>7 DEF EdgarNext

LEMMA EdgarTyped == EdgarTypes => EdgarTypeOK
BY DEF EdgarTypes, EdgarTypeOK, CallerRecord

-----------------------------------------------------------------------------
(* The services together, as they are checked.                             *)

ServicesInv ==
    /\ RetrievalTypes /\ FusionInv /\ EnforcerTypes /\ VerdictInv /\ ChunkerInv
    /\ NormalizerTypeOK /\ NormalizedOrRefused /\ ViewsInv /\ EdgarTypes /\ PaceInv
    /\ InboxInv /\ ClockBound /\ ReportInv

LEMMA ServicesStep == ServicesInv /\ [Next]_vars => ServicesInv'
<1> SUFFICES ASSUME ServicesInv, [Next]_vars PROVE ServicesInv'
    OBVIOUS
<1>1. /\ [RetrievalNext]_retrievalVars /\ [EnforcerNext]_enforcerVars
      /\ [ChunkerNext]_chunkerVars /\ [NormalizerNext]_item
      /\ [ViewsNext]_viewVars /\ [EdgarNext]_edgarVars
      /\ [InboxNext]_inboxVars /\ [ReportNext]_reportVars
    BY DEF Next, vars
<1>2. RetrievalTypes' /\ FusionInv' /\ EnforcerTypes' /\ VerdictInv' /\ ChunkerInv'
    BY <1>1, RetrievalTypesStep, FusionStep, EnforcerTypesStep, VerdictStep, ChunkerStep
    DEF ServicesInv
<1>3. NormalizerTypeOK' /\ NormalizedOrRefused' /\ ViewsInv' /\ EdgarTypes' /\ PaceInv'
    BY <1>1, NormalizerTypesStep, MeaningStep, ViewsStep, EdgarTypesStep, PaceStep
    DEF ServicesInv
<1>4. InboxInv' /\ ClockBound' /\ ReportInv'
    BY <1>1, InboxInvNext, ClockBoundStep, ReportStep DEF ServicesInv
<1> QED BY <1>2, <1>3, <1>4 DEF ServicesInv

\* What is proved of each part holds of the specification that composes them,
\* and every variable has its type.
THEOREM ServicesTogether ==
    Spec => [](/\ TypeOK /\ BothListsFirst /\ EnforcerIsStricter /\ ChildrenCover
               /\ NormalizedOrRefused /\ ViewsAgree /\ RequestsPaced /\ UnreadKept
               /\ FootnotesResolve)
<1>1. Init => ServicesInv
    BY RetrievalTypesInit, FusionInit, EnforcerTypesInit, VerdictInit, ChunkerBegins,
       NormalizerTypesInit, MeaningInit, ViewsStart, EdgarTypesInit, PaceInit, InboxInvInit,
       ClockBoundInit, ReportBegins DEF Init, ServicesInv
<1>2. ServicesInv => TypeOK
    BY RetrievalTyped, EnforcerTyped, EdgarTyped, InboxTyped
    DEF ServicesInv, TypeOK, ChunkerInv, ViewsInv, ReportInv
<1>3. ServicesInv => /\ BothListsFirst /\ EnforcerIsStricter /\ ChildrenCover
                     /\ NormalizedOrRefused
    BY VerdictIsStrict DEF ServicesInv, FusionInv, ChunkerInv
<1>4. ServicesInv => ViewsAgree /\ RequestsPaced /\ UnreadKept /\ FootnotesResolve
    BY InboxIsKept, ReportIsResolved DEF ServicesInv, ViewsInv, PaceInv
<1> QED BY <1>1, <1>2, <1>3, <1>4, ServicesStep, PTL DEF Spec
=============================================================================
