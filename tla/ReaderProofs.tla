---------------------------- MODULE ReaderProofs ----------------------------
(***************************************************************************)
(* Theorems about what users read: an inbox, whatever was pushed, trimmed  *)
(* and marked as read and in whatever order; the series of a KPI, which    *)
(* its readers each order for themselves; and the footnotes of a report.   *)
(***************************************************************************)
EXTENDS Inbox, KpiViews, ReportGenerator, FiniteSetTheorems, WellFoundedInduction, TLAPS

Notice == [id : Notices, score : Nat]
Entry == [id : Notices, score : Nat, read : BOOLEAN]

Noted(m) == [id |-> m.id, score |-> m.score]
Higher(S, score) == {x \in S : x.score > score}
Named(S, n) == {x \in S : x.id = n}
UnreadOf(I) == {m \in I : ~m.read}

\* What was pushed to one user: each notification once, each with a time stamp
\* of its own.
Pushes(P) ==
    /\ P \subseteq Notice /\ IsFiniteSet(P)
    /\ \A x, y \in P : x.id = y.id \/ x.score = y.score => x = y

\* Its inbox I, what was pushed P, and what was marked M.
Kept(I, P, M) ==
    /\ I \subseteq Entry
    /\ \A m \in I : Noted(m) \in P
    /\ \A m, k \in I : m.id = k.id => m = k
    /\ \A m \in I : m.read <=> m.id \in M
    /\ IsFiniteSet(M) /\ \A n \in M : Named(P, n) # {}
    /\ \A x \in Newest(P, MaxInbox) : Named(I, x.id) # {}
    /\ IsFiniteSet(I) /\ Cardinality(UnreadOf(I)) <= MaxInbox

-----------------------------------------------------------------------------
(* Counting.                                                               *)

\* At most k members have fewer than k above them, if no two have one score:
\* each of them has a number of its own above it.
LEMMA NewestBound ==
    ASSUME NEW S, IsFiniteSet(S), NEW k \in Nat,
           \A x \in S : x.score \in Nat,
           \A x, y \in S : x.score = y.score => x = y
    PROVE  IsFiniteSet(Newest(S, k)) /\ Cardinality(Newest(S, k)) <= k
<1> DEFINE Above == [m \in Newest(S, k) |-> Cardinality(Higher(S, m.score))]
<1>1. \A m \in S : IsFiniteSet(Higher(S, m.score)) /\ Cardinality(Higher(S, m.score)) \in Nat
  <2> TAKE m \in S
  <2>1. Higher(S, m.score) \in SUBSET S
    BY DEF Higher
  <2> QED BY <2>1, FS_Subset, FS_CardinalityType
<1>2. \A m \in Newest(S, k) : m \in S /\ Cardinality(Higher(S, m.score)) < k
  BY DEF Newest, Higher
<1>3. Above \in [Newest(S, k) -> 0 .. k - 1]
  BY <1>1, <1>2
<1>4. ASSUME NEW m \in S, NEW x \in S, x.score > m.score
      PROVE  Cardinality(Higher(S, x.score)) # Cardinality(Higher(S, m.score))
  <2>1. Higher(S, x.score) \in SUBSET Higher(S, m.score)
    BY <1>4 DEF Higher
  <2>2. x \in Higher(S, m.score) /\ x \notin Higher(S, x.score)
    BY <1>4 DEF Higher
  <2> QED BY <1>1, <2>1, <2>2, FS_Subset
<1>5. ASSUME NEW m \in Newest(S, k), NEW x \in Newest(S, k), Above[m] = Above[x]
      PROVE  m = x
  <2>1. m \in S /\ x \in S /\ Cardinality(Higher(S, m.score)) = Cardinality(Higher(S, x.score))
    BY <1>2, <1>5
  <2>2. ~(x.score > m.score) /\ ~(m.score > x.score)
    BY <1>4, <2>1
  <2>3. x.score = m.score
    BY <2>1, <2>2
  <2> QED BY <2>1, <2>3
<1>6. Above \in Injection(Newest(S, k), 0 .. k - 1)
  <2> HIDE DEF Above
  <2> QED BY <1>3, <1>5 DEF Injection, IsInjective
<1>7. IsFiniteSet(0 .. k - 1) /\ Cardinality(0 .. k - 1) = k
  BY FS_Interval
<1> HIDE DEF Above
<1> QED BY <1>6, <1>7, FS_Injection

\* A set of entries has no more members than the notices they are of.
LEMMA NoMoreThanNotices ==
    ASSUME NEW I, NEW P, IsFiniteSet(P),
           \A m \in I : Noted(m) \in P,
           \A m, k \in I : m.id = k.id => m = k
    PROVE  IsFiniteSet(I) /\ Cardinality(I) <= Cardinality(P)
<1> DEFINE Of == [m \in I |-> Noted(m)]
<1>1. Of \in [I -> P]
  OBVIOUS
<1>2. \A m, k \in I : Of[m] = Of[k] => m = k
  BY DEF Noted
<1>3. Of \in Injection(I, P)
  <2> HIDE DEF Of
  <2> QED BY <1>1, <1>2 DEF Injection, IsInjective
<1> HIDE DEF Of
<1> QED BY <1>3, FS_Injection

\* The entries above a score are no more than the notices above it.
LEMMA HigherFewer ==
    ASSUME NEW I, NEW P, NEW score, IsFiniteSet(P),
           \A m \in I : Noted(m) \in P,
           \A m, k \in I : m.id = k.id => m = k
    PROVE  Cardinality(Higher(I, score)) <= Cardinality(Higher(P, score))
<1>1. Higher(P, score) \in SUBSET P
  BY DEF Higher
<1>2. IsFiniteSet(Higher(P, score))
  BY <1>1, FS_Subset
<1>3. \A m \in Higher(I, score) : Noted(m) \in Higher(P, score)
  BY DEF Higher, Noted
<1>4. \A m, k \in Higher(I, score) : m.id = k.id => m = k
  BY DEF Higher
<1> QED BY <1>2, <1>3, <1>4, NoMoreThanNotices

-----------------------------------------------------------------------------
(* One inbox.                                                              *)

LEMMA KeptAtFirst == Pushes({}) /\ Kept({}, {}, {})
<1>1. IsFiniteSet({}) /\ Cardinality({}) = 0
  BY FS_EmptySet
<1>2. UnreadOf({}) = {} /\ Newest({}, MaxInbox) = {}
  BY DEF UnreadOf, Newest
<1>3. Pushes({})
  BY <1>1 DEF Pushes
<1>4. MaxInbox \in Nat
  BY InboxAssumption
<1>5. Cardinality(UnreadOf({})) <= MaxInbox
  BY <1>1, <1>2, <1>4
<1>6. \A x \in Newest({}, MaxInbox) : Named({}, x.id) # {}
  BY <1>2
<1> QED BY <1>1, <1>3, <1>5, <1>6 DEF Kept

\* A push of a notification that this user did not get before, with a time
\* stamp that no other has: what is trimmed is not among the newest pushed.
LEMMA KeptByPush ==
    ASSUME NEW I, NEW P, NEW M, Pushes(P), Kept(I, P, M),
           NEW n \in Notices, NEW s \in Nat,
           \A x \in P : x.id # n /\ x.score # s
    PROVE  LET P1 == P \cup {[id |-> n, score |-> s]}
           IN  /\ Pushes(P1)
               /\ Kept(Trimmed(I \cup {[id |-> n, score |-> s, read |-> FALSE]}), P1, M)
<1> DEFINE notice == [id |-> n, score |-> s]
           entry == [id |-> n, score |-> s, read |-> FALSE]
           P1 == P \cup {notice}
           I0 == I \cup {entry}
           I1 == Trimmed(I0)
<1>0. MaxInbox \in Nat
  BY InboxAssumption
<1>1. Pushes(P1)
  <2>1. IsFiniteSet(P1)
    BY FS_AddElement DEF Pushes
  <2>2. notice \in Notice
    BY DEF Notice
  <2> QED BY <2>1, <2>2 DEF Pushes, Notice
<1>a. entry \in Entry /\ entry.id = n /\ Noted(entry) = notice /\ ~entry.read
  BY DEF Entry, Noted
<1>b. notice.id = n /\ notice.score = s
  OBVIOUS
<1> HIDE DEF entry, notice
<1>2. /\ I0 \subseteq Entry
      /\ \A m \in I0 : Noted(m) \in P1
  BY <1>a DEF Kept
<1>3. \A m \in I : m.id # n
  BY DEF Kept, Noted
<1>4. \A m, k \in I0 : m.id = k.id => m = k
  BY <1>3, <1>a DEF Kept
<1>5. n \notin M
  BY DEF Kept, Named
<1>6. \A m \in I0 : m.read <=> m.id \in M
  BY <1>5, <1>a DEF Kept
<1>7. I1 \subseteq I0
  BY DEF Trimmed, Newest
<1>8. \A x \in Newest(P1, MaxInbox) : Named(I1, x.id) # {}
  <2> SUFFICES ASSUME NEW x \in Newest(P1, MaxInbox)
               PROVE  \E m \in I1 : m.id = x.id
    BY DEF Named
  <2>1. x \in P1 /\ Cardinality(Higher(P1, x.score)) < MaxInbox
    BY DEF Newest, Higher
  <2>2. \E m \in I0 : m.id = x.id
    <3>1. CASE x = notice
      BY <3>1, <1>a, <1>b
    <3>2. CASE x \in P
      <4>1. Higher(P, x.score) \in SUBSET Higher(P1, x.score)
        BY DEF Higher
      <4>2. Higher(P1, x.score) \in SUBSET P1
        BY DEF Higher
      <4>3. IsFiniteSet(Higher(P1, x.score)) /\ IsFiniteSet(Higher(P, x.score))
        BY <1>1, <4>1, <4>2, FS_Subset DEF Pushes
      <4>4. Cardinality(Higher(P, x.score)) <= Cardinality(Higher(P1, x.score))
        BY <4>1, <4>3, FS_Subset
      <4>5. Cardinality(Higher(P, x.score)) < MaxInbox
        BY <1>0, <2>1, <4>3, <4>4, FS_CardinalityType
      <4>6. x \in Newest(P, MaxInbox)
        BY <3>2, <4>5 DEF Newest, Higher
      <4> QED BY <4>6 DEF Kept, Named
    <3> QED BY <2>1, <3>1, <3>2
  <2>3. PICK m \in I0 : m.id = x.id
    BY <2>2
  <2>4. m.score = x.score
    <3>1. Noted(m) \in P1 /\ Noted(m).id = x.id
      BY <1>2, <2>3 DEF Noted
    <3>2. Noted(m) = x
      BY <1>1, <2>1, <3>1 DEF Pushes
    <3> QED BY <3>2 DEF Noted
  <2>5. Cardinality(Higher(I0, m.score)) <= Cardinality(Higher(P1, m.score))
    BY <1>1, <1>2, <1>4, HigherFewer DEF Pushes
  <2>6. Cardinality(Higher(I0, m.score)) < MaxInbox
    <3>1. IsFiniteSet(I0) /\ IsFiniteSet(P1)
      BY <1>1, <1>2, <1>4, NoMoreThanNotices DEF Pushes
    <3>2. Higher(I0, m.score) \in SUBSET I0 /\ Higher(P1, m.score) \in SUBSET P1
      BY DEF Higher
    <3>3. Cardinality(Higher(I0, m.score)) \in Nat /\ Cardinality(Higher(P1, m.score)) \in Nat
      BY <3>1, <3>2, FS_Subset, FS_CardinalityType
    <3> QED BY <1>0, <2>1, <2>4, <2>5, <3>3
  <2>7. m \in I1
    BY <2>6 DEF Trimmed, Newest, Higher
  <2> QED BY <2>3, <2>7
<1>9. IsFiniteSet(I1) /\ Cardinality(UnreadOf(I1)) <= MaxInbox
  <2>1. IsFiniteSet(I0)
    BY <1>1, <1>2, <1>4, NoMoreThanNotices DEF Pushes
  <2>2. \A m, k \in I0 : m.score = k.score => m = k
    BY <1>1, <1>2, <1>4 DEF Pushes, Noted
  <2>3. \A m \in I0 : m.score \in Nat
    BY <1>2 DEF Entry
  <2>4. IsFiniteSet(I1) /\ Cardinality(I1) <= MaxInbox
    BY <1>0, <2>1, <2>2, <2>3, NewestBound DEF Trimmed
  <2>5. UnreadOf(I1) \in SUBSET I1
    BY DEF UnreadOf
  <2>6. IsFiniteSet(UnreadOf(I1)) /\ Cardinality(UnreadOf(I1)) <= Cardinality(I1)
    BY <2>4, <2>5, FS_Subset
  <2>7. Cardinality(UnreadOf(I1)) \in Nat /\ Cardinality(I1) \in Nat
    BY <2>4, <2>6, FS_CardinalityType
  <2> HIDE DEF I1
  <2> QED BY <1>0, <2>4, <2>6, <2>7
<1>10. IsFiniteSet(M) /\ \A k \in M : Named(P1, k) # {}
  BY DEF Kept, Named
<1>11. Kept(I1, P1, M)
  <2> HIDE DEF I0, I1, P1
  <2> QED BY <1>2, <1>4, <1>6, <1>7, <1>8, <1>9, <1>10 DEF Kept
<1> QED BY <1>1, <1>11 DEF notice, entry

\* A member that was unread when it was read from the inbox is replaced by one
\* that is read, even if it was trimmed, or replaced, in the meantime.
LEMMA KeptByReplace ==
    ASSUME NEW I, NEW P, NEW M, Pushes(P), Kept(I, P, M),
           NEW n \in Notices, NEW s \in Nat, [id |-> n, score |-> s] \in P
    PROVE  Kept((I \ {[id |-> n, score |-> s, read |-> FALSE]})
                    \cup {[id |-> n, score |-> s, read |-> TRUE]}, P, M \cup {n})
<1> DEFINE m == [id |-> n, score |-> s, read |-> FALSE]
           seen == [id |-> n, score |-> s, read |-> TRUE]
           I1 == (I \ {m}) \cup {seen}
           M1 == M \cup {n}
<1>1. /\ seen \in Entry /\ seen.id = n /\ seen.read /\ Noted(seen) \in P
      /\ m.id = n /\ m.score = s /\ ~m.read
  BY DEF Entry, Noted
<1>0. \A k \in Entry : k.id = n /\ k.score = s => k = m \/ k = seen
  BY DEF Entry
<1> HIDE DEF m, seen
<1>2. /\ I1 \subseteq Entry
      /\ \A k \in I1 : Noted(k) \in P
  BY <1>1 DEF Kept
<1>3. \A k \in I \ {m} : k.id = n => k = seen
  <2> SUFFICES ASSUME NEW k \in I \ {m}, k.id = n PROVE k = seen
    OBVIOUS
  <2>1. k \in Entry /\ Noted(k) \in P
    BY DEF Kept
  <2>2. k.score = s
    BY <2>1 DEF Pushes, Noted
  <2> QED BY <1>0, <2>1, <2>2
<1>4. \A k, x \in I1 : k.id = x.id => k = x
  BY <1>1, <1>3 DEF Kept
<1>5. \A k \in I1 : k.read <=> k.id \in M1
  BY <1>1, <1>3 DEF Kept
<1>6. IsFiniteSet(M1) /\ \A k \in M1 : Named(P, k) # {}
  <2>1. IsFiniteSet(M1)
    BY FS_AddElement DEF Kept
  <2>2. Named(P, n) # {}
    BY DEF Named
  <2> QED BY <2>1, <2>2 DEF Kept
<1>7. \A x \in Newest(P, MaxInbox) : Named(I1, x.id) # {}
  BY <1>1 DEF Kept, Named
<1>8. IsFiniteSet(I1)
  BY <1>2, <1>4, NoMoreThanNotices DEF Pushes
<1>9. Cardinality(UnreadOf(I1)) <= MaxInbox
  <2>1. UnreadOf(I1) \in SUBSET UnreadOf(I)
    BY <1>1 DEF UnreadOf
  <2>2. UnreadOf(I) \in SUBSET I
    BY DEF UnreadOf
  <2>3. IsFiniteSet(UnreadOf(I)) /\ IsFiniteSet(UnreadOf(I1))
    BY <2>1, <2>2, FS_Subset DEF Kept
  <2>4. Cardinality(UnreadOf(I1)) <= Cardinality(UnreadOf(I))
    BY <2>1, <2>3, FS_Subset
  <2> QED BY <2>3, <2>4, InboxAssumption, FS_CardinalityType DEF Kept
<1>10. Kept(I1, P, M1)
  <2> HIDE DEF I1, M1
  <2> QED BY <1>2, <1>4, <1>5, <1>6, <1>7, <1>8, <1>9 DEF Kept
<1> QED BY <1>10 DEF m, seen

\* What Kept means for a reader of the inbox.
LEMMA KeptMeans ==
    ASSUME NEW I, NEW P, NEW M, Pushes(P), Kept(I, P, M)
    PROVE  /\ \A x \in Newest(P, MaxInbox) :
                /\ Cardinality({m \in I : m.id = x.id}) = 1
                /\ x.id \in {m.id : m \in {k \in I : ~k.read}} <=> x.id \notin M
           /\ Cardinality(I) <= MaxInbox + Cardinality(M)
<1>1. ASSUME NEW x \in Newest(P, MaxInbox)
      PROVE  /\ Cardinality({m \in I : m.id = x.id}) = 1
             /\ x.id \in {m.id : m \in {k \in I : ~k.read}} <=> x.id \notin M
  <2>1. PICK m \in I : m.id = x.id
    BY <1>1 DEF Kept, Named
  <2>2. {k \in I : k.id = x.id} = {m}
    BY <2>1 DEF Kept
  <2>3. x.id \in {k.id : k \in {z \in I : ~z.read}} <=> ~m.read
    BY <2>1 DEF Kept
  <2> QED BY <2>1, <2>2, <2>3, FS_Singleton DEF Kept
<1>2. Cardinality(I) <= MaxInbox + Cardinality(M)
  <2> DEFINE R == {m \in I : m.read}
             Of == [m \in R |-> m.id]
  <2>1. Of \in [R -> M] /\ \A m, k \in R : Of[m] = Of[k] => m = k
    BY DEF Kept
  <2>2. Of \in Injection(R, M)
    <3> HIDE DEF Of, R
    <3> QED BY <2>1 DEF Injection, IsInjective
  <2>3. IsFiniteSet(R) /\ Cardinality(R) <= Cardinality(M)
    <3> HIDE DEF Of, R
    <3> QED BY <2>2, FS_Injection DEF Kept
  <2>4. UnreadOf(I) \in SUBSET I /\ UnreadOf(I) \cup R = I /\ UnreadOf(I) \cap R = {}
    BY DEF UnreadOf
  <2>5. IsFiniteSet(UnreadOf(I))
    BY <2>4, FS_Subset DEF Kept
  <2> HIDE DEF R
  <2>6. Cardinality(I) = Cardinality(UnreadOf(I)) + Cardinality(R) - Cardinality({})
    BY <2>3, <2>4, <2>5, FS_Union
  <2>7. Cardinality({}) = 0 /\ Cardinality(R) \in Nat /\ Cardinality(UnreadOf(I)) \in Nat
        /\ Cardinality(M) \in Nat /\ Cardinality(UnreadOf(I)) <= MaxInbox
    BY <2>3, <2>5, FS_EmptySet, FS_CardinalityType DEF Kept
  <2> QED BY <2>3, <2>6, <2>7, InboxAssumption
<1> QED BY <1>1, <1>2

-----------------------------------------------------------------------------
(* All inboxes.                                                            *)

Notifier == [pc : {"idle", "stamp", "push", "sent", "failed"}, at : Nat, score : Nat]
Replacing == [pc : {"replace"}, user : Users, member : [id : Notices, score : Nat, read : {FALSE}]]

InboxTypes ==
    /\ inbox \in [Users -> SUBSET Entry]
    /\ pushed \in [Users -> SUBSET Notice]
    /\ marked \in [Users -> SUBSET Notices]
    /\ notifier \in [Notices -> Notifier]
    /\ marker \in [Requests -> {NotAsked, [pc |-> "done"]} \cup Replacing]
    /\ now \in Nat

\* Time stamps are in the past, and no two pushes have one.
StampsDiffer ==
    /\ \A u \in Users : \A x \in pushed[u] : x.score <= now
    /\ \A n \in Notices : notifier[n].score <= now
    /\ \A n \in Notices : notifier[n].pc = "push" =>
        /\ \A u \in Users : \A x \in pushed[u] : x.score # notifier[n].score
        /\ \A k \in Notices : notifier[k].pc = "push" /\ notifier[k].score = notifier[n].score
                                => k = n

\* A worker pushes its notification to one recipient after the other.
PushesInTurn ==
    \A n \in Notices :
        /\ notifier[n].pc = "idle" => notifier[n].at = 1
        /\ notifier[n].pc \in {"stamp", "push"} => notifier[n].at \in DOMAIN Recipients
        /\ notifier[n].pc \in {"idle", "stamp", "push"} =>
            \A u \in Users : \A x \in pushed[u] :
                x.id = n => \E i \in 1 .. notifier[n].at - 1 : Recipients[i] = u

\* What a request read from an inbox was pushed to it.
ReadWasPushed ==
    \A r \in Requests : marker[r].pc = "replace" =>
        Noted(marker[r].member) \in pushed[marker[r].user]

AllKept ==
    \A u \in Users : Pushes(pushed[u]) /\ Kept(inbox[u], pushed[u], marked[u])

InboxInv == InboxTypes /\ StampsDiffer /\ PushesInTurn /\ ReadWasPushed /\ AllKept

LEMMA RecipientsAreUsers ==
    /\ Len(Recipients) \in Nat /\ DOMAIN Recipients = 1 .. Len(Recipients)
    /\ \A i \in DOMAIN Recipients : Recipients[i] \in Users
    /\ Recipients # <<>> => Len(Recipients) >= 1
  BY InboxAssumption DEF Users

\* A notifier on its own.
LEMMA NotifierMoves ==
    ASSUME NEW w \in Notifier, NEW k \in Nat
    PROVE  [w EXCEPT !.pc = "push", !.score = k] \in Notifier
  BY DEF Notifier

LEMMA InboxInvInit == InboxInit => InboxInv
<1> SUFFICES ASSUME InboxInit PROVE InboxInv
  OBVIOUS
<1>1. InboxTypes
  BY DEF InboxInit, InboxTypes, Notifier
<1>2. StampsDiffer /\ PushesInTurn
  BY DEF InboxInit, StampsDiffer, PushesInTurn
<1>3. ReadWasPushed
  BY DEF InboxInit, ReadWasPushed, NotAsked
<1>4. AllKept
  BY KeptAtFirst DEF InboxInit, AllKept
<1> QED BY <1>1, <1>2, <1>3, <1>4 DEF InboxInv

\* Steps that change no inbox.
LEMMA NotifySteps ==
    ASSUME InboxInv, NEW n \in Notices, Notify(n) \/ Stamp(n) \/ NotifierFails(n)
    PROVE  InboxInv'
<1> USE DEF InboxInv
<1>1. inbox' = inbox /\ pushed' = pushed /\ marked' = marked /\ marker' = marker
  BY DEF Notify, Stamp, NotifierFails
<1>2. AllKept' /\ ReadWasPushed'
  BY <1>1 DEF AllKept, ReadWasPushed
<1>3. CASE Notify(n)
  <2>1. now' = now /\ notifier[n].pc = "idle" /\ notifier[n] \in Notifier
    BY <1>3 DEF Notify, InboxTypes
  <2> DEFINE pc == IF Recipients = <<>> THEN "sent" ELSE "stamp"
  <2>2. notifier' = [notifier EXCEPT ![n] = [@ EXCEPT !.pc = pc]]
    BY <1>3 DEF Notify
  <2>a. pc \in {"sent", "stamp"} /\ (pc = "stamp" => Recipients # <<>>)
    OBVIOUS
  <2> HIDE DEF pc
  <2>3. InboxTypes'
    BY <1>1, <2>1, <2>2, <2>a DEF InboxTypes, Notifier
  <2>4. StampsDiffer'
    BY <1>1, <2>1, <2>2, <2>a DEF StampsDiffer, InboxTypes, Notifier
  <2>5. PushesInTurn'
    BY <1>1, <2>1, <2>2, <2>a, RecipientsAreUsers DEF PushesInTurn, InboxTypes, Notifier
  <2> QED BY <1>2, <2>3, <2>4, <2>5
<1>4. CASE Stamp(n)
  <2>1. now' = now + 1 /\ notifier[n].pc = "stamp" /\ notifier[n] \in Notifier /\ now \in Nat
    BY <1>4 DEF Stamp, InboxTypes
  <2>2. notifier' = [notifier EXCEPT ![n] = [@ EXCEPT !.pc = "push", !.score = now + 1]]
    BY <1>4, <2>1 DEF Stamp
  <2>3. InboxTypes'
    <3>1. [notifier[n] EXCEPT !.pc = "push", !.score = now + 1] \in Notifier
      <4>1. now + 1 \in Nat
        BY <2>1
      <4> QED BY <2>1, <4>1, NotifierMoves, Zenon
    <3> QED BY <1>1, <2>1, <2>2, <3>1 DEF InboxTypes
  <2>4. StampsDiffer'
    <3>1. /\ \A u \in Users : \A x \in pushed[u] : x.score \in Nat
          /\ \A k \in Notices : notifier[k].score \in Nat
      BY DEF InboxTypes, Notice, Notifier
    <3> QED BY <1>1, <2>1, <2>2, <3>1 DEF StampsDiffer, InboxTypes, Notifier
  <2>5. PushesInTurn'
    BY <1>1, <2>1, <2>2 DEF PushesInTurn, InboxTypes, Notifier
  <2> QED BY <1>2, <2>3, <2>4, <2>5
<1>5. CASE NotifierFails(n)
  <2>1. now' = now /\ notifier[n] \in Notifier
    BY <1>5 DEF NotifierFails, InboxTypes
  <2>2. notifier' = [notifier EXCEPT ![n] = [@ EXCEPT !.pc = "failed"]]
    BY <1>5 DEF NotifierFails
  <2>3. InboxTypes'
    BY <1>1, <2>1, <2>2 DEF InboxTypes, Notifier
  <2>4. StampsDiffer'
    BY <1>1, <2>1, <2>2 DEF StampsDiffer, InboxTypes, Notifier
  <2>5. PushesInTurn'
    BY <1>1, <2>1, <2>2 DEF PushesInTurn, InboxTypes, Notifier
  <2> QED BY <1>2, <2>3, <2>4, <2>5
<1> QED BY <1>3, <1>4, <1>5

LEMMA PushStep ==
    ASSUME InboxInv, NEW n \in Notices, Push(n)
    PROVE  InboxInv'
<1> USE DEF InboxInv
<1> DEFINE at == notifier[n].at
           s == notifier[n].score
           u == Recipients[at]
           notice == [id |-> n, score |-> s]
           entry == [id |-> n, score |-> s, read |-> FALSE]
<1>1. /\ notifier[n].pc = "push" /\ notifier[n] \in Notifier
      /\ at \in DOMAIN Recipients /\ s \in Nat /\ u \in Users
  BY RecipientsAreUsers DEF Push, InboxTypes, PushesInTurn, Notifier
<1>2. /\ inbox' = [inbox EXCEPT ![u] = Trimmed(@ \cup {entry})]
      /\ pushed' = [pushed EXCEPT ![u] = @ \cup {notice}]
      /\ marker' = marker /\ now' = now /\ marked' = marked
  BY DEF Push
<1>3. PICK next \in Notifier :
        /\ notifier' = [notifier EXCEPT ![n] = next]
        /\ next.score = s /\ next.at = at + 1
        /\ next.pc \in {"sent", "stamp"} /\ (next.pc = "stamp" => at # Len(Recipients))
  <2> DEFINE pc == IF at = Len(Recipients) THEN "sent" ELSE "stamp"
  <2>1. notifier' = [notifier EXCEPT ![n] = [pc |-> pc, at |-> at + 1, score |-> s]]
    BY DEF Push
  <2>2. pc \in {"sent", "stamp"} /\ (pc = "stamp" => at # Len(Recipients))
    OBVIOUS
  <2> HIDE DEF pc
  <2>3. [pc |-> pc, at |-> at + 1, score |-> s] \in Notifier
    BY <1>1, <2>2, RecipientsAreUsers DEF Notifier
  <2> QED BY <2>1, <2>2, <2>3
<1>4. \A x \in pushed[u] : x.id # n /\ x.score # s
  <2> SUFFICES ASSUME NEW x \in pushed[u] PROVE x.id # n /\ x.score # s
    OBVIOUS
  <2>1. x.score # s
    BY <1>1 DEF StampsDiffer
  <2>2. ASSUME x.id = n PROVE FALSE
    <3>1. PICK i \in 1 .. at - 1 : Recipients[i] = u
      BY <1>1, <2>2 DEF PushesInTurn
    <3>2. i \in DOMAIN Recipients /\ i # at
      BY <1>1, <3>1, RecipientsAreUsers
    <3> QED BY <1>1, <3>1, <3>2, InboxAssumption
  <2> QED BY <2>1, <2>2
<1>5. /\ Pushes(pushed[u] \cup {notice})
      /\ Kept(Trimmed(inbox[u] \cup {entry}), pushed[u] \cup {notice}, marked[u])
  <2>1. Pushes(pushed[u]) /\ Kept(inbox[u], pushed[u], marked[u])
    BY <1>1 DEF AllKept
  <2> HIDE DEF u, s
  <2> QED BY <1>1, <1>4, <2>1, KeptByPush
<1> HIDE DEF u, s, notice, entry
<1>6. /\ \A v \in Users : v # u => inbox'[v] = inbox[v] /\ pushed'[v] = pushed[v]
      /\ inbox'[u] = Trimmed(inbox[u] \cup {entry}) /\ pushed'[u] = pushed[u] \cup {notice}
  BY <1>1, <1>2 DEF InboxTypes
<1>7. notice \in Notice /\ notice.id = n /\ notice.score = s
  BY <1>1 DEF notice, Notice
<1>8. AllKept'
  <2> SUFFICES ASSUME NEW v \in Users
               PROVE  Pushes(pushed'[v]) /\ Kept(inbox'[v], pushed'[v], marked'[v])
    BY DEF AllKept
  <2>1. CASE v = u
    BY <1>2, <1>5, <1>6, <2>1
  <2>2. CASE v # u
    BY <1>2, <1>6, <2>2 DEF AllKept
  <2> QED BY <2>1, <2>2
<1>9. InboxTypes'
  <2>1. inbox' \in [Users -> SUBSET Entry] /\ pushed' \in [Users -> SUBSET Notice]
    <3>1. \A v \in Users : inbox'[v] \subseteq Entry /\ pushed'[v] \subseteq Notice
      BY <1>8 DEF AllKept, Pushes, Kept
    <3> QED BY <1>2, <3>1 DEF InboxTypes
  <2>2. notifier' \in [Notices -> Notifier]
    BY <1>1, <1>3 DEF InboxTypes
  <2> QED BY <1>2, <2>1, <2>2 DEF InboxTypes
<1>10. StampsDiffer'
  <2>1. s <= now
    BY <1>1 DEF StampsDiffer, s
  <2>2. \A v \in Users : \A x \in pushed'[v] : x \in pushed[v] \/ x = notice
    BY <1>6
  <2>3. \A k \in Notices : /\ notifier'[k].score = notifier[k].score
                           /\ notifier'[k].pc = "push" => notifier[k].pc = "push" /\ k # n
    <3> TAKE k \in Notices
    <3>1. CASE k = n
      <4>1. notifier'[k] = next
        BY <1>3, <3>1 DEF InboxTypes
      <4> QED BY <1>3, <3>1, <4>1 DEF s
    <3>2. CASE k # n
      BY <1>3, <3>2 DEF InboxTypes
    <3> QED BY <3>1, <3>2
  <2>4. \A k \in Notices : notifier[k].pc = "push" /\ k # n => notifier[k].score # s
    BY <1>1 DEF StampsDiffer, s
  <2> QED BY <1>2, <1>7, <2>1, <2>2, <2>3, <2>4 DEF StampsDiffer
<1>11. PushesInTurn'
  <2> SUFFICES ASSUME NEW k \in Notices
               PROVE  /\ notifier'[k].pc = "idle" => notifier'[k].at = 1
                      /\ notifier'[k].pc \in {"stamp", "push"} => notifier'[k].at \in DOMAIN Recipients
                      /\ notifier'[k].pc \in {"idle", "stamp", "push"} =>
                          \A v \in Users : \A x \in pushed'[v] :
                              x.id = k => \E i \in 1 .. notifier'[k].at - 1 : Recipients[i] = v
    BY DEF PushesInTurn
  <2>1. CASE k # n
    <3>1. notifier'[k] = notifier[k]
      BY <1>3, <2>1 DEF InboxTypes
    <3>2. \A v \in Users : \A x \in pushed'[v] : x.id = k => x \in pushed[v]
      BY <1>6, <1>7, <2>1
    <3> QED BY <3>1, <3>2 DEF PushesInTurn
  <2>2. CASE k = n /\ next.pc = "sent"
    <3>1. notifier'[k].pc = "sent"
      BY <1>3, <2>2 DEF InboxTypes
    <3> QED BY <3>1
  <2>3. CASE k = n /\ next.pc = "stamp"
    <3>1. notifier'[k].pc = "stamp" /\ notifier'[k].at = at + 1
      BY <1>3, <2>3 DEF InboxTypes
    <3>2. at \in 1 .. Len(Recipients) - 1
      BY <1>1, <1>3, <2>3, RecipientsAreUsers
    <3>3. ASSUME NEW v \in Users, NEW x \in pushed'[v], x.id = n
          PROVE  \E i \in 1 .. at : Recipients[i] = v
      <4>1. CASE x \in pushed[v]
        <5>1. PICK i \in 1 .. at - 1 : Recipients[i] = v
          BY <1>1, <3>3, <4>1 DEF PushesInTurn
        <5>2. i \in 1 .. at
          BY <3>2, <5>1
        <5> QED BY <5>1, <5>2
      <4>2. CASE x \notin pushed[v]
        <5>1. v = u
          BY <1>6, <4>2
        <5> QED BY <3>2, <5>1 DEF u
      <4> QED BY <4>1, <4>2
    <3> QED BY <2>3, <3>1, <3>2, <3>3, RecipientsAreUsers
  <2> QED BY <1>3, <2>1, <2>2, <2>3
<1>12. ReadWasPushed'
  <2>1. \A v \in Users : pushed[v] \subseteq pushed'[v]
    BY <1>6
  <2>2. \A r \in Requests : marker[r].pc = "replace" => marker[r].user \in Users
    <3> TAKE r \in Requests
    <3>1. marker[r] = NotAsked \/ marker[r] = [pc |-> "done"] \/ marker[r] \in Replacing
      BY DEF InboxTypes
    <3>2. marker[r] \in Replacing => marker[r].user \in Users
      BY DEF Replacing
    <3>3. NotAsked.pc # "replace" /\ [pc |-> "done"].pc # "replace"
      BY DEF NotAsked
    <3> QED BY <3>1, <3>2, <3>3
  <2> QED BY <1>2, <2>1, <2>2 DEF ReadWasPushed
<1> QED BY <1>8, <1>9, <1>10, <1>11, <1>12

LEMMA ReadInboxStep ==
    ASSUME InboxInv, NEW r \in Requests, NEW u \in Users, NEW n \in Notices, ReadInbox(r, u, n)
    PROVE  InboxInv'
<1> USE DEF InboxInv
<1>1. PICK m \in inbox[u] :
        /\ m.id = n /\ ~m.read
        /\ marker' = [marker EXCEPT ![r] = [pc |-> "replace", user |-> u, member |-> m]]
  BY DEF ReadInbox
<1>2. /\ inbox' = inbox /\ notifier' = notifier /\ now' = now
      /\ pushed' = pushed /\ marked' = marked
  BY DEF ReadInbox
<1>3. m \in Entry /\ Noted(m) \in pushed[u]
  BY DEF AllKept, Kept
<1>4. m \in [id : Notices, score : Nat, read : {FALSE}]
  BY <1>1, <1>3 DEF Entry
<1>5. InboxTypes'
  BY <1>1, <1>2, <1>4 DEF InboxTypes, Replacing
<1>6. StampsDiffer' /\ PushesInTurn' /\ AllKept'
  BY <1>2 DEF StampsDiffer, PushesInTurn, AllKept
<1>7. ReadWasPushed'
  BY <1>1, <1>2, <1>3 DEF ReadWasPushed, InboxTypes
<1> QED BY <1>5, <1>6, <1>7

LEMMA ReplaceStep ==
    ASSUME InboxInv, NEW r \in Requests, ReplaceMember(r)
    PROVE  InboxInv'
<1> USE DEF InboxInv
<1>1. marker[r] \in Replacing /\ Noted(marker[r].member) \in pushed[marker[r].user]
  BY DEF ReplaceMember, ReadWasPushed, InboxTypes, NotAsked
<1>2. PICK u \in Users, n \in Notices, s \in Nat :
        /\ marker[r].user = u
        /\ marker[r].member = [id |-> n, score |-> s, read |-> FALSE]
  BY <1>1 DEF Replacing
<1> DEFINE m == [id |-> n, score |-> s, read |-> FALSE]
           seen == [id |-> n, score |-> s, read |-> TRUE]
<1>3. [id |-> n, score |-> s] \in pushed[u]
  BY <1>1, <1>2 DEF Noted
<1>4. /\ inbox' = [inbox EXCEPT ![u] = (@ \ {m}) \cup {seen}]
      /\ marked' = [marked EXCEPT ![u] = @ \cup {n}]
  BY <1>2 DEF ReplaceMember
<1>5. /\ marker' = [marker EXCEPT ![r] = [pc |-> "done"]]
      /\ notifier' = notifier /\ now' = now /\ pushed' = pushed
  BY DEF ReplaceMember
<1>6. Kept((inbox[u] \ {m}) \cup {seen}, pushed[u], marked[u] \cup {n})
  BY <1>3, KeptByReplace DEF AllKept
<1> HIDE DEF m, seen
<1>7. /\ \A v \in Users : v # u => inbox'[v] = inbox[v] /\ marked'[v] = marked[v]
      /\ inbox'[u] = (inbox[u] \ {m}) \cup {seen} /\ marked'[u] = marked[u] \cup {n}
  BY <1>4 DEF InboxTypes
<1>8. AllKept'
  <2> SUFFICES ASSUME NEW v \in Users
               PROVE  Pushes(pushed'[v]) /\ Kept(inbox'[v], pushed'[v], marked'[v])
    BY DEF AllKept
  <2>1. CASE v = u
    BY <1>5, <1>6, <1>7, <2>1 DEF AllKept
  <2>2. CASE v # u
    BY <1>5, <1>7, <2>2 DEF AllKept
  <2> QED BY <2>1, <2>2
<1>9. InboxTypes'
  <2>1. seen \in Entry
    BY DEF seen, Entry
  <2> QED BY <1>4, <1>5, <2>1 DEF InboxTypes
<1>10. StampsDiffer' /\ PushesInTurn'
  BY <1>5 DEF StampsDiffer, PushesInTurn
<1>11. ReadWasPushed'
  BY <1>5 DEF ReadWasPushed, InboxTypes
<1> QED BY <1>8, <1>9, <1>10, <1>11

LEMMA InboxInvNext == InboxInv /\ [InboxNext]_inboxVars => InboxInv'
<1> SUFFICES ASSUME InboxInv, [InboxNext]_inboxVars PROVE InboxInv'
  OBVIOUS
<1>1. ASSUME NEW n \in Notices, Notify(n) \/ Stamp(n) \/ Push(n) \/ NotifierFails(n)
      PROVE  InboxInv'
  BY <1>1, NotifySteps, PushStep
<1>2. ASSUME NEW r \in Requests, ReplaceMember(r) PROVE InboxInv'
  BY <1>2, ReplaceStep
<1>3. ASSUME NEW r \in Requests, NEW u \in Users, NEW n \in Notices, ReadInbox(r, u, n)
      PROVE  InboxInv'
  BY <1>3, ReadInboxStep
<1>4. CASE UNCHANGED inboxVars
  BY <1>4 DEF inboxVars, InboxInv, InboxTypes, StampsDiffer, PushesInTurn, ReadWasPushed, AllKept
<1> QED BY <1>1, <1>2, <1>3, <1>4 DEF InboxNext

LEMMA InboxIsKept == InboxInv => UnreadKept
<1> SUFFICES ASSUME InboxInv PROVE UnreadKept
  OBVIOUS
<1> SUFFICES ASSUME NEW u \in Users
             PROVE  /\ \A x \in Newest(pushed[u], MaxInbox) :
                        /\ Cardinality({m \in inbox[u] : m.id = x.id}) = 1
                        /\ x.id \in Unread(u) <=> x.id \notin marked[u]
                    /\ Cardinality(inbox[u]) <= MaxInbox + Cardinality(marked[u])
  BY DEF UnreadKept
<1>1. Pushes(pushed[u]) /\ Kept(inbox[u], pushed[u], marked[u])
  BY DEF InboxInv, AllKept
<1>2. Unread(u) = {m.id : m \in {k \in inbox[u] : ~k.read}}
  BY DEF Unread
<1> QED BY <1>1, <1>2, KeptMeans

\* However late pushes, trims and requests come in, for any number of users,
\* notifications and requests: the newest notifications of a user are in the
\* inbox once, unread until read and not after, and the inbox outgrows its
\* bound by no more than was marked.
THEOREM ReadStaysRead == InboxSpec => []UnreadKept
BY InboxInvInit, InboxInvNext, InboxIsKept, PTL DEF InboxSpec

\* The readings of the clock: each notification takes one for each recipient.
Stamped ==
    {p \in Notices \X (1 .. Len(Recipients)) :
        LET w == notifier[p[1]]
        IN p[2] < w.at \/ (p[2] = w.at /\ w.pc \in {"push", "failed"})}

ClockBound ==
    /\ \A n \in Notices : notifier[n].at \in 1 .. Len(Recipients) + 1
    /\ now <= Cardinality(Stamped)

LEMMA StampsAreFinite ==
    ASSUME NEW S \in SUBSET (Notices \X (1 .. Len(Recipients)))
    PROVE  IsFiniteSet(S) /\ Cardinality(S) \in Nat /\ Cardinality(S) <= MaxNow
<1>1. IsFiniteSet(Notices) /\ Len(Recipients) \in Nat
  BY InboxAssumption
<1>2. /\ IsFiniteSet(1 .. Len(Recipients))
      /\ Cardinality(1 .. Len(Recipients)) = Len(Recipients)
  <2>1. /\ IsFiniteSet(1 .. Len(Recipients))
        /\ Cardinality(1 .. Len(Recipients)) =
             IF 1 > Len(Recipients) THEN 0 ELSE Len(Recipients) - 1 + 1
    <3>1. 1 \in Int /\ Len(Recipients) \in Int
      BY <1>1
    <3> QED BY <3>1, FS_Interval
  <2> QED BY <1>1, <2>1
<1>3. /\ IsFiniteSet(Notices \X (1 .. Len(Recipients)))
      /\ Cardinality(Notices \X (1 .. Len(Recipients))) = MaxNow
  BY <1>1, <1>2, FS_Product DEF MaxNow
<1>4. IsFiniteSet(S) /\ Cardinality(S) <= Cardinality(Notices \X (1 .. Len(Recipients)))
  BY <1>3, FS_Subset
<1> QED BY <1>3, <1>4, FS_CardinalityType

\* As many stamps as before, or one more.
LEMMA StampsGrow ==
    ASSUME NEW S \in SUBSET (Notices \X (1 .. Len(Recipients))),
           NEW T \in SUBSET (Notices \X (1 .. Len(Recipients))), S \subseteq T
    PROVE  /\ Cardinality(S) <= Cardinality(T)
           /\ \A p \in T \ S : Cardinality(S) + 1 <= Cardinality(T)
<1>1. /\ IsFiniteSet(S) /\ Cardinality(S) \in Nat
      /\ IsFiniteSet(T) /\ Cardinality(T) \in Nat
  BY StampsAreFinite
<1>2. Cardinality(S) <= Cardinality(T)
  BY <1>1, FS_Subset
<1>3. ASSUME NEW p \in T \ S PROVE Cardinality(S) + 1 <= Cardinality(T)
  <2>1. Cardinality(S \cup {p}) = Cardinality(S) + 1
    BY <1>1, FS_AddElement
  <2>2. S \cup {p} \in SUBSET T
    OBVIOUS
  <2> QED BY <1>1, <2>1, <2>2, FS_Subset
<1> QED BY <1>2, <1>3

LEMMA ClockBoundInit == InboxInit => ClockBound
<1> SUFFICES ASSUME InboxInit PROVE ClockBound
  OBVIOUS
<1>1. Stamped \in SUBSET (Notices \X (1 .. Len(Recipients)))
  BY DEF Stamped
<1>2. Cardinality(Stamped) \in Nat
  BY <1>1, StampsAreFinite
<1>3. Len(Recipients) \in Nat
  BY RecipientsAreUsers
<1> QED BY <1>2, <1>3 DEF InboxInit, ClockBound

LEMMA ClockBoundStep == InboxInv /\ ClockBound /\ [InboxNext]_inboxVars => ClockBound'
<1> SUFFICES ASSUME InboxInv, ClockBound, [InboxNext]_inboxVars PROVE ClockBound'
  OBVIOUS
<1>1. /\ notifier \in [Notices -> Notifier] /\ now \in Nat
      /\ Len(Recipients) \in Nat /\ DOMAIN Recipients = 1 .. Len(Recipients)
      /\ \A n \in Notices : notifier[n].at \in 1 .. Len(Recipients) + 1
      /\ now <= Cardinality(Stamped)
  BY RecipientsAreUsers DEF InboxInv, InboxTypes, ClockBound
<1>2. /\ Stamped \in SUBSET (Notices \X (1 .. Len(Recipients)))
      /\ Stamped' \in SUBSET (Notices \X (1 .. Len(Recipients)))
  BY DEF Stamped
<1>3. Cardinality(Stamped) \in Nat /\ Cardinality(Stamped') \in Nat
  BY <1>2, StampsAreFinite
<1>4. ASSUME Stamped \subseteq Stamped', now' = now,
             \A n \in Notices : notifier'[n].at \in 1 .. Len(Recipients) + 1
      PROVE  ClockBound'
  <2>1. Cardinality(Stamped) <= Cardinality(Stamped')
    BY <1>2, <1>4, StampsGrow
  <2> QED BY <1>1, <1>3, <1>4, <2>1 DEF ClockBound
<1>5. ASSUME NEW n \in Notices, Stamp(n) PROVE ClockBound'
  <2>1. now' = now + 1 /\ notifier[n].pc = "stamp"
        /\ notifier' = [notifier EXCEPT ![n] = [@ EXCEPT !.pc = "push", !.score = now + 1]]
    BY <1>5, <1>1 DEF Stamp
  <2>2. notifier[n].at \in 1 .. Len(Recipients)
    BY <1>1, <2>1 DEF InboxInv, PushesInTurn
  <2>3. /\ \A k \in Notices : notifier'[k].at = notifier[k].at
        /\ \A k \in Notices : k # n => notifier'[k] = notifier[k]
        /\ notifier'[n].pc = "push"
    BY <1>1, <2>1 DEF Notifier
  <2>4. <<n, notifier[n].at>> \in Stamped' \ Stamped
    BY <1>1, <2>1, <2>2, <2>3 DEF Stamped
  <2>5. Stamped \subseteq Stamped'
    BY <2>1, <2>3 DEF Stamped
  <2>6. Cardinality(Stamped) + 1 <= Cardinality(Stamped')
    BY <1>2, <2>4, <2>5, StampsGrow
  <2> QED BY <1>1, <1>3, <2>1, <2>3, <2>6 DEF ClockBound
<1>6. ASSUME NEW n \in Notices, Push(n) PROVE ClockBound'
  <2>1. /\ now' = now /\ notifier[n].pc = "push" /\ notifier[n].at \in 1 .. Len(Recipients)
    BY <1>1, <1>6 DEF Push, InboxInv, PushesInTurn
  <2>2. /\ \A k \in Notices : k # n => notifier'[k] = notifier[k]
        /\ notifier'[n].at = notifier[n].at + 1
    BY <1>1, <1>6 DEF Push
  <2>3. \A k \in Notices : notifier'[k].at \in 1 .. Len(Recipients) + 1
    BY <1>1, <2>1, <2>2
  <2>4. Stamped \subseteq Stamped'
    <3> SUFFICES ASSUME NEW k \in Notices, NEW i \in 1 .. Len(Recipients),
                        i < notifier[k].at \/ (i = notifier[k].at /\ notifier[k].pc \in {"push", "failed"})
                 PROVE  i < notifier'[k].at \/ (i = notifier'[k].at /\ notifier'[k].pc \in {"push", "failed"})
      BY DEF Stamped
    <3>1. CASE k = n
      BY <1>1, <2>1, <2>2, <3>1
    <3>2. CASE k # n
      BY <2>2, <3>2
    <3> QED BY <3>1, <3>2
  <2> QED BY <1>4, <2>1, <2>3, <2>4
<1>7. ASSUME NEW n \in Notices, Notify(n) \/ NotifierFails(n) PROVE ClockBound'
  <2>1. /\ now' = now /\ notifier[n].pc \in {"idle", "stamp", "push"}
        /\ \A k \in Notices : notifier'[k].at = notifier[k].at
        /\ \A k \in Notices : notifier'[k].pc = notifier[k].pc \/ notifier'[k].pc = "failed"
                              \/ notifier[k].pc = "idle"
    <3>1. PICK pc \in {"stamp", "sent", "failed"} :
            /\ notifier' = [notifier EXCEPT ![n] = [@ EXCEPT !.pc = pc]] /\ now' = now
            /\ pc = "failed" \/ notifier[n].pc = "idle"
            /\ notifier[n].pc \in {"idle", "stamp", "push"}
      <4>1. CASE Notify(n)
        BY <4>1 DEF Notify
      <4>2. CASE NotifierFails(n)
        BY <4>2 DEF NotifierFails
      <4> QED BY <1>7, <4>1, <4>2
    <3> QED BY <1>1, <3>1 DEF Notifier
  <2>2. Stamped \subseteq Stamped'
    <3> SUFFICES ASSUME NEW k \in Notices, NEW i \in 1 .. Len(Recipients),
                        i < notifier[k].at \/ (i = notifier[k].at /\ notifier[k].pc \in {"push", "failed"})
                 PROVE  i < notifier'[k].at \/ (i = notifier'[k].at /\ notifier'[k].pc \in {"push", "failed"})
      BY DEF Stamped
    <3>1. /\ notifier'[k].at = notifier[k].at
          /\ \/ notifier'[k].pc = notifier[k].pc
             \/ notifier'[k].pc = "failed"
             \/ notifier[k].pc = "idle"
      BY <2>1
    <3>2. CASE i < notifier[k].at
      BY <3>1, <3>2
    <3>3. CASE i = notifier[k].at /\ notifier[k].pc \in {"push", "failed"}
      BY <3>1, <3>3
    <3> QED BY <3>2, <3>3
  <2> QED BY <1>1, <1>4, <2>1, <2>2
<1>8. ASSUME UNCHANGED <<notifier, now>> PROVE ClockBound'
  <2>1. Stamped' = Stamped
    BY <1>8 DEF Stamped
  <2> QED BY <1>1, <1>4, <1>8, <2>1
<1>9. ASSUME NEW r \in Requests, ReplaceMember(r) \/ \E u \in Users, n \in Notices : ReadInbox(r, u, n)
      PROVE  ClockBound'
  BY <1>8, <1>9 DEF ReplaceMember, ReadInbox
<1>10. CASE UNCHANGED inboxVars
  BY <1>8, <1>10 DEF inboxVars
<1> QED BY <1>5, <1>6, <1>7, <1>9, <1>10 DEF InboxNext

\* The bounds of the types follow.
LEMMA InboxTyped == InboxInv /\ ClockBound => InboxTypeOK
<1> SUFFICES ASSUME InboxInv, ClockBound PROVE InboxTypeOK
  OBVIOUS
<1>1. Stamped \in SUBSET (Notices \X (1 .. Len(Recipients)))
  BY DEF Stamped
<1>2. /\ Cardinality(Stamped) \in Nat /\ Cardinality(Stamped) <= MaxNow
      /\ now \in Nat /\ now <= Cardinality(Stamped)
  BY <1>1, StampsAreFinite DEF InboxInv, InboxTypes, ClockBound
<1>3. MaxNow \in Int
  BY InboxAssumption, FS_CardinalityType, RecipientsAreUsers DEF MaxNow
<1>4. now \in 0 .. MaxNow
  BY <1>2, <1>3
<1>5. \A k \in Nat : k <= now => k \in 0 .. MaxNow
  BY <1>2, <1>3
<1>6. ASSUME NEW u \in Users, NEW m \in Entry, Noted(m) \in pushed[u] PROVE m \in Member
  <2>1. m.score <= now /\ m.score \in Nat
    BY <1>6 DEF InboxInv, StampsDiffer, Noted, Entry
  <2> QED BY <1>5, <1>6, <2>1 DEF Member, Entry
<1>7. \A u \in Users : inbox[u] \subseteq Member /\ marked[u] \subseteq Notices
  <2> SUFFICES ASSUME NEW u \in Users PROVE inbox[u] \subseteq Member /\ marked[u] \subseteq Notices
    OBVIOUS
  <2>1. inbox[u] \subseteq Entry /\ marked[u] \subseteq Notices
    BY DEF InboxInv, InboxTypes
  <2>2. \A m \in inbox[u] : Noted(m) \in pushed[u]
    BY DEF InboxInv, AllKept, Kept
  <2> QED BY <1>6, <2>1, <2>2
<1>8. \A n \in Notices : notifier[n] \in [pc : {"idle", "stamp", "push", "sent", "failed"},
                                          at : 1 .. Len(Recipients) + 1, score : 0 .. MaxNow]
  <2> SUFFICES ASSUME NEW n \in Notices
               PROVE  notifier[n] \in [pc : {"idle", "stamp", "push", "sent", "failed"},
                                       at : 1 .. Len(Recipients) + 1, score : 0 .. MaxNow]
    OBVIOUS
  <2>1. notifier[n] \in Notifier /\ notifier[n].at \in 1 .. Len(Recipients) + 1
        /\ notifier[n].score <= now
    BY DEF InboxInv, InboxTypes, StampsDiffer, ClockBound
  <2>2. notifier[n].score \in 0 .. MaxNow
    BY <1>5, <2>1 DEF Notifier
  <2> QED BY <2>1, <2>2 DEF Notifier
<1>9. ASSUME NEW r \in Requests, marker[r].pc = "replace"
      PROVE  marker[r].user \in Users /\ marker[r].member \in Member
  <2>1. marker[r] \in Replacing /\ Noted(marker[r].member) \in pushed[marker[r].user]
    BY <1>9 DEF InboxInv, InboxTypes, ReadWasPushed, NotAsked
  <2>2. marker[r].user \in Users /\ marker[r].member \in Entry
    BY <2>1 DEF Replacing, Entry
  <2> QED BY <1>6, <2>1, <2>2
<1> QED BY <1>4, <1>7, <1>8, <1>9 DEF InboxTypeOK

-----------------------------------------------------------------------------
(* The readers of a series.                                                *)

NatLess == {p \in Nat \X Nat : p[1] < p[2]}

LEMMA NatLessWellFounded == IsWellFoundedOn(NatLess, Nat)
BY NatLessThanWellFounded DEF OpToRel, NatLess

\* A set of numbers has a least one.
LEMMA LeastNat ==
    ASSUME NEW T \in SUBSET Nat, T # {}
    PROVE  \E x \in T : \A y \in T : x <= y
<1>1. \E x \in T : \A y \in T : ~(<<y, x>> \in NatLess)
  BY NatLessWellFounded, WFMin
<1>2. PICK x \in T : \A y \in T : ~(<<y, x>> \in NatLess)
  BY <1>1
<1>3. \A y \in T : x \in Nat /\ y \in Nat
  OBVIOUS
<1>4. \A y \in T : <<y, x>> \in NatLess <=> y < x
  BY <1>3 DEF NatLess
<1>5. \A y \in T : x <= y
  <2> SUFFICES ASSUME NEW y \in T PROVE x <= y
    OBVIOUS
  <2>1. ~(<<y, x>> \in NatLess)
    BY <1>2
  <2>2. ~(y < x) /\ x \in Nat /\ y \in Nat
    BY <2>1, <1>3, <1>4, Zenon
  <2> QED BY <2>2
<1> QED BY <1>5

\* A set can be ordered in one way only.
LEMMA OrderedOnce ==
    ASSUME NEW n \in Nat, NEW S, NEW R,
           NEW f \in Bijection(1 .. n, S), NEW g \in Bijection(1 .. n, S),
           \A i, j \in 1 .. n : i < j => <<f[i], f[j]>> \in R,
           \A i, j \in 1 .. n : i < j => <<g[i], g[j]>> \in R,
           \A a, b \in S : ~(<<a, b>> \in R /\ <<b, a>> \in R)
    PROVE  f = g
<1>1. /\ f \in [1 .. n -> S] /\ g \in [1 .. n -> S]
      /\ \A i, j \in 1 .. n : f[i] = f[j] => i = j
      /\ \A i, j \in 1 .. n : g[i] = g[j] => i = j
      /\ \A a \in S : \E i \in 1 .. n : f[i] = a
      /\ \A a \in S : \E i \in 1 .. n : g[i] = a
  BY DEF Bijection, Injection, Surjection, IsInjective
<1> DEFINE T == {i \in 1 .. n : f[i] # g[i]}
<1> SUFFICES ASSUME T # {} PROVE FALSE
  <2>1. ASSUME T = {} PROVE f = g
    <3>1. \A i \in 1 .. n : f[i] = g[i]
      BY <2>1
    <3>2. f = [i \in 1 .. n |-> f[i]] /\ g = [i \in 1 .. n |-> g[i]]
      BY <1>1
    <3> QED BY <3>1, <3>2
  <2> QED BY <2>1
<1>2. T \in SUBSET Nat
  OBVIOUS
<1>3. PICK k \in T : \A i \in T : k <= i
  BY <1>2, LeastNat
<1>4. k \in 1 .. n /\ f[k] # g[k] /\ f[k] \in S /\ g[k] \in S
  BY <1>1
<1>5. \A i \in 1 .. n : i < k => f[i] = g[i]
  BY <1>3
<1> HIDE DEF T
<1>6. PICK l \in 1 .. n : f[l] = g[k]
  BY <1>1, <1>4
<1>7. PICK m \in 1 .. n : g[m] = f[k]
  BY <1>1, <1>4
<1>8. l > k
  <2>1. l # k
    BY <1>4, <1>6
  <2>2. ASSUME l < k PROVE FALSE
    <3>1. g[l] = g[k]
      BY <1>5, <1>6, <2>2
    <3> QED BY <3>1, <1>1, <1>4, <2>1
  <2> QED BY <2>1, <2>2, <1>4
<1>9. m > k
  <2>1. m # k
    BY <1>4, <1>7
  <2>2. ASSUME m < k PROVE FALSE
    <3>1. f[m] = f[k]
      BY <1>5, <1>7, <2>2
    <3> QED BY <3>1, <1>1, <1>4, <2>1
  <2> QED BY <2>1, <2>2, <1>4
<1>10. <<f[k], g[k]>> \in R /\ <<g[k], f[k]>> \in R
  <2>1. <<f[k], f[l]>> \in R /\ <<g[k], g[m]>> \in R
    BY <1>4, <1>8, <1>9
  <2> QED BY <2>1, <1>6, <1>7
<1> QED BY <1>4, <1>10

LEMMA RowFacts ==
    ASSUME rows \in Seq(Row)
    PROVE  /\ Len(rows) \in Nat /\ DOMAIN rows = 1 .. Len(rows)
           /\ Cardinality(DOMAIN rows) = Len(rows)
           /\ AnnualRows \subseteq DOMAIN rows /\ Cardinality(AnnualRows) \in Nat
           /\ \A i \in DOMAIN rows :
                /\ rows[i] \in Row /\ rows[i].at \in Nat
                /\ rows[i].period.year \in Nat /\ rows[i].period.quarter \in Nat
                /\ rows[i].period = [year |-> rows[i].period.year,
                                     quarter |-> rows[i].period.quarter]
<1>1. Len(rows) \in Nat /\ DOMAIN rows = 1 .. Len(rows) /\ \A i \in DOMAIN rows : rows[i] \in Row
  OBVIOUS
<1>2. IsFiniteSet(1 .. Len(rows)) /\ Cardinality(1 .. Len(rows)) = Len(rows)
  BY <1>1, FS_Interval
<1>3. AnnualRows \subseteq DOMAIN rows
  BY DEF AnnualRows
<1>4. IsFiniteSet(AnnualRows)
  BY <1>1, <1>2, <1>3, FS_Subset
<1>5. Cardinality(AnnualRows) \in Nat
  BY <1>4, FS_CardinalityType
<1>6. \A i \in DOMAIN rows :
        /\ rows[i].at \in Nat
        /\ rows[i].period.year \in Nat /\ rows[i].period.quarter \in Nat
        /\ rows[i].period = [year |-> rows[i].period.year,
                             quarter |-> rows[i].period.quarter]
  <2> SUFFICES ASSUME NEW i \in DOMAIN rows
               PROVE  /\ rows[i].at \in Nat
                      /\ rows[i].period.year \in Nat /\ rows[i].period.quarter \in Nat
                      /\ rows[i].period = [year |-> rows[i].period.year,
                                           quarter |-> rows[i].period.quarter]
    OBVIOUS
  <2>1. rows[i].at \in Nat /\ rows[i].period \in Periods
    BY <1>1 DEF Row
  <2>2. rows[i].period \in [year : Nat, quarter : Nat]
    BY <2>1, ViewsAssumption
  <2> QED BY <2>1, <2>2
<1> QED BY <1>1, <1>2, <1>3, <1>5, <1>6

\* An order of the rows has each of them at one place, and newest first a row
\* that was extracted later stands before one that was extracted earlier.
LEMMA PlaceOf ==
    ASSUME rows \in Seq(Row), NEW key, NEW f \in Sorted(DOMAIN rows, key)
    PROVE  /\ f \in [1 .. Len(rows) -> 1 .. Len(rows)]
           /\ \A a \in 1 .. Len(rows) : \E k \in 1 .. Len(rows) : f[k] = a
<1> PICK n : n = Len(rows)
  OBVIOUS
<1>1. n \in Nat /\ DOMAIN rows = 1 .. n /\ n = Cardinality(DOMAIN rows)
  BY RowFacts
<1>2. f \in [1 .. n -> DOMAIN rows] /\ \A a \in DOMAIN rows : \E k \in 1 .. n : f[k] = a
  BY <1>1 DEF Sorted, Bijection, Injection, Surjection
<1> QED BY <1>1, <1>2, Zenon

LEMMA LaterStandsFirst ==
    ASSUME rows \in Seq(Row), NEW f \in Sorted(DOMAIN rows, NewestFirst),
           NEW i \in 1 .. Len(rows), NEW j \in 1 .. Len(rows),
           rows[f[i]].at < rows[f[j]].at
    PROVE  j < i
<1> PICK n : n = Len(rows)
  OBVIOUS
<1>1. /\ n \in Nat /\ DOMAIN rows = 1 .. n /\ n = Cardinality(DOMAIN rows)
      /\ \A k \in 1 .. n : rows[k].at \in Nat
  BY RowFacts
<1>2. f \in [1 .. n -> 1 .. n]
  BY PlaceOf
<1>3. \A k, l \in 1 .. n : k < l => ~Precedes(NewestFirst[f[l]], NewestFirst[f[k]])
  BY <1>1 DEF Sorted
<1>4. f[i] \in 1 .. n /\ f[j] \in 1 .. n /\ i # j
  BY <1>1, <1>2
<1>5. NewestFirst[f[i]] = <<0 - rows[f[i]].at, 0>> /\ NewestFirst[f[j]] = <<0 - rows[f[j]].at, 0>>
  BY <1>1, <1>4 DEF NewestFirst
<1>6. 0 - rows[f[j]].at < 0 - rows[f[i]].at
  BY <1>1, <1>4
<1>7. Precedes(NewestFirst[f[j]], NewestFirst[f[i]])
  BY <1>5, <1>6 DEF Precedes
<1> QED BY <1>1, <1>3, <1>4, <1>7

\* The orders of the fiscal years of a KPI that has each year once.
LEMMA AnnualOrder ==
    ASSUME rows \in Seq(Row), OncePerPeriod(AnnualRows), NEW n, n = Cardinality(AnnualRows),
           NEW f \in Sorted(AnnualRows, ByYear)
    PROVE  /\ n \in Nat /\ f \in Bijection(1 .. n, AnnualRows) /\ f \in [1 .. n -> AnnualRows]
           /\ \A i, j \in 1 .. n : f[i] = f[j] => i = j
           /\ \A a \in AnnualRows : \E i \in 1 .. n : f[i] = a
           /\ \A i, j \in 1 .. n : i < j => rows[f[i]].period.year < rows[f[j]].period.year
<1>1. /\ n \in Nat /\ DOMAIN rows = 1 .. Len(rows) /\ AnnualRows \subseteq DOMAIN rows
      /\ \A i \in DOMAIN rows :
           /\ rows[i].period.year \in Nat
           /\ rows[i].period = [year |-> rows[i].period.year, quarter |-> rows[i].period.quarter]
  BY RowFacts
<1>2. /\ f \in Bijection(1 .. n, AnnualRows) /\ f \in [1 .. n -> AnnualRows]
      /\ \A i, j \in 1 .. n : f[i] = f[j] => i = j
      /\ \A a \in AnnualRows : \E i \in 1 .. n : f[i] = a
      /\ \A i, j \in 1 .. n : i < j => ~Precedes(ByYear[f[j]], ByYear[f[i]])
  BY DEF Sorted, Bijection, Injection, Surjection, IsInjective
<1>3. ASSUME NEW i \in 1 .. n, NEW j \in 1 .. n, i < j
      PROVE  rows[f[i]].period.year < rows[f[j]].period.year
  <2>1. f[i] \in AnnualRows /\ f[j] \in AnnualRows /\ f[i] # f[j]
    BY <1>2, <1>3, <1>1
  <2>2. /\ ByYear[f[i]] = <<rows[f[i]].period.year, 0>>
        /\ ByYear[f[j]] = <<rows[f[j]].period.year, 0>>
    BY <1>1, <2>1 DEF ByYear
  <2>3. ~(rows[f[j]].period.year < rows[f[i]].period.year)
    BY <1>2, <1>3, <2>2 DEF Precedes
  <2>4. rows[f[i]].period.year # rows[f[j]].period.year
    <3>1. rows[f[i]].period # rows[f[j]].period
      BY <2>1 DEF OncePerPeriod
    <3>2. rows[f[i]].period.quarter = 0 /\ rows[f[j]].period.quarter = 0
      BY <2>1 DEF AnnualRows, Annual
    <3> QED BY <3>1, <3>2, <2>1, <1>1
  <2>5. rows[f[i]].period.year \in Nat /\ rows[f[j]].period.year \in Nat
    BY <1>1, <2>1
  <2> QED BY <2>3, <2>4, <2>5
<1> QED BY <1>1, <1>2, <1>3

\* The dashboard has the change of the last annual row from the one before.
LEMMA LastChange ==
    ASSUME rows \in Seq(Row), OncePerPeriod(AnnualRows),
           NEW f \in Sorted(DOMAIN rows, ByPeriod), NEW g \in Sorted(AnnualRows, ByYear),
           NEW i \in 1 .. Len(rows), Annual(rows[f[i]]),
           \A k \in 1 .. Len(rows) : k > i => ~Annual(rows[f[k]])
    PROVE  DataPoints(Taken(f))[i].yoy = ComputeYoy(Taken(g))
<1> PICK n : n = Cardinality(AnnualRows)
  OBVIOUS
<1> PICK l : l = Len(rows)
  OBVIOUS
<1>1. /\ l \in Nat /\ DOMAIN rows = 1 .. l /\ l = Cardinality(DOMAIN rows)
      /\ AnnualRows \subseteq DOMAIN rows
      /\ \A k \in DOMAIN rows : rows[k] \in Row /\ rows[k].period.year \in Nat
  BY RowFacts
<1>2. /\ f \in [1 .. l -> 1 .. l]
      /\ \A j, k \in 1 .. l : f[j] = f[k] => j = k
      /\ \A a \in 1 .. l : \E k \in 1 .. l : f[k] = a
      /\ \A j, k \in 1 .. l : j < k => ~Precedes(ByPeriod[f[k]], ByPeriod[f[j]])
  <2>1. /\ f \in [1 .. l -> DOMAIN rows]
        /\ \A j, k \in 1 .. l : f[j] = f[k] => j = k
        /\ \A a \in DOMAIN rows : \E k \in 1 .. l : f[k] = a
        /\ \A j, k \in 1 .. l : j < k => ~Precedes(ByPeriod[f[k]], ByPeriod[f[j]])
    BY <1>1 DEF Sorted, Bijection, Injection, Surjection, IsInjective
  <2> QED BY <2>1, <1>1, Zenon
<1>3. /\ n \in Nat /\ g \in [1 .. n -> AnnualRows]
      /\ \A j, k \in 1 .. n : g[j] = g[k] => j = k
      /\ \A a \in AnnualRows : \E k \in 1 .. n : g[k] = a
      /\ \A j, k \in 1 .. n : j < k => rows[g[j]].period.year < rows[g[k]].period.year
  BY AnnualOrder
<1> DEFINE Year(k) == rows[f[k]].period.year
<1>4. ASSUME NEW j \in 1 .. l, NEW k \in 1 .. l, Annual(rows[f[j]]), Annual(rows[f[k]]),
             Year(j) < Year(k)
      PROVE  j < k
  <2>1. f[j] \in DOMAIN rows /\ f[k] \in DOMAIN rows
    BY <1>1, <1>2
  <2>2. ByPeriod[f[j]] = <<Year(j), 0>> /\ ByPeriod[f[k]] = <<Year(k), 0>>
    BY <2>1, <1>4 DEF ByPeriod, Annual
  <2>3. Precedes(ByPeriod[f[j]], ByPeriod[f[k]])
    BY <2>2, <1>4 DEF Precedes
  <2>4. ~(k < j)
    BY <1>2, <2>3
  <2>5. j # k
    BY <1>1, <1>4, <2>1
  <2> QED BY <2>4, <2>5, <1>1
<1>5. ASSUME NEW k \in 1 .. l PROVE Annual(rows[f[k]]) <=> f[k] \in AnnualRows
  BY <1>1, <1>2 DEF AnnualRows
<1>6. i \in 1 .. l /\ f[i] \in AnnualRows
  BY <1>5
<1>7. PICK m \in 1 .. n : g[m] = f[i]
  BY <1>3, <1>6
<1>8. m = n
  <2> SUFFICES ASSUME m # n PROVE FALSE
    OBVIOUS
  <2>1. m < n /\ n \in 1 .. n
    BY <1>3, <1>7
  <2>2. g[n] \in AnnualRows /\ rows[f[i]].period.year < rows[g[n]].period.year
    BY <1>3, <1>7, <2>1
  <2>3. PICK k \in 1 .. l : f[k] = g[n]
    BY <1>1, <1>2, <2>2
  <2>4. Annual(rows[f[k]]) /\ Year(i) < Year(k)
    BY <1>5, <2>2, <2>3
  <2>5. i < k
    BY <1>4, <1>6, <2>4
  <2> QED BY <2>3, <2>4, <2>5
<1>9. f[i] = g[n] /\ n >= 1
  BY <1>3, <1>7, <1>8
<1> DEFINE points == Taken(f)
           annual == Taken(g)
<1>10. /\ DOMAIN points = 1 .. l
       /\ \A k \in 1 .. l : points[k] = rows[f[k]]
       /\ DOMAIN annual = 1 .. n
       /\ \A k \in 1 .. n : annual[k] = rows[g[k]]
  BY <1>2, <1>3 DEF Taken
<1>11. Len(annual) = n
  <2>1. annual = [k \in 1 .. n |-> rows[g[k]]]
    BY <1>3 DEF Taken
  <2>2. \A k \in 1 .. n : rows[g[k]] \in Row
    BY <1>1, <1>3
  <2>3. annual \in Seq(Row)
    BY <2>1, <2>2, <1>3
  <2> QED BY <2>3, <1>10, <1>3
<1> HIDE DEF points, annual
<1>12. DataPoints(points)[i].yoy =
         IF PriorPoint(points, i) = {} THEN NoChange
         ELSE Change(points[i].value, points[CHOOSE j \in PriorPoint(points, i) : TRUE].value)
  BY <1>6, <1>10 DEF DataPoints
<1>13. \A j : j \in PriorPoint(points, i) <=>
                /\ j \in 1 .. l /\ j < i /\ Annual(points[j])
                /\ \A k \in j + 1 .. i - 1 : ~Annual(points[k])
  <2>1. Annual(points[i])
    BY <1>6, <1>10
  <2> QED BY <2>1, <1>10 DEF PriorPoint
<1>14. CASE n < 2
  <2>1. PriorPoint(points, i) = {}
    <3> SUFFICES ASSUME NEW j \in PriorPoint(points, i) PROVE FALSE
      OBVIOUS
    <3>1. j \in 1 .. l /\ j < i /\ Annual(rows[f[j]])
      BY <1>10, <1>13
    <3>2. PICK q \in 1 .. n : g[q] = f[j]
      BY <1>3, <1>5, <3>1
    <3>3. q = n
      BY <1>3, <1>14, <3>2
    <3>4. j = i
      <4>1. f[j] = f[i]
        BY <1>9, <3>2, <3>3
      <4> QED BY <4>1, <3>1, <1>6, <1>2
    <3> QED BY <3>1, <3>4, <1>6
  <2> QED BY <2>1, <1>11, <1>12, <1>14 DEF ComputeYoy, points, annual
<1>15. CASE n >= 2
  <2>1. n - 1 \in 1 .. n /\ n \in 1 .. n /\ n - 1 < n
    BY <1>3, <1>15
  <2>2. g[n - 1] \in AnnualRows /\ rows[g[n - 1]].period.year < rows[g[n]].period.year
    BY <1>3, <2>1
  <2>3. PICK j \in 1 .. l : f[j] = g[n - 1]
    BY <1>1, <1>2, <2>2
  <2>4. Annual(rows[f[j]]) /\ Year(j) < Year(i)
    BY <1>5, <1>9, <2>2, <2>3
  <2>5. j < i
    BY <1>4, <1>6, <2>3, <2>4
  <2>6. ASSUME NEW k \in 1 .. l, j < k, k < i PROVE ~Annual(rows[f[k]])
    <3> SUFFICES ASSUME Annual(rows[f[k]]) PROVE FALSE
      OBVIOUS
    <3>1. PICK q \in 1 .. n : g[q] = f[k]
      BY <1>3, <1>5
    <3>2. f[k] # f[i] /\ f[k] # f[j]
      <4>1. k # i /\ k # j
        BY <1>1, <1>6, <2>3, <2>6
      <4> QED BY <4>1, <1>2, <1>6, <2>3
    <3>3. q # n /\ q # n - 1
      BY <3>1, <3>2, <1>9, <2>3
    <3>4. q < n - 1
      <4>1. n \in Nat /\ q \in 1 .. n
        BY <1>3
      <4> QED BY ONLY <3>3, <4>1
    <3>5. Year(k) < Year(j)
      BY <3>1, <3>4, <2>1, <2>3, <1>3
    <3>6. k < j
      BY <3>5, <1>4, <2>3, <2>4
    <3> QED BY <3>6, <2>6, <2>3
  <2>7. j \in PriorPoint(points, i)
    <3>1. \A k \in j + 1 .. i - 1 : k \in 1 .. l /\ j < k /\ k < i
      BY <1>1, <1>6, <2>3
    <3>2. \A k \in j + 1 .. i - 1 : ~Annual(points[k])
      BY <3>1, <2>6, <1>10
    <3> QED BY <3>2, <2>3, <2>4, <2>5, <1>10, <1>13
  <2>8. ASSUME NEW p \in PriorPoint(points, i) PROVE p = j
    <3>1. /\ p \in 1 .. l /\ p < i /\ Annual(rows[f[p]])
          /\ \A k \in p + 1 .. i - 1 : ~Annual(points[k])
      BY <2>8, <1>10, <1>13
    <3>2. ~(j < p)
      BY <2>6, <3>1
    <3>3. ~(p < j)
      <4> SUFFICES ASSUME p < j PROVE FALSE
        OBVIOUS
      <4>1. j \in p + 1 .. i - 1
        BY <3>1, <2>3, <2>5, <1>1, <1>6
      <4> QED BY <4>1, <3>1, <2>3, <2>4, <1>10
    <3> QED BY <3>1, <3>2, <3>3, <2>3
  <2>9. (CHOOSE k \in PriorPoint(points, i) : TRUE) = j
    BY <2>7, <2>8
  <2>10. DataPoints(points)[i].yoy = Change(points[i].value, points[j].value)
    BY <2>7, <2>9, <1>12
  <2>11. ComputeYoy(annual) = Change(annual[n].value, annual[n - 1].value)
    <3>1. ~(n < 2)
      BY <1>3, <1>15
    <3> QED BY <3>1, <1>11 DEF ComputeYoy
  <2>12. points[i] = annual[n] /\ points[j] = annual[n - 1]
    BY <1>6, <1>9, <1>10, <2>1, <2>3
  <2> QED BY <2>10, <2>11, <2>12 DEF points, annual
<1> QED BY <1>3, <1>14, <1>15

\* A table of fiscal years, each once, has the order of the dashboard.
LEMMA AnnualTable ==
    ASSUME rows \in Seq(Row), OncePerPeriod(DOMAIN rows), AnnualRows = DOMAIN rows,
           NEW f \in Sorted(DOMAIN rows, ByPeriod), NEW t \in Sorted(DOMAIN rows, ByLabel)
    PROVE  t = f
<1> PICK n : n = Len(rows)
  OBVIOUS
<1> PICK S : S = DOMAIN rows
  OBVIOUS
<1> DEFINE R == {p \in S \X S : rows[p[1]].period.year < rows[p[2]].period.year}
<1>1. /\ n \in Nat /\ n = Cardinality(S)
      /\ \A a \in S :
           /\ rows[a].period.year \in Nat
           /\ rows[a].period = [year |-> rows[a].period.year, quarter |-> rows[a].period.quarter]
  BY RowFacts
<1>2. \A a \in S : rows[a].period.quarter = 0
  BY DEF AnnualRows, Annual
<1>3. ASSUME NEW a \in S, NEW b \in S, a # b PROVE rows[a].period.year # rows[b].period.year
  BY <1>1, <1>2, <1>3 DEF OncePerPeriod
<1>4. ASSUME NEW a \in S, NEW b \in S
      PROVE  /\ Precedes(ByPeriod[a], ByPeriod[b]) <=> rows[a].period.year < rows[b].period.year
             /\ Precedes(ByLabel[a], ByLabel[b]) <=> rows[a].period.year < rows[b].period.year
  <2>1. ByPeriod[a] = <<rows[a].period.year, 0>> /\ ByPeriod[b] = <<rows[b].period.year, 0>>
    BY <1>2 DEF ByPeriod
  <2>2. ByLabel[a] = <<0, rows[a].period.year>> /\ ByLabel[b] = <<0, rows[b].period.year>>
    BY <1>2 DEF ByLabel
  <2> QED BY <1>1, <2>1, <2>2 DEF Precedes
<1>5. ASSUME NEW h \in Bijection(1 .. n, S),
             \A i, j \in 1 .. n : i < j => ~(rows[h[j]].period.year < rows[h[i]].period.year)
      PROVE  \A i, j \in 1 .. n : i < j => <<h[i], h[j]>> \in R
  <2> SUFFICES ASSUME NEW i \in 1 .. n, NEW j \in 1 .. n, i < j PROVE <<h[i], h[j]>> \in R
    OBVIOUS
  <2>1. h[i] \in S /\ h[j] \in S /\ h[i] # h[j]
    BY <1>1 DEF Bijection, Injection, Surjection, IsInjective
  <2>2. rows[h[i]].period.year # rows[h[j]].period.year
    BY <1>3, <2>1
  <2>3. rows[h[i]].period.year \in Nat /\ rows[h[j]].period.year \in Nat
    BY <1>1, <2>1
  <2>4. rows[h[i]].period.year < rows[h[j]].period.year
    BY <1>5, <2>2, <2>3
  <2> QED BY <2>1, <2>4
<1>6. /\ f \in Bijection(1 .. n, S)
      /\ \A i, j \in 1 .. n : i < j => ~Precedes(ByPeriod[f[j]], ByPeriod[f[i]])
      /\ t \in Bijection(1 .. n, S)
      /\ \A i, j \in 1 .. n : i < j => ~Precedes(ByLabel[t[j]], ByLabel[t[i]])
  BY <1>1 DEF Sorted
<1>7. \A i \in 1 .. n : f[i] \in S /\ t[i] \in S
  BY <1>6 DEF Bijection, Injection
<1>8. /\ \A i, j \in 1 .. n : i < j => ~(rows[f[j]].period.year < rows[f[i]].period.year)
      /\ \A i, j \in 1 .. n : i < j => ~(rows[t[j]].period.year < rows[t[i]].period.year)
  BY <1>4, <1>6, <1>7
<1>9. /\ \A i, j \in 1 .. n : i < j => <<f[i], f[j]>> \in R
      /\ \A i, j \in 1 .. n : i < j => <<t[i], t[j]>> \in R
  BY <1>5, <1>6, <1>8
<1>10. \A a, b \in S : ~(<<a, b>> \in R /\ <<b, a>> \in R)
  <2> SUFFICES ASSUME NEW a \in S, NEW b \in S, <<a, b>> \in R, <<b, a>> \in R PROVE FALSE
    OBVIOUS
  <2>1. /\ rows[a].period.year < rows[b].period.year
        /\ rows[b].period.year < rows[a].period.year
    OBVIOUS
  <2>2. rows[a].period.year \in Nat /\ rows[b].period.year \in Nat
    BY <1>1
  <2> QED BY ONLY <2>1, <2>2
<1> HIDE DEF R
<1> QED BY <1>1, <1>6, <1>9, <1>10, OrderedOnce

LEMMA TakenRows ==
    ASSUME rows \in Seq(Row), NEW key, NEW f \in Sorted(DOMAIN rows, key)
    PROVE  /\ f \in [1 .. Len(rows) -> 1 .. Len(rows)]
           /\ DOMAIN Taken(f) = 1 .. Len(rows)
           /\ \A i \in 1 .. Len(rows) : Taken(f)[i] = rows[f[i]] /\ Taken(f)[i] \in Row
           /\ Taken(f) \in Seq(Row) /\ Len(Taken(f)) = Len(rows)
<1> PICK n : n = Len(rows)
  OBVIOUS
<1>1. /\ n \in Nat /\ DOMAIN rows = 1 .. n /\ n = Cardinality(DOMAIN rows)
      /\ \A k \in 1 .. n : rows[k] \in Row
  BY RowFacts
<1>2. f \in [1 .. n -> 1 .. n]
  <2>1. f \in [1 .. n -> DOMAIN rows]
    BY <1>1 DEF Sorted, Bijection, Injection
  <2> QED BY <2>1, <1>1, Zenon
<1>3. Taken(f) = [i \in 1 .. n |-> rows[f[i]]] /\ \A i \in 1 .. n : rows[f[i]] \in Row
  BY <1>1, <1>2 DEF Taken
<1>4. Taken(f) \in Seq(Row) /\ Len(Taken(f)) = n
  BY <1>1, <1>3
<1> QED BY <1>1, <1>2, <1>3, <1>4

LEMMA TrendFacts ==
    ASSUME NEW s \in Seq(Row)
    PROVE  /\ Trend(s) \in Seq(Row) /\ Len(Trend(s)) \in Nat /\ Len(Trend(s)) <= Len(s)
           /\ DOMAIN Trend(s) = 1 .. Len(Trend(s))
           /\ \A i \in 1 .. Len(Trend(s)) : Trend(s)[i] = s[Len(Trend(s)) + 1 - i]
<1> DEFINE n == IF Len(s) < TrendLength THEN Len(s) ELSE TrendLength
<1>1. n \in Nat /\ n <= Len(s) /\ Len(s) \in Nat
  BY ViewsAssumption
<1>2. Trend(s) = [i \in 1 .. n |-> s[n + 1 - i]]
  BY DEF Trend
<1> HIDE DEF n
<1>3. \A i \in 1 .. n : s[n + 1 - i] \in Row
  BY <1>1
<1>4. Trend(s) \in Seq(Row) /\ Len(Trend(s)) = n
  BY <1>1, <1>2, <1>3
<1> QED BY <1>1, <1>2, <1>4

ViewsInv == ViewsTypeOK /\ ViewsAgree

LEMMA ReadViewsAgree ==
    ASSUME ViewsInv, NEW positive \in BOOLEAN, ReadViews(positive)
    PROVE  ViewsInv'
<1>1. rows \in Seq(Row) /\ rows # <<>> /\ rows' = rows
  BY DEF ViewsInv, ViewsTypeOK, ReadViews
<1>2. PICK f \in Sorted(DOMAIN rows, ByPeriod), g \in Sorted(AnnualRows, ByYear),
           latest \in Sorted(DOMAIN rows, NewestFirst), newest \in Sorted(DOMAIN rows, NewestFirst),
           t \in Sorted(DOMAIN rows, ByLabel) :
         views' = [pc |-> "read", points |-> DataPoints(Taken(f)),
                   yoy |-> ComputeYoy(Taken(g)), summary |-> rows[latest[1]],
                   trend |-> Trend(Taken(newest)),
                   divergence |-> Diverges(Trend(Taken(newest)), positive),
                   table |-> Taken(t)]
  BY DEF ReadViews
<1> PICK n : n = Len(rows)
  OBVIOUS
<1> PICK trend : trend = Trend(Taken(newest))
  OBVIOUS
<1>3. n \in Nat /\ n >= 1 /\ DOMAIN rows = 1 .. n
  BY <1>1
<1>4. /\ views'.points = DataPoints(Taken(f)) /\ views'.yoy = ComputeYoy(Taken(g))
      /\ views'.summary = rows[latest[1]] /\ views'.trend = trend
      /\ views'.divergence = Diverges(trend, positive) /\ views'.table = Taken(t)
  BY <1>2
<1>5. /\ DOMAIN Taken(f) = 1 .. n
      /\ \A i \in 1 .. n : Taken(f)[i] = rows[f[i]]
  BY <1>1, TakenRows
<1>6. /\ DOMAIN views'.points = 1 .. n
      /\ \A i \in 1 .. n : views'.points[i].row = rows[f[i]]
  BY <1>4, <1>5 DEF DataPoints
<1>7. /\ latest \in [1 .. n -> 1 .. n] /\ Taken(t) \in Seq(Row)
      /\ Taken(newest) \in Seq(Row) /\ Len(Taken(newest)) = n
      /\ \A i \in 1 .. n : Taken(newest)[i] = rows[newest[i]]
  BY <1>1, TakenRows
<1>8. /\ trend \in Seq(Row) /\ Len(trend) \in Nat /\ Len(trend) <= n
      /\ DOMAIN trend = 1 .. Len(trend)
      /\ \A i \in 1 .. Len(trend) : trend[i] = Taken(newest)[Len(trend) + 1 - i]
  BY <1>7, TrendFacts
<1>9. ViewsTypeOK'
  <2>1. rows[latest[1]] \in Row
    <3>1. latest[1] \in 1 .. n
      BY <1>3, <1>7
    <3> QED BY <1>1, <1>3, <3>1
  <2>2. Diverges(trend, positive) \in BOOLEAN
    BY DEF Diverges
  <2> QED BY <1>1, <1>4, <1>7, <1>8, <2>1, <2>2 DEF ViewsTypeOK
<1>10. ASSUME OncePerPeriod(AnnualRows), NEW i \in 1 .. n,
              Annual(views'.points[i].row), LastOfItsKind(i)'
       PROVE  views'.points[i].yoy = views'.yoy
  <2>1. /\ Annual(rows[f[i]])
        /\ \A k \in 1 .. n : k > i => ~Annual(rows[f[k]])
    BY <1>6, <1>10 DEF LastOfItsKind, SameKind, Annual
  <2> QED BY <1>1, <1>4, <1>10, <2>1, LastChange
<1>p. /\ f \in [1 .. n -> 1 .. n] /\ latest \in [1 .. n -> 1 .. n] /\ newest \in [1 .. n -> 1 .. n]
      /\ \A a \in 1 .. n : \E k \in 1 .. n : f[k] = a
      /\ \A a \in 1 .. n : \E k \in 1 .. n : latest[k] = a
      /\ \A a \in 1 .. n : \E k \in 1 .. n : newest[k] = a
  BY <1>1, PlaceOf
<1>r. \A k \in 1 .. n : rows[k].at \in Int
  <2>1. \A k \in DOMAIN rows : rows[k].at \in Nat
    BY <1>1, RowFacts, Zenon
  <2> QED BY <1>3, <2>1
<1>s. \A j, k \in 1 .. n : \/ rows[j].period = rows[k].period
                           \/ Earlier(rows[j].period, rows[k].period)
                           \/ Earlier(rows[k].period, rows[j].period)
  <2> SUFFICES ASSUME NEW j \in 1 .. n, NEW k \in 1 .. n
               PROVE  \/ rows[j].period = rows[k].period
                      \/ Earlier(rows[j].period, rows[k].period)
                      \/ Earlier(rows[k].period, rows[j].period)
    OBVIOUS
  <2>1. /\ rows[j].period = [year |-> rows[j].period.year, quarter |-> rows[j].period.quarter]
        /\ rows[k].period = [year |-> rows[k].period.year, quarter |-> rows[k].period.quarter]
        /\ rows[j].period.year \in Nat /\ rows[j].period.quarter \in Nat
        /\ rows[k].period.year \in Nat /\ rows[k].period.quarter \in Nat
    BY <1>1, <1>3, RowFacts
  <2> QED BY <2>1 DEF Earlier
<1>t. \A k \in 1 .. n : ~Earlier(rows[k].period, rows[k].period)
  <2>1. \A k \in DOMAIN rows : rows[k].period.year \in Nat /\ rows[k].period.quarter \in Nat
    BY <1>1, RowFacts, Zenon
  <2> QED BY <1>3, <2>1 DEF Earlier
<1>11. ASSUME InTurn, NEW i \in 1 .. n, LastOfItsKind(i)',
              SameKind(views'.points[i].row, views'.summary)
       PROVE  \/ views'.points[i].row.period = views'.summary.period
              \/ views'.points[i].row.at = views'.summary.at
  <2>1. PICK a \in 1 .. n : latest[1] = a
    <3>1. 1 \in 1 .. n
      BY <1>3
    <3>2. latest[1] \in 1 .. n
      BY <1>p, <3>1
    <3> QED BY <3>2
  <2>2. PICK k \in 1 .. n : f[k] = a
    BY <1>p
  <2>3. PICK b \in 1 .. n : f[i] = b
    BY <1>p
  <2>4. views'.summary = rows[a] /\ views'.points[i].row = rows[b]
    BY <1>4, <1>6, <2>1, <2>3
  <2>5. rows[b].at <= rows[a].at
    <3>1. PICK m \in 1 .. n : latest[m] = b
      BY <1>p
    <3>2. ~(m < 1) /\ 1 \in 1 .. n
      BY <1>3
    <3>3. ~(rows[latest[1]].at < rows[latest[m]].at)
      BY <1>1, <3>2, LaterStandsFirst
    <3>4. rows[a].at \in Int /\ rows[b].at \in Int
      BY <1>r
    <3> QED BY <2>1, <3>1, <3>3, <3>4
  <2>6. k <= i
    <3>1. SameKind(views'.points[k].row, views'.points[i].row)
      BY <1>6, <1>11, <2>2, <2>4 DEF SameKind, Annual
    <3> QED BY <1>6, <1>11, <3>1 DEF LastOfItsKind
  <2>7. ~Earlier(rows[b].period, rows[a].period)
    <3>1. CASE k = i
      BY <1>t, <2>2, <2>3, <3>1
    <3>2. CASE k < i
      <4>1. ~Precedes(ByPeriod[f[i]], ByPeriod[f[k]])
        BY <1>1, <1>3, <3>2, RowFacts DEF Sorted
      <4>2. /\ ByPeriod[a] = <<rows[a].period.year, rows[a].period.quarter>>
            /\ ByPeriod[b] = <<rows[b].period.year, rows[b].period.quarter>>
        BY <1>3 DEF ByPeriod
      <4> QED BY <2>2, <2>3, <4>1, <4>2 DEF Precedes, Earlier
    <3> QED BY <2>6, <3>1, <3>2
  <2>8. CASE Earlier(rows[a].period, rows[b].period)
    <3>1. rows[a].at <= rows[b].at
      BY <1>3, <1>11, <2>4, <2>8 DEF InTurn, SameKind, Annual
    <3>2. rows[a].at \in Int /\ rows[b].at \in Int
      BY <1>r
    <3> QED BY <2>4, <2>5, <3>1, <3>2
  <2>9. CASE ~Earlier(rows[a].period, rows[b].period)
    BY <1>s, <2>4, <2>7, <2>9
  <2> QED BY <2>8, <2>9
<1>14. ASSUME InTurn, NEW i \in DOMAIN trend, NEW k \in 1 .. n,
              SameKind(trend[i], views'.points[k].row),
              Earlier(trend[i].period, views'.points[k].row.period),
              trend[i].at # views'.points[k].row.at
       PROVE  \E j \in DOMAIN trend : j > i /\ trend[j] = views'.points[k].row
  <2>1. PICK m : m = Len(trend) + 1 - i
    OBVIOUS
  <2>2. m \in 1 .. Len(trend) /\ m \in 1 .. n /\ i = Len(trend) + 1 - m
    BY <1>3, <1>8, <2>1
  <2>3. trend[i] = rows[newest[m]]
    BY <1>7, <1>8, <2>1, <2>2
  <2>4. PICK b \in 1 .. n : views'.points[k].row = rows[b]
    BY <1>6, <1>p
  <2>5. PICK q \in 1 .. n : newest[q] = b
    BY <1>p
  <2>6. rows[newest[m]].at < rows[newest[q]].at
    <3>1. newest[m] \in 1 .. n
      BY <1>p, <2>2
    <3>2. rows[newest[m]].at <= rows[b].at
      BY <1>3, <1>14, <2>3, <2>4, <3>1 DEF InTurn
    <3>3. rows[newest[m]].at \in Int /\ rows[b].at \in Int
      BY <1>r, <3>1
    <3>4. rows[newest[m]].at # rows[b].at
      BY <1>14, <2>3, <2>4
    <3> QED BY <2>5, <3>2, <3>3, <3>4
  <2>7. q < m
    BY <1>1, <2>2, <2>6, LaterStandsFirst
  <2>8. q \in 1 .. Len(trend) /\ Len(trend) + 1 - q \in DOMAIN trend /\ Len(trend) + 1 - q > i
    BY <1>8, <2>2, <2>7
  <2>9. trend[Len(trend) + 1 - q] = rows[newest[q]]
    <3>1. Len(trend) + 1 - (Len(trend) + 1 - q) = q
      BY <1>8
    <3>2. trend[Len(trend) + 1 - q] = Taken(newest)[q]
      BY <1>8, <2>8, <3>1
    <3> QED BY <1>7, <3>2
  <2> QED BY <2>4, <2>5, <2>8, <2>9
<1>15. ASSUME InTurn PROVE SummaryIsLast' /\ TrendRunsOn'
  <2>1. SummaryIsLast'
    BY <1>6, <1>11, <1>15 DEF SummaryIsLast
  <2>2. TrendRunsOn'
    BY <1>4, <1>6, <1>14, <1>15 DEF TrendRunsOn
  <2> QED BY <2>1, <2>2
<1>12. ASSUME OncePerPeriod(DOMAIN rows), AnnualRows = DOMAIN rows
       PROVE  views'.table = [i \in DOMAIN rows |-> views'.points[i].row]
  <2>1. t = f
    BY <1>1, <1>12, AnnualTable
  <2>2. f \in [1 .. n -> 1 .. n]
    BY <1>1, TakenRows
  <2>3. Taken(f) = [i \in 1 .. n |-> rows[f[i]]]
    BY <2>2 DEF Taken
  <2>4. Taken(f) = [i \in 1 .. n |-> views'.points[i].row]
    BY <1>6, <2>3
  <2> QED BY <1>3, <1>4, <2>1, <2>4
<1>13. ViewsAgree'
  <2>1. /\ OncePerPeriod(AnnualRows)' <=> OncePerPeriod(AnnualRows)
        /\ InTurn' <=> InTurn
        /\ OncePerPeriod(DOMAIN rows)' <=> OncePerPeriod(DOMAIN rows)
        /\ AnnualRows' = AnnualRows
    BY <1>1 DEF OncePerPeriod, InTurn, AnnualRows
  <2> QED BY <1>1, <1>6, <1>10, <1>12, <1>15, <2>1 DEF ViewsAgree
<1> QED BY <1>9, <1>13 DEF ViewsInv

\* While rows are written, nothing is read.
LEMMA ExtractKeeps ==
    ASSUME ViewsInv, NEW p \in Periods, NEW v \in KpiValues, NEW together \in BOOLEAN,
           Extract(p, v, together)
    PROVE  ViewsInv'
<1> DEFINE at == IF rows = <<>> THEN 1 ELSE rows[Len(rows)].at + (IF together THEN 0 ELSE 1)
           row == [period |-> p, value |-> v, at |-> at]
<1>1. views' = NotRead /\ rows' = Append(rows, row)
  BY DEF Extract
<1>2. rows \in Seq(Row)
  BY DEF ViewsInv, ViewsTypeOK
<1>3. at \in Nat
  <2>1. CASE rows = <<>>
    BY <2>1
  <2>2. CASE rows # <<>>
    <3>1. Len(rows) \in DOMAIN rows
      BY <1>2, <2>2
    <3>2. rows[Len(rows)].at \in Nat
      BY <1>2, <3>1, RowFacts
    <3> QED BY <2>2, <3>2
  <2> QED BY <2>1, <2>2
<1> HIDE DEF at
<1>4. row \in Row
  BY <1>3 DEF Row
<1> HIDE DEF row
<1>5. rows' \in Seq(Row)
  BY <1>1, <1>2, <1>4
<1> QED BY <1>1, <1>5 DEF ViewsInv, ViewsTypeOK, ViewsAgree

LEMMA ViewsStart == ViewsInit => ViewsInv
BY DEF ViewsInit, ViewsInv, ViewsTypeOK, ViewsAgree

LEMMA ViewsStep == ViewsInv /\ [ViewsNext]_viewVars => ViewsInv'
<1> SUFFICES ASSUME ViewsInv, [ViewsNext]_viewVars PROVE ViewsInv'
  OBVIOUS
<1>1. CASE \E p \in Periods, v \in KpiValues, together \in BOOLEAN : Extract(p, v, together)
  BY <1>1, ExtractKeeps
<1>2. CASE \E positive \in BOOLEAN : ReadViews(positive)
  BY <1>2, ReadViewsAgree
<1>3. CASE UNCHANGED viewVars
  BY <1>3 DEF viewVars, ViewsInv, ViewsTypeOK, ViewsAgree, OncePerPeriod, InTurn, AnnualRows,
              LastOfItsKind, SummaryIsLast, TrendRunsOn
<1> QED BY <1>1, <1>2, <1>3 DEF ViewsNext

\* The readers of a KPI agree wherever their orders must, for every history of rows and every
\* order of the database.
THEOREM ReadersAgree == ViewsSpec => []ViewsAgree
<1>1. ViewsInv => ViewsAgree
  BY DEF ViewsInv
<1> QED BY <1>1, ViewsStart, ViewsStep, PTL DEF ViewsSpec

-----------------------------------------------------------------------------
(* The report.                                                             *)

ReportFields == {"pc", "wanted", "chosen", "part", "place", "footnotes", "marks"}

\* A marker that is placed stands before the next, and leads to its citation.
Resolves(mark) ==
    /\ Before(mark, report)
    /\ mark.place \in DOMAIN TextOf(mark.part)
    /\ mark.number \in DOMAIN report.footnotes
    /\ report.footnotes[mark.number] = TextOf(mark.part)[mark.place]

\* No place before the next is left out.
NoneSkipped ==
    \A part \in 1 .. NotesPart : \A place \in DOMAIN TextOf(part) :
        Before([part |-> part, place |-> place], report) =>
            \E i \in DOMAIN report.marks :
                report.marks[i].part = part /\ report.marks[i].place = place

ReportInv ==
    /\ ReportTypeOK /\ DOMAIN report = ReportFields
    /\ report.pc = "idle" => /\ report.part = 1 /\ report.place = 1
                             /\ report.footnotes = <<>> /\ report.marks = <<>>
    /\ report.pc # "idle" => report.chosen \in LatestApproved(report.wanted)
    /\ report.pc = "done" =>
        report.part = NotesPart /\ report.place > Len(TextOf(NotesPart))
    /\ \A i \in DOMAIN report.marks : Resolves(report.marks[i])
    /\ report.pc # "idle" => NoneSkipped
    /\ NumberedAsRead

LEMMA PartsKnown ==
    /\ NotesPart = 5 /\ DOMAIN SectionOrder = 1 .. 4
    /\ \A k \in 1 .. 4 : SectionOrder[k] \in OutputTypes
BY DEF NotesPart, SectionOrder, OutputTypes

\* The chosen row of a type is an approved one of it, and wanted.
LEMMA ChosenApproved ==
    ASSUME report.chosen \in LatestApproved(report.wanted)
    PROVE  /\ \A t \in DOMAIN report.chosen : report.chosen[t] \in ApprovedRows(t)
           /\ \A t \in OutputTypes \ DOMAIN report.chosen : ApprovedRows(t) = {}
<1> DEFINE types == {t \in OutputTypes : /\ ApprovedOf(t) # {}
                                         /\ report.wanted = {} \/ t \in report.wanted}
<1>1. /\ report.chosen \in [types -> DOMAIN outputs]
      /\ \A t \in types : report.chosen[t] \in ApprovedOf(t)
    BY DEF LatestApproved
<1>2. \A t \in types : report.chosen[t] \in ApprovedRows(t)
    BY <1>1 DEF ApprovedOf, ApprovedRows
<1>3. \A t \in OutputTypes \ types : ApprovedRows(t) = {}
    BY DEF ApprovedOf, ApprovedRows
<1> QED BY <1>1, <1>2, <1>3

LEMMA TextIsText ==
    ReportTypeOK /\ report.chosen \in LatestApproved(report.wanted) =>
        \A part \in 1 .. NotesPart : TextOf(part) \in Seq(References)
<1> SUFFICES ASSUME ReportTypeOK, report.chosen \in LatestApproved(report.wanted),
                    NEW part \in 1 .. NotesPart PROVE TextOf(part) \in Seq(References)
    OBVIOUS
<1>1. \A c \in Contents : c \in Seq(References)
    BY ReportAssumption
<1>2. \A k \in DOMAIN outputs : outputs[k].content \in Contents
    <2>1. \A k \in DOMAIN outputs : outputs[k] \in Rows
        BY DEF ReportTypeOK
    <2> QED BY <2>1 DEF Rows
<1>3. <<>> \in Seq(References)
    OBVIOUS
<1>4. CASE part \in DOMAIN SectionOrder /\ SectionOrder[part] \in DOMAIN report.chosen
    <2>1. report.chosen[SectionOrder[part]] \in DOMAIN outputs
        BY <1>4, ChosenApproved DEF ApprovedRows
    <2>2. TextOf(part) = outputs[report.chosen[SectionOrder[part]]].content
        BY <1>4, PartsKnown DEF TextOf
    <2> QED BY <1>1, <1>2, <2>1, <2>2
<1>5. CASE part = NotesPart /\ notes # NoNotes
    <2>1. TextOf(part) = notes
        BY <1>5, PartsKnown DEF TextOf
    <2> QED BY <1>1, <1>5, <2>1 DEF ReportTypeOK
<1>6. CASE /\ ~(part \in DOMAIN SectionOrder /\ SectionOrder[part] \in DOMAIN report.chosen)
           /\ ~(part = NotesPart /\ notes # NoNotes)
    <2>1. TextOf(part) = <<>>
        BY <1>6 DEF TextOf
    <2> QED BY <1>3, <2>1
<1> QED BY <1>4, <1>5, <1>6

\* Nothing is placed yet.
LEMMA NothingPlaced ==
    ASSUME report.marks = <<>>, report.footnotes = <<>>
    PROVE  NumberedAsRead /\ \A i \in DOMAIN report.marks : Resolves(report.marks[i])
<1>1. DOMAIN report.marks = {} /\ DOMAIN report.footnotes = {}
    OBVIOUS
<1> QED BY <1>1, Zenon DEF NumberedAsRead

LEMMA NothingToSkip ==
    /\ report.part = 1 /\ report.place = 1
    /\ ReportTypeOK /\ report.chosen \in LatestApproved(report.wanted)
    => NoneSkipped
<1> SUFFICES ASSUME report.part = 1, report.place = 1,
                    \A part \in 1 .. NotesPart : TextOf(part) \in Seq(References),
                    NEW part \in 1 .. NotesPart, NEW place \in DOMAIN TextOf(part),
                    Before([part |-> part, place |-> place], report)
             PROVE  FALSE
    BY TextIsText DEF NoneSkipped
<1>1. place \in Nat \ {0}
    OBVIOUS
<1> QED BY <1>1, PartsKnown DEF Before

LEMMA ReportBegins == ReportInit => ReportInv
<1> SUFFICES ASSUME ReportInit PROVE ReportInv
    OBVIOUS
<1>1. outputs = <<>> /\ notes = NoNotes /\ report = NoReport
    BY DEF ReportInit
<1>2. NumberedAsRead /\ \A i \in DOMAIN report.marks : Resolves(report.marks[i])
    BY <1>1, NothingPlaced DEF NoReport
<1>3. ReportTypeOK
    BY <1>1, PartsKnown, ReportAssumption DEF NoReport, ReportTypeOK
<1> QED BY <1>1, <1>2, <1>3 DEF NoReport, ReportInv, ReportFields

LEMMA SameText ==
    ASSUME report'.chosen = report.chosen, UNCHANGED <<outputs, notes>>
    PROVE  \A part : TextOf(part)' = TextOf(part)
BY DEF TextOf

\* _footnote_number returns where the citation stands, and adds it at the end
\* if it is not there.
LEMMA NumberFound ==
    ASSUME NEW citation \in References, report.footnotes \in Seq(References)
    PROVE  LET footnotes == Numbered(citation)
               n == NumberOf(footnotes, citation)
           IN /\ footnotes \in Seq(References)
              /\ n \in DOMAIN footnotes /\ footnotes[n] = citation
              /\ Len(report.footnotes) <= Len(footnotes)
              /\ \A k \in DOMAIN report.footnotes : footnotes[k] = report.footnotes[k]
              /\ \/ footnotes = report.footnotes
                 \/ /\ footnotes = Append(report.footnotes, citation)
                    /\ \A k \in DOMAIN report.footnotes : report.footnotes[k] # citation
                    /\ n = Len(report.footnotes) + 1
<1> DEFINE footnotes == Numbered(citation)
           n == NumberOf(footnotes, citation)
<1>1. ASSUME \E k \in DOMAIN footnotes : footnotes[k] = citation
      PROVE  n \in DOMAIN footnotes /\ footnotes[n] = citation
    BY <1>1, Zenon DEF NumberOf
<1>2. CASE \E k \in DOMAIN report.footnotes : report.footnotes[k] = citation
    <2>1. footnotes = report.footnotes
        BY <1>2 DEF Numbered
    <2> HIDE DEF footnotes, n
    <2>2. n \in DOMAIN footnotes /\ footnotes[n] = citation
        BY <1>1, <1>2, <2>1
    <2> QED BY <2>1, <2>2 DEF footnotes, n
<1>3. CASE ~\E k \in DOMAIN report.footnotes : report.footnotes[k] = citation
    <2>1. footnotes = Append(report.footnotes, citation)
        BY <1>3 DEF Numbered
    <2> HIDE DEF footnotes, n
    <2>2. /\ footnotes \in Seq(References) /\ Len(footnotes) = Len(report.footnotes) + 1
          /\ \A k \in DOMAIN report.footnotes : footnotes[k] = report.footnotes[k]
          /\ footnotes[Len(report.footnotes) + 1] = citation
        BY <2>1
    <2>3. n \in DOMAIN footnotes /\ footnotes[n] = citation
        BY <1>1, <2>2
    <2>4. n = Len(report.footnotes) + 1
        BY <1>3, <2>2, <2>3
    <2> QED BY <1>3, <2>1, <2>2, <2>3, <2>4 DEF footnotes, n
<1> QED BY <1>2, <1>3

LEMMA NothingToSkipNext ==
    (/\ report.part = 1 /\ report.place = 1
     /\ ReportTypeOK /\ report.chosen \in LatestApproved(report.wanted)
     => NoneSkipped)'
BY NothingToSkip, PTL

\* As long as nothing is placed, the rows may change, and one is chosen by type.
LEMMA NothingPlacedNext ==
    ASSUME ReportTypeOK', DOMAIN report' = ReportFields,
           report'.pc # "done", report'.part = 1, report'.place = 1,
           report'.marks = <<>>, report'.footnotes = <<>>,
           report'.pc # "idle" => (report.chosen \in LatestApproved(report.wanted))'
    PROVE  ReportInv'
<1>1. NumberedAsRead' /\ \A i \in DOMAIN report'.marks : Resolves(report.marks[i])'
    <2>1. DOMAIN report'.marks = {} /\ DOMAIN report'.footnotes = {}
        OBVIOUS
    <2> QED BY <2>1, Zenon DEF NumberedAsRead
<1>2. report'.pc # "idle" => NoneSkipped'
    BY NothingToSkipNext
<1> QED BY <1>1, <1>2, Zenon DEF ReportInv

\* One marker more: its place was the next, and its number is that of an equal
\* citation met before, or one above them all.
LEMMA MarkerPlaced == ReportInv /\ PlaceMarker => ReportInv'
<1> SUFFICES ASSUME ReportInv, PlaceMarker PROVE ReportInv'
    OBVIOUS
<1> DEFINE content == TextOf(report.part)
           citation == content[report.place]
           n == NumberOf(Numbered(citation), citation)
           mark == [part |-> report.part, place |-> report.place, number |-> n]
           marks == report.marks
           new == Len(marks) + 1
<1>1. /\ ReportTypeOK /\ DOMAIN report = ReportFields
      /\ report.chosen \in LatestApproved(report.wanted)
      /\ \A i \in DOMAIN marks : Resolves(marks[i])
      /\ NoneSkipped /\ NumberedAsRead
    BY DEF ReportInv, PlaceMarker
<1>2. /\ report.pc = "render" /\ report.place <= Len(content)
      /\ report' = [report EXCEPT !.place = @ + 1, !.footnotes = Numbered(citation),
                                  !.marks = Append(@, mark)]
      /\ UNCHANGED <<outputs, notes>>
    BY DEF PlaceMarker
<1>3. /\ report.part \in 1 .. NotesPart /\ report.place \in Nat \ {0} /\ marks \in Seq(Marks)
      /\ report.footnotes \in Seq(References)
      /\ content \in Seq(References)
    BY <1>1, TextIsText DEF ReportTypeOK
<1>4. report.place \in DOMAIN content /\ citation \in References
    BY <1>2, <1>3
<1> HIDE DEF content
<1>5. /\ Numbered(citation) \in Seq(References)
      /\ n \in DOMAIN Numbered(citation) /\ Numbered(citation)[n] = citation
      /\ Len(report.footnotes) <= Len(Numbered(citation))
      /\ \A k \in DOMAIN report.footnotes : Numbered(citation)[k] = report.footnotes[k]
      /\ \/ Numbered(citation) = report.footnotes
         \/ /\ Numbered(citation) = Append(report.footnotes, citation)
            /\ \A k \in DOMAIN report.footnotes : report.footnotes[k] # citation
            /\ n = Len(report.footnotes) + 1
    BY <1>3, <1>4, NumberFound
<1>6. n \in Nat
    BY <1>5
<1> DEFINE F == Numbered(citation)
<1> HIDE DEF n, F, citation
<1>7. mark \in Marks
    BY <1>3, <1>6 DEF Marks
<1>8. /\ report'.pc = "render" /\ report'.wanted = report.wanted /\ report'.chosen = report.chosen
      /\ report'.part = report.part /\ report'.place = report.place + 1
      /\ report'.footnotes = F /\ report'.marks = Append(marks, mark)
      /\ DOMAIN report' = ReportFields
    <2> HIDE DEF mark
    <2> QED BY <1>1, <1>2 DEF ReportFields, F
<1>9. /\ report'.marks \in Seq(Marks) /\ Len(report'.marks) = new /\ new \in Nat \ {0}
      /\ DOMAIN marks = 1 .. new - 1 /\ DOMAIN report'.marks = 1 .. new
      /\ \A i \in 1 .. new - 1 : report'.marks[i] = marks[i]
      /\ report'.marks[new] = mark
      /\ \A i \in 1 .. new - 1 : marks[i] \in Marks
    <2> HIDE DEF mark
    <2> QED BY <1>3, <1>7, <1>8
<1>10. /\ mark.part = report.part /\ mark.place = report.place /\ mark.number = n
    OBVIOUS
<1> HIDE DEF mark, marks, new
<1>11. /\ F \in Seq(References) /\ n \in DOMAIN F /\ F[n] = citation
       /\ DOMAIN report.footnotes \subseteq DOMAIN F
       /\ \A k \in DOMAIN report.footnotes : F[k] = report.footnotes[k]
    BY <1>3, <1>5 DEF F
<1>12. \A part : TextOf(part)' = TextOf(part)
    BY <1>2, <1>8, SameText
<1>13. ReportTypeOK'
    BY <1>1, <1>2, <1>3, <1>8, <1>9, <1>11 DEF ReportTypeOK
<1>14. (report.chosen \in LatestApproved(report.wanted))'
    BY <1>1, <1>2, <1>8 DEF LatestApproved, ApprovedOf
<1>15. \A m \in Marks : Before(m, report) => Before(m, report')
    BY <1>3, <1>8, PartsKnown DEF Before, Marks
<1>16. ASSUME NEW i \in DOMAIN report'.marks PROVE Resolves(report.marks[i])'
    <2>1. CASE i = new
        <3>1. Before(mark, report')
            BY <1>3, <1>8, <1>10 DEF Before
        <3>2. citation = TextOf(report.part)[report.place]
            BY DEF citation, content
        <3>3. report.place \in DOMAIN TextOf(report.part)
            BY <1>4 DEF content
        <3> QED BY <2>1, <3>1, <3>2, <3>3, <1>8, <1>9, <1>10, <1>11, <1>12 DEF Resolves
    <2>2. CASE i \in 1 .. new - 1
        <3>1. Resolves(marks[i]) /\ marks[i] \in Marks /\ report'.marks[i] = marks[i]
            BY <1>1, <1>9, <2>2 DEF marks
        <3>2. Before(marks[i], report')
            BY <1>15, <3>1 DEF Resolves
        <3> QED BY <3>1, <3>2, <1>8, <1>11, <1>12 DEF Resolves
    <2> QED BY <1>9, <2>1, <2>2
<1>17. NoneSkipped'
    <2> SUFFICES ASSUME NEW part \in 1 .. NotesPart, NEW place \in DOMAIN TextOf(part),
                        Before([part |-> part, place |-> place], report')
                 PROVE  \E i \in DOMAIN report'.marks :
                            report'.marks[i].part = part /\ report'.marks[i].place = place
        BY <1>12 DEF NoneSkipped
    <2>1. place \in Nat
        BY <1>1, TextIsText
    <2>2. CASE Before([part |-> part, place |-> place], report)
        <3>1. PICK i \in DOMAIN marks : marks[i].part = part /\ marks[i].place = place
            BY <1>1, <2>2 DEF NoneSkipped, marks
        <3> QED BY <1>9, <3>1
    <2>3. CASE ~Before([part |-> part, place |-> place], report)
        <3>1. part = report.part /\ place = report.place
            BY <1>3, <1>8, <2>1, <2>3, PartsKnown DEF Before
        <3>2. new \in DOMAIN report'.marks
            BY <1>9
        <3>3. report'.marks[new].part = part /\ report'.marks[new].place = place
            BY <1>9, <1>10, <3>1, Zenon
        <3> QED BY <3>2, <3>3
    <2> QED BY <2>2, <2>3
<1>18. ASSUME NEW k \in DOMAIN report.footnotes
       PROVE  \E i \in 1 .. new - 1 : report'.marks[i].number = k
    <2>1. PICK i \in DOMAIN marks : marks[i].number = k
        BY <1>1 DEF NumberedAsRead, marks
    <2> QED BY <1>9, <2>1
<1>19. \A a, b \in DOMAIN F : F[a] = F[b] => a = b
    <2>1. \A a, b \in DOMAIN report.footnotes :
            report.footnotes[a] = report.footnotes[b] => a = b
        BY <1>1 DEF NumberedAsRead
    <2> QED BY <1>3, <1>5, <2>1 DEF F
<1>20. ASSUME NEW k \in DOMAIN F PROVE \E i \in 1 .. new : report'.marks[i].number = k
    <2>1. CASE k \in DOMAIN report.footnotes
        BY <1>9, <1>18, <2>1
    <2>2. CASE k \notin DOMAIN report.footnotes
        <3>1. k = n
            BY <1>3, <1>5, <2>2 DEF F
        <3>2. new \in 1 .. new
            BY <1>9
        <3>3. report'.marks[new].number = k
            BY <1>9, <1>10, <3>1, Zenon
        <3> QED BY <3>2, <3>3
    <2> QED BY <2>1, <2>2
<1>21. ASSUME NEW i \in 1 .. new, NEW j \in 1 .. i - 1
       PROVE  Before(report'.marks[j], report'.marks[i])
    <2>1. j \in 1 .. new - 1 /\ report'.marks[j] = marks[j]
        BY <1>9
    <2>2. CASE i = new
        <3>1. Before(marks[j], report)
            BY <1>1, <1>9, <2>1 DEF Resolves, marks
        <3> QED BY <1>9, <1>10, <2>1, <2>2, <3>1 DEF Before
    <2>3. CASE i \in 1 .. new - 1
        <3>1. Before(marks[j], marks[i])
            BY <1>1, <1>9, <2>3 DEF NumberedAsRead, marks
        <3> QED BY <1>9, <2>1, <2>3, <3>1
    <2> QED BY <1>9, <2>2, <2>3
<1>22. ASSUME NEW i \in 1 .. new, report'.marks[i].number > 1
       PROVE  \E j \in 1 .. i - 1 : report'.marks[j].number = report'.marks[i].number - 1
    <2>1. CASE i = new
        <3>1. n - 1 \in DOMAIN report.footnotes
            BY <1>3, <1>5, <1>6, <1>9, <1>10, <1>22, <2>1
        <3> QED BY <1>9, <1>10, <1>18, <2>1, <3>1
    <2>2. CASE i \in 1 .. new - 1
        <3>1. PICK j \in 1 .. i - 1 : marks[j].number = marks[i].number - 1
            BY <1>1, <1>9, <1>22, <2>2 DEF NumberedAsRead, marks
        <3>2. j \in 1 .. new - 1
            BY <1>9, <2>2
        <3> QED BY <1>9, <2>2, <3>1, <3>2
    <2> QED BY <1>9, <2>1, <2>2
<1>23. \A i \in 1 .. new : report'.marks[i].number \in DOMAIN F
    BY <1>8, <1>9, <1>16 DEF Resolves
<1>24. NumberedAsRead'
    BY <1>8, <1>9, <1>19, <1>20, <1>21, <1>22, <1>23 DEF NumberedAsRead
<1> QED BY <1>8, <1>13, <1>14, <1>16, <1>17, <1>24 DEF ReportInv

\* The next part begins where no marker stands.
LEMMA PartEnded == ReportInv /\ NextPart => ReportInv'
<1> SUFFICES ASSUME ReportInv, NextPart PROVE ReportInv'
    OBVIOUS
<1>1. /\ ReportTypeOK /\ DOMAIN report = ReportFields
      /\ report.chosen \in LatestApproved(report.wanted)
      /\ \A i \in DOMAIN report.marks : Resolves(report.marks[i])
      /\ NoneSkipped /\ NumberedAsRead
    BY DEF ReportInv, NextPart
<1>2. /\ report.pc = "render" /\ report.place > Len(TextOf(report.part))
      /\ report' = IF report.part = NotesPart THEN [report EXCEPT !.pc = "done"]
                   ELSE [report EXCEPT !.part = @ + 1, !.place = 1]
      /\ UNCHANGED <<outputs, notes>>
    BY DEF NextPart
<1>3. /\ report.part \in 1 .. NotesPart /\ report.place \in Nat \ {0}
      /\ report.marks \in Seq(Marks)
      /\ \A part \in 1 .. NotesPart : TextOf(part) \in Seq(References)
    BY <1>1, TextIsText DEF ReportTypeOK
<1>4. /\ report'.wanted = report.wanted /\ report'.chosen = report.chosen
      /\ report'.footnotes = report.footnotes /\ report'.marks = report.marks
      /\ DOMAIN report' = ReportFields
      /\ \/ /\ report'.pc = "done" /\ report'.part = report.part /\ report'.place = report.place
            /\ report.part = NotesPart
         \/ /\ report'.pc = "render" /\ report'.part = report.part + 1 /\ report'.place = 1
            /\ report.part # NotesPart
    BY <1>1, <1>2 DEF ReportFields
<1>5. \A part : TextOf(part)' = TextOf(part)
    BY <1>2, <1>4, SameText
<1>6. ReportTypeOK'
    BY <1>1, <1>2, <1>3, <1>4, PartsKnown DEF ReportTypeOK
<1>7. (report.chosen \in LatestApproved(report.wanted))'
    BY <1>1, <1>2, <1>4 DEF LatestApproved, ApprovedOf
<1>8. report'.pc = "done" => report'.part = NotesPart /\ report'.place > Len(TextOf(NotesPart)')
    BY <1>2, <1>4, <1>5
<1>9. ASSUME NEW i \in DOMAIN report'.marks PROVE Resolves(report.marks[i])'
    <2>1. Resolves(report.marks[i]) /\ report.marks[i] \in Marks
        BY <1>1, <1>3, <1>4
    <2>2. \A m \in Marks : Before(m, report) => Before(m, report')
        <3>1. CASE report'.part = report.part /\ report'.place = report.place
            BY <3>1 DEF Before
        <3>2. CASE report'.part = report.part + 1
            BY <1>3, <3>2, PartsKnown DEF Before, Marks
        <3> QED BY <1>4, <3>1, <3>2
    <2>3. Before(report.marks[i], report')
        BY <2>1, <2>2 DEF Resolves
    <2> QED BY <1>4, <1>5, <2>1, <2>3 DEF Resolves
<1>10. NoneSkipped'
    <2> SUFFICES ASSUME NEW part \in 1 .. NotesPart, NEW place \in DOMAIN TextOf(part),
                        Before([part |-> part, place |-> place], report')
                 PROVE  \E i \in DOMAIN report.marks :
                            report.marks[i].part = part /\ report.marks[i].place = place
        BY <1>4, <1>5 DEF NoneSkipped
    <2>1. place \in 1 .. Len(TextOf(part))
        BY <1>3
    <2>2. Len(TextOf(report.part)) \in Nat /\ place \in Nat
        BY <1>3, <2>1
    <2>3. Before([part |-> part, place |-> place], report)
        <3>1. CASE report'.part = report.part /\ report'.place = report.place
            BY <3>1 DEF Before
        <3>2. CASE report'.part = report.part + 1 /\ report'.place = 1
            <4>1. part < report.part + 1 \/ (part = report.part + 1 /\ place < 1)
                BY <3>2 DEF Before
            <4>2. part < report.part \/ (part = report.part /\ place < report.place)
                <5>1. part \in Int /\ report.part \in Int
                    BY <1>3, PartsKnown
                <5>2. part < report.part \/ part = report.part
                    BY <2>1, <4>1, <5>1
                <5>3. part = report.part => place < report.place
                    BY <1>2, <1>3, <2>1, <2>2
                <5> QED BY <5>2, <5>3
            <4> QED BY <4>2 DEF Before
        <3> QED BY <1>4, <3>1, <3>2
    <2> QED BY <1>1, <2>3 DEF NoneSkipped
<1>11. NumberedAsRead'
    BY <1>1, <1>4 DEF NumberedAsRead
<1> QED BY <1>4, <1>6, <1>7, <1>8, <1>9, <1>10, <1>11 DEF ReportInv

LEMMA ReportStep == ReportInv /\ [ReportNext]_reportVars => ReportInv'
<1> SUFFICES ASSUME ReportInv, [ReportNext]_reportVars PROVE ReportInv'
    OBVIOUS
<1>1. /\ ReportTypeOK /\ DOMAIN report = ReportFields
      /\ report.pc = "idle" => /\ report.part = 1 /\ report.place = 1
                               /\ report.footnotes = <<>> /\ report.marks = <<>>
      /\ report.pc # "idle" => report.chosen \in LatestApproved(report.wanted)
    BY DEF ReportInv
<1>2. ASSUME NEW t \in OutputTypes, NEW a \in BOOLEAN, NEW c \in Contents, SaveOutput(t, a, c)
      PROVE  ReportInv'
    <2> DEFINE row == [type |-> t, approved |-> a, content |-> c]
    <2>1. /\ report.pc = "idle" /\ Len(outputs) < MaxOutputs
          /\ outputs' = Append(outputs, row) /\ notes' = notes /\ report' = report
        BY <1>2 DEF SaveOutput
    <2>2. row \in Rows
        BY DEF Rows
    <2> HIDE DEF row
    <2>3. outputs' \in Seq(Rows) /\ Len(outputs') <= MaxOutputs
        BY <1>1, <2>1, <2>2, ReportAssumption DEF ReportTypeOK
    <2>4. ReportTypeOK'
        BY <1>1, <2>1, <2>3 DEF ReportTypeOK
    <2> QED BY <1>1, <2>1, <2>4, NothingPlacedNext
<1>3. ASSUME NEW c \in Contents, SaveNotes(c) PROVE ReportInv'
    <2>1. report.pc = "idle" /\ notes' = c /\ outputs' = outputs /\ report' = report
        BY <1>3 DEF SaveNotes
    <2>2. ReportTypeOK'
        BY <1>1, <1>3, <2>1 DEF ReportTypeOK
    <2> QED BY <1>1, <2>1, <2>2, NothingPlacedNext
<1>4. ASSUME NEW wanted \in SUBSET OutputTypes, StartReport(wanted) PROVE ReportInv'
    <2>1. PICK chosen \in LatestApproved(wanted) :
            /\ report.pc = "idle" /\ UNCHANGED <<outputs, notes>>
            /\ report' = [report EXCEPT !.pc = IF DOMAIN chosen = {} /\ notes = NoNotes
                                               THEN "missing" ELSE "render",
                                        !.wanted = wanted, !.chosen = chosen]
        BY <1>4 DEF StartReport
    <2>2. /\ report'.pc \in {"render", "missing"}
          /\ report'.wanted = wanted /\ report'.chosen = chosen
          /\ report'.part = report.part /\ report'.place = report.place
          /\ report'.footnotes = report.footnotes /\ report'.marks = report.marks
          /\ DOMAIN report' = ReportFields
        BY <1>1, <2>1 DEF ReportFields
    <2>3. ReportTypeOK'
        BY <1>1, <2>1, <2>2 DEF ReportTypeOK
    <2>4. (report.chosen \in LatestApproved(report.wanted))'
        BY <2>1, <2>2 DEF LatestApproved, ApprovedOf
    <2> QED BY <1>1, <2>1, <2>2, <2>3, <2>4, NothingPlacedNext
<1>5. CASE PlaceMarker
    BY <1>5, MarkerPlaced
<1>6. CASE NextPart
    BY <1>6, PartEnded
<1>7. CASE UNCHANGED reportVars
    <2>1. outputs' = outputs /\ notes' = notes /\ report' = report
        BY <1>7 DEF reportVars
    <2>2. \A part : TextOf(part)' = TextOf(part)
        BY <2>1 DEF TextOf
    <2>3. ReportTypeOK'
        BY <1>1, <2>1 DEF ReportTypeOK
    <2>4. report'.pc # "idle" => (report.chosen \in LatestApproved(report.wanted))'
        BY <1>1, <2>1 DEF LatestApproved, ApprovedOf
    <2>5. \A i \in DOMAIN report'.marks : Resolves(report.marks[i])'
        BY <2>1, <2>2 DEF ReportInv, Resolves
    <2>6. report'.pc # "idle" => NoneSkipped'
        BY <2>1, <2>2 DEF ReportInv, NoneSkipped
    <2>7. NumberedAsRead'
        BY <2>1 DEF ReportInv, NumberedAsRead
    <2>8. report'.pc = "done" =>
            (report.part = NotesPart /\ report.place > Len(TextOf(NotesPart)))'
        BY <2>1, <2>2 DEF ReportInv
    <2> QED BY <1>1, <2>1, <2>3, <2>4, <2>5, <2>6, <2>7, <2>8 DEF ReportInv
<1> QED BY <1>2, <1>3, <1>4, <1>5, <1>6, <1>7 DEF ReportNext

\* At the end every place of a part has its marker.
LEMMA PartIsRead ==
    ASSUME ReportInv, report.pc = "done", NEW part \in 1 .. NotesPart
    PROVE  Reads(part, TextOf(part))
<1>1. /\ ReportTypeOK /\ report.chosen \in LatestApproved(report.wanted)
      /\ report.part = NotesPart /\ report.place > Len(TextOf(NotesPart))
      /\ \A i \in DOMAIN report.marks : Resolves(report.marks[i])
      /\ NoneSkipped
    BY DEF ReportInv
<1>2. TextOf(part) \in Seq(References) /\ TextOf(NotesPart) \in Seq(References)
    BY <1>1, TextIsText, PartsKnown
<1>3. ASSUME NEW place \in DOMAIN TextOf(part)
      PROVE  Before([part |-> part, place |-> place], report)
    <2>1. place \in 1 .. Len(TextOf(part))
        BY <1>2
    <2>2. CASE part = NotesPart
        <3>1. report.place \in Nat /\ Len(TextOf(NotesPart)) \in Nat
            BY <1>1, <1>2 DEF ReportTypeOK
        <3>2. place < report.place
            BY <1>1, <2>1, <2>2, <3>1
        <3> QED BY <1>1, <2>2, <3>2 DEF Before
    <2>3. CASE part # NotesPart
        <3>1. part < NotesPart
            BY <2>3, PartsKnown
        <3> QED BY <1>1, <3>1 DEF Before
    <2> QED BY <2>2, <2>3
<1>4. \A place \in DOMAIN TextOf(part) : \E i \in DOMAIN report.marks :
        report.marks[i].part = part /\ report.marks[i].place = place
    BY <1>1, <1>3 DEF NoneSkipped
<1> QED BY <1>1, <1>4, Zenon DEF Reads, Resolves

LEMMA ReportIsResolved == ReportInv => FootnotesResolve
<1> SUFFICES ASSUME ReportInv, report.pc = "done" PROVE FootnotesResolve
    BY DEF FootnotesResolve
<1>1. report.chosen \in LatestApproved(report.wanted) /\ NumberedAsRead
    BY DEF ReportInv
<1>2. ASSUME NEW part \in DOMAIN SectionOrder
      PROVE  \/ \E k \in ApprovedRows(SectionOrder[part]) : Reads(part, outputs[k].content)
             \/ ApprovedRows(SectionOrder[part]) = {} /\ Reads(part, <<>>)
    <2>1. Reads(part, TextOf(part)) /\ part # NotesPart /\ SectionOrder[part] \in OutputTypes
        BY PartIsRead, PartsKnown
    <2>2. CASE SectionOrder[part] \in DOMAIN report.chosen
        <3>1. report.chosen[SectionOrder[part]] \in ApprovedRows(SectionOrder[part])
            BY <1>1, <2>2, ChosenApproved
        <3>2. TextOf(part) = outputs[report.chosen[SectionOrder[part]]].content
            BY <2>1, <2>2 DEF TextOf
        <3> QED BY <2>1, <3>1, <3>2, Zenon
    <2>3. CASE SectionOrder[part] \notin DOMAIN report.chosen
        <3>1. ApprovedRows(SectionOrder[part]) = {}
            BY <1>1, <2>1, <2>3, ChosenApproved
        <3>2. TextOf(part) = <<>>
            BY <2>1, <2>3 DEF TextOf
        <3> QED BY <2>1, <3>1, <3>2
    <2> QED BY <2>2, <2>3
<1>3. Reads(NotesPart, IF notes = NoNotes THEN <<>> ELSE notes)
    <2>1. Reads(NotesPart, TextOf(NotesPart))
        BY PartIsRead, PartsKnown
    <2>2. TextOf(NotesPart) = IF notes = NoNotes THEN <<>> ELSE notes
        <3>1. NotesPart \notin DOMAIN SectionOrder
            BY PartsKnown
        <3> QED BY <3>1 DEF TextOf
    <2> QED BY <2>1, <2>2
<1> QED BY <1>1, <1>2, <1>3 DEF FootnotesResolve

\* However many citations, outputs and notes there are, the footnotes of a
\* report lead to what was cited in their place, in one list in reading order.
THEOREM FootnotesLead == ReportSpec => []FootnotesResolve
BY ReportBegins, ReportStep, ReportIsResolved, PTL DEF ReportSpec
=============================================================================
