-------------------------------- MODULE Inbox --------------------------------
(***************************************************************************)
(* The notification inboxes (services/notifications.py): one sorted set in *)
(* Redis per user, to which the scheduler's workers push, trimmed to the   *)
(* newest, and in which requests replace a member by one that is read.     *)
(***************************************************************************)
EXTENDS Integers, Sequences, FiniteSets

CONSTANTS
    Notices,     \* notifications, each of one worker
    Recipients,  \* the users they go to, in the order of the query
    Requests,    \* POST /notifications/{id}/read
    MaxInbox     \* _MAX_NOTIFICATIONS_PER_USER

Users == {Recipients[i] : i \in DOMAIN Recipients}

\* The query selects rows of users: each once.
ASSUME InboxAssumption ==
    /\ Recipients \in Seq(Users)
    /\ \A i, j \in DOMAIN Recipients : Recipients[i] = Recipients[j] => i = j
    /\ MaxInbox \in Nat /\ IsFiniteSet(Notices)

VARIABLES
    inbox,    \* of each user: members with their scores
    notifier, \* each worker: the recipient it is at, and the score it took
    marker,   \* each request, with what it read
    now,      \* a time stamp for every reading of the clock
    pushed, marked   \* of each user: what was pushed, with its score; and read

inboxVars == <<inbox, notifier, marker, now, pushed, marked>>

-----------------------------------------------------------------------------

MaxNow == Cardinality(Notices) * Len(Recipients)
Member == [id : Notices, score : 0 .. MaxNow, read : BOOLEAN]

NotAsked == [pc |-> "idle"]

InboxInit ==
    /\ inbox = [u \in Users |-> {}]
    /\ notifier = [n \in Notices |-> [pc |-> "idle", at |-> 1, score |-> 0]]
    /\ marker = [r \in Requests |-> NotAsked]
    /\ now = 0
    /\ pushed = [u \in Users |-> {}] /\ marked = [u \in Users |-> {}]

\* notify_earnings_complete from its query on, which may find no recipients;
\* the live channel is not stored.
Notify(n) ==
    /\ notifier[n].pc = "idle"
    /\ notifier' = [notifier EXCEPT ![n].pc = IF Recipients = <<>> THEN "sent" ELSE "stamp"]
    /\ UNCHANGED <<inbox, marker, now, pushed, marked>>

\* _push_to_inbox reads the clock, then awaits its transaction.
Stamp(n) ==
    /\ notifier[n].pc = "stamp"
    /\ now' = now + 1
    /\ notifier' = [notifier EXCEPT ![n].pc = "push", ![n].score = now']
    /\ UNCHANGED <<inbox, marker, pushed, marked>>

\* The members with the highest scores stay.
Newest(members, k) ==
    {m \in members : Cardinality({x \in members : x.score > m.score}) < k}

\* Mutant: zremrangebyrank(key, 0, -MAX), one rank too many.
TrimmedByOne(members) == Newest(members, MaxInbox - 1)

Trimmed(members) == Newest(members, MaxInbox)

Push(n) ==
    /\ notifier[n].pc = "push"
    /\ LET u == Recipients[notifier[n].at]
           notice == [id |-> n, score |-> notifier[n].score]
       IN /\ inbox' = [inbox EXCEPT ![u] = Trimmed(@ \cup
                            {[id |-> n, score |-> notifier[n].score, read |-> FALSE]})]
          /\ pushed' = [pushed EXCEPT ![u] = @ \cup {notice}]
    /\ notifier' = [notifier EXCEPT ![n] =
            [pc |-> IF @.at = Len(Recipients) THEN "sent" ELSE "stamp",
             at |-> @.at + 1, score |-> @.score]]
    /\ UNCHANGED <<marker, now, marked>>

\* A Redis error: the recipients that are left get nothing.
NotifierFails(n) ==
    /\ notifier[n].pc \in {"stamp", "push"}
    /\ notifier' = [notifier EXCEPT ![n].pc = "failed"]
    /\ UNCHANGED <<inbox, marker, now, pushed, marked>>

\* mark_read, up to its await: the member with the id, if there is one that is
\* not yet read.
ReadInbox(r, u, n) ==
    /\ marker[r] = NotAsked
    /\ \E m \in inbox[u] :
        /\ m.id = n /\ ~m.read
        /\ marker' = [marker EXCEPT ![r] = [pc |-> "replace", user |-> u, member |-> m]]
    /\ UNCHANGED <<inbox, notifier, now, pushed, marked>>

\* Its transaction: zrem, which may find nothing, and zadd.
ReplaceMember(r) ==
    /\ marker[r].pc = "replace"
    /\ LET u == marker[r].user
           m == marker[r].member
       IN /\ inbox' = [inbox EXCEPT ![u] = (@ \ {m}) \cup
                            {[id |-> m.id, score |-> m.score, read |-> TRUE]}]
          /\ marked' = [marked EXCEPT ![u] = @ \cup {m.id}]
    /\ marker' = [marker EXCEPT ![r] = [pc |-> "done"]]
    /\ UNCHANGED <<notifier, now, pushed>>

\* get_unread_notifications.
Unread(u) == {m.id : m \in {x \in inbox[u] : ~x.read}}

InboxNext ==
    \/ \E n \in Notices : Notify(n) \/ Stamp(n) \/ Push(n) \/ NotifierFails(n)
    \/ \E r \in Requests : ReplaceMember(r) \/ \E u \in Users, n \in Notices : ReadInbox(r, u, n)

InboxSpec == InboxInit /\ [][InboxNext]_inboxVars

-----------------------------------------------------------------------------
(* Properties.                                                             *)

InboxTypeOK ==
    /\ \A u \in Users : inbox[u] \subseteq Member /\ marked[u] \subseteq Notices
    /\ \A n \in Notices : notifier[n] \in [pc : {"idle", "stamp", "push", "sent", "failed"},
                                           at : 1 .. Len(Recipients) + 1, score : 0 .. MaxNow]
    /\ \A r \in Requests :
        marker[r].pc = "replace" => marker[r].user \in Users /\ marker[r].member \in Member
    /\ now \in 0 .. MaxNow

\* Pushes that come in late, trims and requests that replace what they read
\* before: each of a user's newest notifications is in the inbox once, and
\* listed as unread until it was read and not after. One that was trimmed in
\* the meantime comes back as read, so that the inbox is longer than its bound,
\* by no more than the requests that ended late.
UnreadKept ==
    \A u \in Users :
        /\ \A x \in Newest(pushed[u], MaxInbox) :
            /\ Cardinality({m \in inbox[u] : m.id = x.id}) = 1
            /\ x.id \in Unread(u) <=> x.id \notin marked[u]
        /\ Cardinality(inbox[u]) <= MaxInbox + Cardinality(marked[u])
=============================================================================
