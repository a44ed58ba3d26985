--------------------------- MODULE EdgarConnector ---------------------------
(***************************************************************************)
(* One SECEdgarConnector (rag/connectors/sec_edgar.py) and the coroutines  *)
(* that share it: CIK lookup with its cache, the list of filings, the      *)
(* index of a filing, its document; every request goes through the token   *)
(* bucket and is tried up to three times.                                  *)
(***************************************************************************)
EXTENDS Integers, FiniteSets

CONSTANTS
    Callers,   \* coroutines, each about to fetch one filing
    Interval,  \* ticks in which the bucket fills: 1 / rate_limit_rps
    Backoff,   \* retry_backoff_base in ticks
    MaxTicks   \* bound on the clock

ASSUME EdgarAssumption == Interval \in Nat \ {0} /\ Backoff \in Nat /\ MaxTicks \in Nat

VARIABLES
    ticks,     \* time.monotonic()
    bucket,    \* tokens, in ticks worth of them, and when they were counted
    cached,    \* the CIK is in _cik_cache
    caller,    \* each coroutine
    sent       \* when the last two requests went out

edgarVars == <<ticks, bucket, cached, caller, sent>>

-----------------------------------------------------------------------------

Stages == {"none", "cik", "list", "index", "document"}
CallerPC == {"idle", "acquire", "sleep", "get", "backoff", "stored", "failed"}

\* No request has been sent.
Long == 0 - Interval

EdgarInit ==
    /\ ticks = 0
    /\ bucket = [tokens |-> Interval, last |-> 0]
    /\ cached = FALSE
    /\ caller = [c \in Callers |-> [pc |-> "idle", stage |-> "none", attempt |-> 0, wake |-> 0]]
    /\ sent = <<Long, Long>>

Tick ==
    /\ ticks < MaxTicks
    /\ ticks' = ticks + 1
    /\ UNCHANGED <<bucket, cached, caller, sent>>

Fetching(c, stage) ==
    caller' = [caller EXCEPT ![c] = [pc |-> "acquire", stage |-> stage, attempt |-> 1, wake |-> 0]]

\* list_filings, after get_cik unless the cache has the ticker.
CallConnector(c) ==
    /\ caller[c].pc = "idle"
    /\ Fetching(c, IF cached THEN "list" ELSE "cik")
    /\ UNCHANGED <<ticks, bucket, cached, sent>>

\* Mutant: tokens gather while nothing is asked.
FilledTwice == IF bucket.tokens + ticks - bucket.last > 2 * Interval THEN 2 * Interval
               ELSE bucket.tokens + ticks - bucket.last

\* _TokenBucket.acquire: one turn of its loop, under the lock.
Filled == IF bucket.tokens + ticks - bucket.last > Interval THEN Interval
          ELSE bucket.tokens + ticks - bucket.last

Awake(c) ==
    \/ caller[c].pc = "acquire"
    \/ caller[c].pc \in {"sleep", "backoff"} /\ ticks >= caller[c].wake

Acquire(c) ==
    /\ Awake(c)
    /\ IF Filled >= Interval
       THEN /\ bucket' = [tokens |-> Filled - Interval, last |-> ticks]
            /\ caller' = [caller EXCEPT ![c].pc = "get", ![c].wake = 0]
            /\ sent' = <<sent[2], ticks>>
       ELSE /\ bucket' = [tokens |-> Filled, last |-> ticks]
            /\ caller' = [caller EXCEPT ![c].pc = "sleep", ![c].wake = ticks + Interval - Filled]
            /\ UNCHANGED sent
    /\ UNCHANGED <<ticks, cached>>

\* What follows the last try of a request: a filing without a readable index
\* has a primary document, and all else ends the call.
GivesUp(c) ==
    IF caller[c].stage = "index" THEN Fetching(c, "document")
    ELSE caller' = [caller EXCEPT ![c].pc = "failed"]

Answered200(c) ==
    /\ caller[c].pc = "get"
    /\ CASE caller[c].stage = "cik" -> Fetching(c, "list")
         [] caller[c].stage = "list" -> Fetching(c, "index")
         [] caller[c].stage = "index" -> Fetching(c, "document")
         [] OTHER -> caller' = [caller EXCEPT ![c].pc = "stored"]
    /\ cached' = (cached \/ caller[c].stage = "cik")
    /\ UNCHANGED <<ticks, bucket, sent>>

\* Mutant: a fourth try.
ThrottledOnceMore(c) ==
    /\ caller[c].pc = "get"
    /\ IF caller[c].attempt = 4 THEN GivesUp(c)
       ELSE caller' = [caller EXCEPT ![c].pc = "backoff", ![c].attempt = @ + 1,
                                     ![c].wake = ticks + Backoff * caller[c].attempt]
    /\ UNCHANGED <<ticks, bucket, cached, sent>>

\* Status 429 or 503, or no answer: again, after a pause that doubles.
Throttled(c) ==
    /\ caller[c].pc = "get"
    /\ IF caller[c].attempt = 3 THEN GivesUp(c)
       ELSE caller' = [caller EXCEPT ![c].pc = "backoff", ![c].attempt = @ + 1,
                                     ![c].wake = ticks + Backoff * caller[c].attempt]
    /\ UNCHANGED <<ticks, bucket, cached, sent>>

\* Any other status, which is not tried again; a ticker that has no CIK; no
\* filing of the form.
Refuses(c) ==
    /\ caller[c].pc = "get"
    /\ GivesUp(c)
    /\ UNCHANGED <<ticks, bucket, cached, sent>>

EdgarNext ==
    \/ Tick
    \/ \E c \in Callers :
        CallConnector(c) \/ Acquire(c) \/ Answered200(c) \/ Throttled(c) \/ Refuses(c)

EdgarSpec == EdgarInit /\ [][EdgarNext]_edgarVars

-----------------------------------------------------------------------------
(* Properties.                                                             *)

EdgarTypeOK ==
    /\ ticks \in 0 .. MaxTicks
    /\ bucket \in [tokens : 0 .. Interval, last : 0 .. MaxTicks]
    /\ cached \in BOOLEAN
    /\ \A c \in Callers :
        /\ caller[c].pc \in CallerPC /\ caller[c].stage \in Stages
        /\ caller[c].attempt \in 0 .. 3 /\ caller[c].wake \in Nat

\* sec_edgar.py:62-64: however the coroutines that share a connector, their
\* pauses and retries come together, and after whatever idle time, no two
\* requests go out within an interval.
RequestsPaced == sent[2] - sent[1] >= Interval \/ sent[2] = Long
=============================================================================
