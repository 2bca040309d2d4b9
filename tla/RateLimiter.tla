----------------------------- MODULE RateLimiter -----------------------------
(***************************************************************************)
(* The per-caller limiter of the API (ecogrid/ratelimit.py, check; api.py, *)
(* enforce_rate_limit): fixed windows of the clock, a Redis counter per    *)
(* identity and window that expires, failing open.  A caller reads the     *)
(* clock first and increments later, so the two may lie in different       *)
(* windows.                                                                *)
(*                                                                         *)
(* The clock is the time within the window; a key is one of this window or *)
(* of the last one, and what was this window's becomes the last one's when *)
(* the next begins, as long as a request is about to count there.          *)
(***************************************************************************)
EXTENDS Integers, FiniteSetsExt

CONSTANTS Callers,     \* clients of the API
          Identity,    \* of each: the digest of the key it presents, or its address
          Limit,       \* rate_limit_requests
          Window,      \* rate_limit_window_seconds, in ticks of the clock
          FaultKinds,  \* which faults may happen
          MaxFaults    \* bound: faults in a behaviour

ASSUME LimiterAssumption == /\ Limit \in Nat \ {0} /\ Window \in Nat \ {0}
                            /\ MaxFaults \in Nat
                            /\ FaultKinds \subseteq {"redis", "db", "crash"}

Identities == {Identity[c] : c \in Callers}
Buckets    == {"this", "last"}  \* window_index, counted from the window it is now

VARIABLES
  clock,     \* time.time(), modulo the window
  counters,  \* Redis: used and seconds to live of each identity's key of each window
  at,        \* where the request of each caller is
  bucket,    \* the window_index it computed, while it is about to count
  let,       \* history: requests of each identity let through in this window, and in the
             \* last one, those that counted no more than a second after its end included
  faults     \* history: faults so far

limiterVars == <<clock, counters, bucket, let>>

Absent == [used |-> 0, ttl |-> 0]

LimiterTypeOK ==
  /\ clock \in 0 .. Window - 1
  /\ counters \in [Identities -> [Buckets -> [used : 0 .. Limit + 1, ttl : 0 .. Window + 1]]]
  /\ \A i \in Identities, b \in Buckets : counters[i][b].used = 0 <=> counters[i][b].ttl = 0
  /\ bucket \in [Callers -> Buckets]
  /\ let \in [Identities -> [Buckets -> Nat]]

LimiterInit ==
  /\ clock = 0
  /\ counters = [i \in Identities |-> [b \in Buckets |-> Absent]]
  /\ at = [c \in Callers |-> "out"]
  /\ bucket = [c \in Callers |-> "this"]
  /\ let = [i \in Identities |-> [b \in Buckets |-> 0]]
  /\ faults = 0

Fault(kind) == /\ kind \in FaultKinds
               /\ faults < MaxFaults
               /\ faults' = faults + 1

Aged(counter) == IF counter.ttl <= 1 THEN Absent ELSE [counter EXCEPT !.ttl = @ - 1]

\* A second passes within the window.  Who counts for the last window now is late by more.
Tick ==
  /\ clock + 1 < Window
  /\ clock' = clock + 1
  /\ counters' = [i \in Identities |-> [b \in Buckets |-> Aged(counters[i][b])]]
  /\ let' = [i \in Identities |-> [let[i] EXCEPT !["last"] = 0]]
  /\ UNCHANGED <<at, bucket, faults>>

AboutToCount(i) == \E c \in Callers : at[c] = "count" /\ Identity[c] = i

NewKeys(i) ==
  [b \in Buckets |-> IF b = "last" /\ AboutToCount(i) THEN Aged(counters[i]["this"]) ELSE Absent]

\* A second passes and the next window begins, for which there are no keys yet.
\* Bound: a request counts before the window after its own is over.
Turn ==
  /\ clock + 1 = Window
  /\ \A c \in Callers : bucket[c] = "this"
  /\ clock' = 0
  /\ counters' = [i \in Identities |-> NewKeys(i)]
  /\ bucket' = [c \in Callers |-> IF at[c] = "count" THEN "last" ELSE "this"]
  /\ let' = [i \in Identities |->
               [b \in Buckets |-> IF b = "last" /\ AboutToCount(i) THEN let[i]["this"] ELSE 0]]
  /\ UNCHANGED <<at, faults>>

\* A request arrives: check() computes the window index.
Ask(c) == /\ at[c] = "out"
          /\ at' = [at EXCEPT ![c] = "count"]
          /\ UNCHANGED <<clock, counters, bucket, let, faults>>

\* Mutant of Lifetime: the key expires with its window.
LifetimeShort == Window

Lifetime == Window + 1

\* Mutant of Incremented: INCR alone, the key is for ever.
IncrementedOnly(c) ==
  counters' = [counters EXCEPT ![Identity[c]][bucket[c]].used = IF @ > Limit THEN @ ELSE @ + 1]

\* INCR and EXPIRE in one transaction.  used saturates above the limit.
Incremented(c) ==
  counters' = [counters EXCEPT ![Identity[c]][bucket[c]] =
                 [used |-> IF @.used > Limit THEN @.used ELSE @.used + 1, ttl |-> Lifetime]]

\* Mutant of Used: one counter for everybody.
UsedByAny(c) == Max({counters[i][bucket[c]].used : i \in Identities}) + 1

Used(c) == counters[Identity[c]][bucket[c]].used + 1

\* A request that has counted goes where; it needs its window index no more.
Leave(c, where) == /\ at[c] = "count"
                   /\ at' = [at EXCEPT ![c] = where]
                   /\ bucket' = [bucket EXCEPT ![c] = "this"]
                   /\ UNCHANGED clock

\* It is let through to what comes behind the limiter.
Pass(c, where) ==
  /\ Leave(c, where)
  /\ \/ /\ Used(c) <= Limit
        /\ Incremented(c)
        /\ let' = IF bucket[c] = "this" \/ clock = 0
                   THEN [let EXCEPT ![Identity[c]][bucket[c]] = @ + 1] ELSE let
        /\ UNCHANGED faults
     \/ /\ Fault("redis")  \* fail open: the increment may have been carried out
        /\ Incremented(c) \/ UNCHANGED counters
        /\ UNCHANGED let

\* 429 Too Many Requests.
Refuse(c) ==
  /\ Leave(c, "out")
  /\ Used(c) > Limit
  /\ Incremented(c)
  /\ UNCHANGED <<let, faults>>

\* Behind the limiter, no identity is let through more often in a fixed window than the
\* limit, whatever its credentials are worth, as long as Redis answers.  A request may read
\* the clock in one window and count in the next: the second by which the key outlives its
\* window is what it takes for such a request, if it is no later than that, not to find a
\* fresh allowance (ratelimit.py, check; FR-API-5).
ThrottleHolds == \A i \in Identities, b \in Buckets : let[i][b] <= Limit
=============================================================================
