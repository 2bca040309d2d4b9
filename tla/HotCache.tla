------------------------------- MODULE HotCache -------------------------------
(***************************************************************************)
(* The hot-read cache: one Redis key that should hold the newest window    *)
(* (ecogrid/cache.py), written by the consumer after each durable write    *)
(* and by every API request that missed (api.py, latest_telemetry).        *)
(*                                                                         *)
(* Each Redis command and each SELECT is atomic; set_latest_if_newer is a  *)
(* GET, a comparison in the client and a SET, so the clients interleave    *)
(* between them.  TelemetryConsumer takes the whole refresh as one step;   *)
(* this module is that step with its races.                                *)
(*                                                                         *)
(* Revision n of a window is revision_count n - 1.  Revision 0 stands for  *)
(* an entry some older schema wrote: it carries a window but does not      *)
(* validate as TelemetryOut.                                               *)
(***************************************************************************)
EXTENDS Integers, FiniteSetsExt

CONSTANTS Consumer,    \* the one process that writes the ledger
          Readers,     \* GET /telemetry/latest requests in flight
          Windows,     \* settlement windows, numbered in time order
          MaxRev,      \* bound: revisions of a window
          FaultKinds,  \* which Redis commands may fail
          MaxFaults,   \* bound: faults in a behaviour
          None         \* a miss

ASSUME CacheAssumption ==
  /\ Consumer \notin Readers
  /\ Windows \subseteq Nat /\ IsFiniteSet(Windows)
  /\ MaxRev \in Nat \ {0} /\ MaxFaults \in Nat
  /\ FaultKinds \subseteq {"get", "set", "del"}
  /\ None \notin [window : Windows, rev : Nat]

Clients == Readers \union {Consumer}
Rows    == [window : Windows, rev : 1 .. MaxRev]
Drifted == [window : Windows, rev : {0}]

VARIABLES
  ledger,  \* grid_telemetry: the revision of each window, 0 if it has no row
  cache,   \* the value of the key, None if absent or expired
  pc,      \* where each client is
  held,    \* the payload a client is about to cache
  seen,    \* what the GET of a client's set_latest_if_newer returned
  faults   \* history: faults so far

vars == <<ledger, cache, pc, held, seen, faults>>

TypeOK ==
  /\ ledger \in [Windows -> 0 .. MaxRev]
  /\ cache \in Rows \union Drifted \union {None}
  /\ pc \in [Clients -> {"idle", "evict", "query", "check", "set"}]
  /\ held \in [Clients -> Rows \union {None}]
  /\ seen \in [Clients -> Rows \union Drifted \union {None}]
  /\ \A c \in Clients : pc[c] \in {"check", "set"} <=> held[c] # None
  /\ faults \in Nat

HasRow(w) == ledger[w] > 0
Newest    == Max({w \in Windows : HasRow(w)})
Row(w)    == [window |-> w, rev |-> ledger[w]]

\* The platform may be restarted, or upgraded, over a ledger and a cache that exist.
Init ==
  /\ ledger \in [Windows -> {0, 1}]
  /\ cache \in {None} \union {d \in Drifted : HasRow(d.window)}
  /\ pc = [c \in Clients |-> "idle"]
  /\ held = [c \in Clients |-> None]
  /\ seen = [c \in Clients |-> None]
  /\ faults = 0

Fault(kind) == /\ kind \in FaultKinds
               /\ faults < MaxFaults
               /\ faults' = faults + 1

\* get_latest(): the entry, or a miss when Redis does not answer.
Get(got) == \/ got = cache /\ UNCHANGED faults
            \/ got = None /\ cache # None /\ Fault("get")

Goto(c, where) == pc' = [pc EXCEPT ![c] = where]
Hold(c, row)   == held' = [held EXCEPT ![c] = row]
Done(c)        == Goto(c, "idle") /\ Hold(c, None) /\ seen' = [seen EXCEPT ![c] = None]

-----------------------------------------------------------------------------
\* Mutant of ConsumerWrites: the cache is refreshed although the transaction rolled back.
ConsumerWritesBlind ==
  \E w \in Windows :
    /\ pc[Consumer] = "idle"
    /\ ledger[w] < MaxRev
    /\ ledger' \in {ledger, [ledger EXCEPT ![w] = @ + 1]}
    /\ Hold(Consumer, [window |-> w, rev |-> ledger[w] + 1])
    /\ Goto(Consumer, "check")
    /\ UNCHANGED <<cache, seen, faults>>

(***************************************************************************)
(* The consumer commits a new row or a revision, of the newest window or   *)
(* of an older one, and only then turns to the cache.  A duplicate or a    *)
(* failed write changes nothing and does not get that far.                 *)
(***************************************************************************)
ConsumerWrites ==
  \E w \in Windows :
    /\ pc[Consumer] = "idle"
    /\ ledger[w] < MaxRev
    /\ ledger' = [ledger EXCEPT ![w] = @ + 1]
    /\ Hold(Consumer, [window |-> w, rev |-> ledger[w] + 1])
    /\ Goto(Consumer, "check")
    /\ UNCHANGED <<cache, seen, faults>>

\* A request that hits is answered from the entry and changes nothing.
ReadMisses(r) ==
  /\ pc[r] = "idle"
  /\ \/ Get(None) /\ Goto(r, "query")
     \/ cache \in Drifted /\ Get(cache) /\ Goto(r, "evict")
  /\ UNCHANGED <<ledger, cache, held, seen>>

\* invalidate(): whatever the key holds by now is deleted.
Evict(r) ==
  /\ pc[r] = "evict"
  /\ \/ cache' = None /\ UNCHANGED faults
     \/ Fault("del") /\ UNCHANGED cache
  /\ Goto(r, "query")
  /\ UNCHANGED <<ledger, held, seen>>

\* Mutant of Query: any row will do.
QueryUnordered(r) ==
  /\ pc[r] = "query"
  /\ \E w \in Windows : HasRow(w) /\ Hold(r, Row(w))
  /\ Goto(r, "check")
  /\ UNCHANGED <<ledger, cache, seen, faults>>

\* Mutant of Query: an empty ledger is not a 404.
QueryUnchecked(r) ==
  /\ pc[r] = "query"
  /\ Hold(r, IF \E w \in Windows : HasRow(w) THEN Row(Newest) ELSE None)
  /\ Goto(r, "check")
  /\ UNCHANGED <<ledger, cache, seen, faults>>

\* The newest row of the ledger, or 404.
Query(r) ==
  /\ pc[r] = "query"
  /\ IF \E w \in Windows : HasRow(w)
       THEN Hold(r, Row(Newest)) /\ Goto(r, "check") /\ UNCHANGED seen
       ELSE Done(r)
  /\ UNCHANGED <<ledger, cache, faults>>

\* Mutant of Check: the entry is overwritten whatever it is.
CheckNothing(c) ==
  /\ pc[c] = "check"
  /\ \E got \in {cache, None} : Get(got) /\ seen' = [seen EXCEPT ![c] = got]
  /\ Goto(c, "set")
  /\ UNCHANGED <<ledger, cache, held>>

\* set_latest_if_newer, first half: give up if the entry is as new as the payload.
Check(c) ==
  /\ pc[c] = "check"
  /\ \E got \in {cache, None} :
       /\ Get(got)
       /\ IF got # None /\ got.window >= held[c].window
            THEN Done(c)
            ELSE Goto(c, "set") /\ seen' = [seen EXCEPT ![c] = got] /\ UNCHANGED held
  /\ UNCHANGED <<ledger, cache>>

\* set_latest_if_newer, second half.
Set(c) ==
  /\ pc[c] = "set"
  /\ \/ cache' = held[c] /\ UNCHANGED faults
     \/ Fault("set") /\ UNCHANGED cache
  /\ Done(c)
  /\ UNCHANGED ledger

\* The consumer crashes, the caller of a request goes away.
Abandon(c) ==
  /\ pc[c] # "idle"
  /\ Done(c)
  /\ UNCHANGED <<ledger, cache, faults>>

Expire ==
  /\ cache # None
  /\ cache' = None
  /\ UNCHANGED <<ledger, pc, held, seen, faults>>

GoOn(c) == Evict(c) \/ Query(c) \/ Check(c) \/ Set(c)

Next == \/ ConsumerWrites
        \/ \E r \in Readers : ReadMisses(r)
        \/ \E c \in Clients : GoOn(c) \/ Abandon(c)
        \/ Expire

(***************************************************************************)
(* A client that began goes on, or goes away.  Redis expires the key after *)
(* its time to live, which is 900 s unless it is configured as 0.  Nobody  *)
(* owes another write or another request.                                  *)
(***************************************************************************)
Spec == /\ Init /\ [][Next]_vars
        /\ \A c \in Clients : WF_vars(GoOn(c))
        /\ WF_vars(Expire)

-----------------------------------------------------------------------------
(***************************************************************************)
(* consumer.py, "best-effort after the durable write": whatever races,     *)
(* fails or expires, an answer comes from a version of a row the ledger    *)
(* has accepted, never from one it has still to commit.  (An entry of an   *)
(* older schema is not an answer: latest_telemetry evicts it.)             *)
(***************************************************************************)
Accepted(row) == row.rev <= ledger[row.window]

AnswersAreDurable ==
  /\ cache # None => Accepted(cache)
  /\ \A c \in Clients : held[c] # None => Accepted(held[c])

(***************************************************************************)
(* set_latest_if_newer: an older window replaces a newer one only by a     *)
(* race, that is, when the newer one was not there at the client's GET.    *)
(***************************************************************************)
Regresses == cache # None /\ cache' # None /\ cache'.window < cache.window

RegressOnlyByRace ==
  [][Regresses => \E c \in Clients : pc[c] = "set" /\ cache' = held[c] /\ seen[c] # cache]_vars

(***************************************************************************)
(* FR-LDG-7 in the long run: however the entry became stale (a race, a     *)
(* failed SET, a revision that the comparison of windows kept out, an old  *)
(* window cached after an expiry), once writes stop the cache is cold or   *)
(* shows the newest row at its current revision, for ever.                 *)
(***************************************************************************)
CacheHeals == <>[](cache # None => cache = Row(Newest))
=============================================================================
