----------------------- MODULE TelemetryConsumerProofs -----------------------
(***************************************************************************)
(* Theorems about TelemetryConsumer, for every topic, partitioner, bound   *)
(* and choice of faults.                                                   *)
(***************************************************************************)
EXTENDS TelemetryConsumer, FiniteSetTheorems, TLAPS

(***************************************************************************)
(* Facts about the entries of the topic.                                   *)
(***************************************************************************)
LEMMA EntryFields ==
  ASSUME NEW e \in Entries
  PROVE  /\ e.kind = "record" => e.window \in Windows /\ e.hash \in Hashes
         /\ e.kind \in {"record"} \union ForeignKinds
BY ConsumerAssumption DEF Entries

LEMMA HandledEntry ==
  ASSUME TypeOK, NEW p \in Partitions, handled[p] < position[p], position[p] <= Len(log[p])
  PROVE  Entry(p) \in Entries
<1>1. log[p] \in Seq(Entries) /\ handled[p] \in Nat /\ position[p] \in Nat
  BY DEF TypeOK
<1>2. handled[p] + 1 \in 1 .. Len(log[p])
  BY <1>1
<1> QED
  BY <1>1, <1>2 DEF Entry

(***************************************************************************)
(* Type correctness.                                                       *)
(***************************************************************************)
Bounds == \A p \in Partitions : /\ committed[p] <= position[p]
                                /\ handled[p] <= position[p]
                                /\ position[p] <= Len(log[p])

LEMMA CountType ==
  ASSUME TypeOK, NEW p \in Partitions
  PROVE  /\ \A counted : Count(stats[p], counted) \in Stats
         /\ \A e : Counted(p, e) \in Stats
<1>1. stats[p] \in [Counters -> Nat]
  BY DEF TypeOK, Stats
<1> QED
  BY <1>1 DEF Count, Counted, Stats

LEMMA GhostType ==
  ASSUME TypeOK, NEW p \in Partitions
  PROVE  /\ Advance(p) => handled' \in [Partitions -> Nat] /\ current' \in Partitions
         /\ Decide(p) => decided' \in [Partitions -> SUBSET Nat]
         /\ Miss(p) => missed' \in [Partitions -> SUBSET Nat]
<1>1. handled[p] + 1 \in Nat
  BY DEF TypeOK
<1>2. Advance(p) => handled' \in [Partitions -> Nat] /\ current' \in Partitions
  BY <1>1 DEF TypeOK, Advance
<1>3. Decide(p) => decided' \in [Partitions -> SUBSET Nat]
  BY <1>1 DEF TypeOK, Decide
<1>4. Miss(p) => missed' \in [Partitions -> SUBSET Nat]
  BY <1>1 DEF TypeOK, Miss
<1> QED
  BY <1>2, <1>3, <1>4

LEMMA UpsertType ==
  ASSUME TypeOK, NEW e \in Entries, e.kind = "record", Upsert(e)
  PROVE  /\ ledger' \in [Windows -> [hash : Hashes, rev : Nat] \union {None}]
         /\ ledger'[e.window] \in [hash : Hashes, rev : Nat]
<1>1. e.window \in Windows /\ e.hash \in Hashes
  BY EntryFields
<1>2. ledger[e.window] = None \/ ledger[e.window] \in [hash : Hashes, rev : Nat]
  BY <1>1 DEF TypeOK
<1>3. Outcome(e) = "inserted" => Row(e.hash, 0) \in [hash : Hashes, rev : Nat]
  BY <1>1 DEF Row
<1>4. Outcome(e) = "revised" =>
        Row(e.hash, ledger[e.window].rev + 1) \in [hash : Hashes, rev : Nat]
  BY <1>1, <1>2 DEF Row, Outcome
<1> QED
  BY <1>1, <1>2, <1>3, <1>4 DEF TypeOK, Upsert, Outcome

LEMMA RecordsAreEntries ==
  /\ \A w \in Windows, h \in Hashes : Record(w, h) \in Entries
  /\ \A kind \in ForeignKinds : Foreign(kind) \in Entries
BY DEF Record, Foreign, Entries

LEMMA ProduceAppends ==
  ASSUME Produce
  PROVE  \E p \in Partitions, e \in Entries : AppendEntry(p, e)
BY RecordsAreEntries, ConsumerAssumption DEF Produce

LEMMA FaultType ==
  ASSUME TypeOK, NEW kind, Fault(kind)
  PROVE  faults' \in Nat
BY DEF TypeOK, Fault

LEMMA TypeStep ==
  ASSUME TypeOK, Bounds, [Next]_vars
  PROVE  TypeOK'
<1>1. ASSUME NEW p \in Partitions, NEW e \in Entries, AppendEntry(p, e)
      PROVE  TypeOK'
  <2>1. Append(log[p], e) \in Seq(Entries)
    BY <1>1 DEF TypeOK
  <2>2. log' \in [Partitions -> Seq(Entries)]
    BY <1>1, <2>1 DEF AppendEntry, TypeOK
  <2> QED
    BY <1>1, <2>2 DEF AppendEntry, TypeOK
<1>2. CASE Poll
  <2>1. position' \in [Partitions -> Nat]
    <3>1. PICK upto \in [Partitions -> UNION {0 .. Len(log[p]) : p \in Partitions}] :
            position' = upto
      BY <1>2 DEF Poll
    <3>2. \A p \in Partitions : Len(log[p]) \in Nat
      BY DEF TypeOK
    <3> QED
      BY <3>1, <3>2
  <2> QED
    BY <1>2, <2>1 DEF Poll, TypeOK, topicVars, storeVars, ghostVars
<1>3. ASSUME NEW p \in Partitions, Reject(p)
      PROVE  TypeOK'
  <2>1. stats' \in [Partitions -> Stats]
    BY <1>3, CountType DEF Reject, TypeOK
  <2>2. <<p, handled[p] + 1>> \in Partitions \X Nat
    BY DEF TypeOK
  <2>3. dlq' \in SUBSET (Partitions \X Nat) /\ faults' \in Nat
    BY <1>3, <2>2, FaultType DEF Reject, TypeOK
  <2> QED
    BY <1>3, <2>1, <2>3, GhostType DEF Reject, TypeOK, topicVars
<1>4. ASSUME NEW p \in Partitions, AbortOnNull(p)
      PROVE  TypeOK'
  <2>1. stats' \in [Partitions -> Stats]
    BY <1>4, CountType DEF AbortOnNull, TypeOK
  <2>2. abandoned' \in [Partitions -> SUBSET Nat]
    BY <1>4 DEF AbortOnNull, TypeOK
  <2> QED
    BY <1>4, <2>1, <2>2 DEF AbortOnNull, TypeOK, topicVars, storeVars
<1>5. ASSUME NEW p \in Partitions, Turn(p), Entry(p).kind = "record"
      PROVE  Entry(p) \in Entries
  BY <1>5, HandledEntry DEF Turn, Bounds
<1>6. ASSUME NEW p \in Partitions, UpdateAudit(p, Entry(p))
      PROVE  audit' \in [Partitions -> [last : Nat, counters : Stats] \union {None}]
  <2> DEFINE n == handled[p] + 1
             last == IF audit[p] # None /\ audit[p].last > n THEN audit[p].last ELSE n
  <2>1. last \in Nat
    BY DEF TypeOK
  <2>2. AuditRow(last, Counted(p, Entry(p))) \in [last : Nat, counters : Stats]
    BY <2>1, CountType DEF AuditRow
  <2>3. audit' = [audit EXCEPT ![p] = AuditRow(last, Counted(p, Entry(p)))]
    BY <1>6 DEF UpdateAudit
  <2> QED
    BY <2>2, <2>3 DEF TypeOK
<1>7. ASSUME NEW p \in Partitions, Accept(p)
      PROVE  TypeOK'
  <2>1. Turn(p) /\ Entry(p).kind = "record" /\ Upsert(Entry(p)) /\ UpdateAudit(p, Entry(p))
    BY <1>7 DEF Accept
  <2>2. Entry(p) \in Entries
    BY <1>5, <2>1
  <2>3. ledger' \in [Windows -> [hash : Hashes, rev : Nat] \union {None}]
    BY <2>1, <2>2, UpsertType
  <2>4. stats' \in [Partitions -> Stats]
    BY <1>7, CountType DEF Accept, TypeOK
  <2>5. audit' \in [Partitions -> [last : Nat, counters : Stats] \union {None}]
    BY <1>6, <2>1
  <2>6. cache' \in [window : Windows, hash : Hashes, rev : Nat] \union {None} /\ faults' \in Nat
    <3>1. CASE cache' = CacheEntry(Entry(p)) /\ UNCHANGED faults
      BY <2>1, <2>2, <3>1, UpsertType, EntryFields DEF CacheEntry, TypeOK
    <3>2. CASE UNCHANGED cache
      BY <1>7, <3>2, FaultType DEF Accept, RefreshCache, TypeOK
    <3> QED
      BY <1>7, <3>1, <3>2 DEF Accept, RefreshCache
  <2>7. handled' \in [Partitions -> Nat] /\ current' \in Partitions
        /\ decided' \in [Partitions -> SUBSET Nat]
    BY <1>7, GhostType DEF Accept
  <2> QED
    BY <1>7, <2>3, <2>4, <2>5, <2>6, <2>7 DEF Accept, TypeOK, topicVars
<1>8. ASSUME NEW p \in Partitions, WriteFails(p)
      PROVE  TypeOK'
  <2>1. Turn(p) /\ Entry(p).kind = "record" /\ Entry(p) \in Entries
    BY <1>5, <1>8 DEF WriteFails
  <2>2. handled' \in [Partitions -> Nat] /\ current' \in Partitions /\ faults' \in Nat
    BY <1>8, GhostType, FaultType DEF WriteFails
  <2>3. ASSUME UpsertRaises(p) \/ CommitRollsBack(p)
        PROVE  TypeOK'
    <3>1. stats' \in [Partitions -> Stats]
      <4>1. Count(stats[p], {"consumed"}) \in Stats /\ Counted(p, Entry(p)) \in Stats
        BY CountType
      <4>2. \/ stats' = [stats EXCEPT ![p] = Count(stats[p], {"consumed"})]
            \/ stats' = [stats EXCEPT ![p] = Counted(p, Entry(p))]
        BY <2>3 DEF UpsertRaises, CommitRollsBack
      <4> QED
        BY <4>1, <4>2 DEF TypeOK
    <3>2. missed' \in [Partitions -> SUBSET Nat] /\ UNCHANGED <<ledger, audit, decided>>
      BY <2>3, GhostType DEF UpsertRaises, CommitRollsBack
    <3> QED
      BY <1>8, <2>2, <3>1, <3>2 DEF WriteFails, TypeOK, topicVars
  <2>4. ASSUME CommitUnacknowledged(p)
        PROVE  TypeOK'
    <3>1. stats' \in [Partitions -> Stats]
      BY <2>4, CountType DEF CommitUnacknowledged, TypeOK
    <3>2. ledger' \in [Windows -> [hash : Hashes, rev : Nat] \union {None}]
      BY <2>1, <2>4, UpsertType DEF CommitUnacknowledged
    <3>3. audit' \in [Partitions -> [last : Nat, counters : Stats] \union {None}]
      BY <1>6, <2>4 DEF CommitUnacknowledged
    <3>4. decided' \in [Partitions -> SUBSET Nat] /\ UNCHANGED missed
      BY <2>4, GhostType DEF CommitUnacknowledged
    <3> QED
      BY <1>8, <2>2, <3>1, <3>2, <3>3, <3>4 DEF WriteFails, TypeOK, topicVars
  <2> QED
    BY <1>8, <2>3, <2>4 DEF WriteFails
<1>9. CASE FinishBatch
  BY <1>9 DEF FinishBatch, TypeOK, storeVars, ghostVars
<1>10. CASE CommitFails
  BY <1>10, FaultType DEF CommitFails, TypeOK, storeVars, ghostVars
<1>11. CASE LeaveLoop
  BY <1>11 DEF LeaveLoop, TypeOK, topicVars, storeVars, ghostVars
<1>12. CASE Shutdown
  BY <1>12, FaultType DEF Shutdown, TypeOK, storeVars, ghostVars
<1>13. CASE Restart
  BY <1>13 DEF Restart, NoStats, Stats, TypeOK, topicVars, storeVars, ghostVars
<1>14. CASE RequestStop
  BY <1>14, FaultType DEF RequestStop, TypeOK, topicVars, storeVars, ghostVars
<1>15. CASE Crash
  BY <1>15, FaultType DEF Crash, TypeOK, topicVars, storeVars, ghostVars
<1>16. CASE CacheExpires
  BY <1>16 DEF CacheExpires, TypeOK, topicVars, ghostVars
<1>17. CASE UNCHANGED vars
  BY <1>17 DEF vars, TypeOK
<1>18. CASE Produce
  BY <1>1, <1>18, ProduceAppends
<1> QED
  BY <1>2, <1>3, <1>4, <1>7, <1>8, <1>9, <1>10, <1>11, <1>12, <1>13, <1>14, <1>15, <1>16,
     <1>17, <1>18
     DEF Next, Consumer, Handle

-----------------------------------------------------------------------------
(***************************************************************************)
(* The offset bookkeeping.  What has been handled is explained; outside a  *)
(* batch nothing is fetched that is not; so a commit of the positions      *)
(* passes over explained entries only.                                     *)
(***************************************************************************)
HandledExplained == \A p \in Partitions : 1 .. handled[p] \subseteq Explained(p)

FetchedExplained == /\ pc = "poll" => handled = position
                    /\ pc = "stop" => \A p \in Partitions : 1 .. position[p] \subseteq Explained(p)

Inv == /\ TypeOK
       /\ Bounds
       /\ HandledExplained
       /\ FetchedExplained
       /\ LossHasCause

(***************************************************************************)
(* What handling one message of p does to the bookkeeping, whatever its    *)
(* outcome: the entry becomes explained.                                   *)
(***************************************************************************)
Handled(p) == /\ handled[p] < position[p]
              /\ handled' = [handled EXCEPT ![p] = @ + 1]
              /\ \/ Decide(p) /\ UNCHANGED missed
                 \/ Miss(p) /\ UNCHANGED decided
              /\ pc = "batch"
              /\ UNCHANGED <<log, committed, position, abandoned, pc>>

LEMMA HandleAdvances ==
  ASSUME NEW p \in Partitions, Reject(p) \/ Accept(p) \/ WriteFails(p)
  PROVE  Handled(p)
<1>1. CASE Reject(p)
  BY <1>1 DEF Reject, Turn, Advance, Handled, topicVars
<1>2. CASE Accept(p)
  BY <1>2 DEF Accept, Turn, Advance, Handled, topicVars
<1>3. CASE WriteFails(p)
  BY <1>3 DEF WriteFails, UpsertRaises, CommitRollsBack, CommitUnacknowledged, Turn, Advance,
              Handled, topicVars
<1> QED
  BY <1>1, <1>2, <1>3

LEMMA HandledStep ==
  ASSUME Inv, TypeOK', NEW q \in Partitions, Handled(q)
  PROVE  Inv'
<1>1. ASSUME NEW p \in Partitions
      PROVE  Explained(p) \subseteq Explained(p)'
  <2>1. decided[p] \subseteq decided'[p] /\ missed[p] \subseteq missed'[p]
    BY DEF Handled, Decide, Miss, Inv, TypeOK
  <2> QED
    BY <2>1 DEF Handled, Explained
<1>2. handled[q] + 1 \in Explained(q)'
  BY DEF Handled, Decide, Miss, Explained, Inv, TypeOK
<1>3. Bounds'
  BY DEF Handled, Inv, Bounds, TypeOK
<1>4. HandledExplained'
  <2> SUFFICES ASSUME NEW p \in Partitions, NEW n \in 1 .. handled'[p]
               PROVE  n \in Explained(p)'
    BY DEF HandledExplained
  <2>1. handled[p] \in Nat /\ n \in Nat
    BY DEF Handled, Inv, TypeOK
  <2>2. CASE n \in 1 .. handled[p]
    BY <1>1, <2>2 DEF Inv, HandledExplained
  <2>3. CASE p = q /\ n = handled[q] + 1
    BY <1>2, <2>3
  <2> QED
    BY <2>1, <2>2, <2>3 DEF Handled, Inv, TypeOK
<1>5. LossHasCause'
  BY <1>1 DEF Handled, Inv, LossHasCause
<1> QED
  BY <1>3, <1>4, <1>5 DEF Inv, FetchedExplained, Handled

LEMMA InvStep ==
  ASSUME Inv, [Next]_vars
  PROVE  Inv'
<1>0. TypeOK'
  BY TypeStep DEF Inv
<1>1. ASSUME NEW p \in Partitions, NEW e \in Entries, AppendEntry(p, e)
      PROVE  Inv'
  <2>1. \A q \in Partitions : Len(log[q]) \in Nat /\ Len(log[q]) <= Len(log'[q])
    BY <1>1 DEF AppendEntry, Inv, TypeOK
  <2>2. Bounds'
    BY <1>0, <1>1, <2>1 DEF AppendEntry, Inv, Bounds, TypeOK
  <2> QED
    BY <1>0, <1>1, <2>2
       DEF AppendEntry, Inv, HandledExplained, FetchedExplained, LossHasCause, Explained
<1>2. CASE Poll
  <2>1. PICK upto : /\ \A p \in Partitions : position[p] <= upto[p] /\ upto[p] <= Len(log[p])
                    /\ position' = upto
    BY <1>2 DEF Poll
  <2>2. \A p \in Partitions : /\ committed[p] \in Nat /\ handled[p] \in Nat /\ position[p] \in Nat
                              /\ upto[p] \in Nat
    BY <1>0, <2>1 DEF Inv, TypeOK
  <2>3. UNCHANGED <<log, committed, handled>>
    BY <1>2 DEF Poll, topicVars
  <2>4. Bounds'
    BY <2>1, <2>2, <2>3 DEF Inv, Bounds
  <2> QED
    BY <1>0, <1>2, <2>4
       DEF Poll, Inv, HandledExplained, FetchedExplained, LossHasCause, Explained, topicVars,
           ghostVars
<1>3. ASSUME NEW p \in Partitions, Reject(p) \/ Accept(p) \/ WriteFails(p)
      PROVE  Inv'
  BY <1>0, <1>3, HandleAdvances, HandledStep
<1>4. ASSUME NEW p \in Partitions, AbortOnNull(p)
      PROVE  Inv'
  <2>1. \A q \in Partitions : Explained(q)' = Explained(q) \union handled[q] + 1 .. position[q]
    BY <1>4 DEF AbortOnNull, Explained
  <2>2. \A q \in Partitions : 1 .. position[q] \subseteq Explained(q)'
    BY <2>1 DEF Inv, HandledExplained, TypeOK
  <2>3. Bounds'
    BY <1>4 DEF AbortOnNull, Inv, Bounds, topicVars
  <2> QED
    BY <1>0, <1>4, <2>1, <2>2, <2>3
       DEF AbortOnNull, Inv, HandledExplained, FetchedExplained, LossHasCause, topicVars
<1>5. ASSUME FinishBatch \/ CommitFails
      PROVE  Inv'
  <2>1. \A p \in Partitions : Explained(p)' = Explained(p)
    BY <1>5 DEF FinishBatch, CommitFails, Explained, ghostVars
  <2>2. handled = position
    BY <1>5 DEF FinishBatch, CommitFails, BatchDone, Inv, TypeOK
  <2>3. committed' \in {committed, position} /\ UNCHANGED <<log, handled, position>>
    BY <1>5 DEF FinishBatch, CommitFails
  <2>4. LossHasCause'
    BY <2>1, <2>2, <2>3 DEF Inv, LossHasCause, HandledExplained
  <2>5. Bounds'
    BY <2>2, <2>3 DEF Inv, Bounds, TypeOK
  <2>6. HandledExplained' /\ FetchedExplained'
    BY <2>1, <2>2, <2>3 DEF Inv, HandledExplained, FetchedExplained
  <2> QED
    BY <1>0, <2>4, <2>5, <2>6 DEF Inv
<1>6. CASE LeaveLoop
  <2>1. FetchedExplained'
    BY <1>6 DEF LeaveLoop, Inv, FetchedExplained, HandledExplained, Explained, ghostVars
  <2> QED
    BY <1>0, <1>6, <2>1
       DEF LeaveLoop, Inv, Bounds, HandledExplained, LossHasCause, Explained, topicVars, ghostVars
<1>7. CASE Shutdown
  <2>1. \A p \in Partitions : Explained(p)' = Explained(p)
    BY <1>7 DEF Shutdown, Explained, ghostVars
  <2>2. /\ committed' \in {committed, position}
        /\ UNCHANGED <<log, handled, position>>
        /\ pc = "stop" /\ pc' = "down"
    BY <1>7 DEF Shutdown
  <2>3. LossHasCause'
    BY <2>1, <2>2 DEF Inv, LossHasCause, FetchedExplained
  <2>4. Bounds'
    BY <2>2 DEF Inv, Bounds, TypeOK
  <2> QED
    BY <1>0, <2>1, <2>2, <2>3, <2>4 DEF Inv, HandledExplained, FetchedExplained
<1>8. CASE Restart
  <2>1. \A p \in Partitions : Explained(p)' = Explained(p)
    BY <1>8 DEF Restart, Explained, ghostVars
  <2>2. /\ position' = committed /\ handled' = committed
        /\ UNCHANGED <<log, committed>>
        /\ pc' = "poll"
    BY <1>8 DEF Restart, topicVars
  <2>3. Bounds'
    BY <2>2 DEF Inv, Bounds, TypeOK
  <2> QED
    BY <1>0, <2>1, <2>2, <2>3 DEF Inv, HandledExplained, FetchedExplained, LossHasCause
<1>9. CASE Crash
  BY <1>0, <1>9
     DEF Crash, Inv, Bounds, HandledExplained, FetchedExplained, LossHasCause, Explained,
         topicVars, ghostVars
<1>10. ASSUME RequestStop \/ CacheExpires \/ UNCHANGED vars
       PROVE  Inv'
  <2>1. UNCHANGED <<log, committed, position, handled, pc, decided, missed, abandoned>>
    BY <1>10 DEF RequestStop, CacheExpires, vars, topicVars, ghostVars
  <2> QED
    BY <1>0, <2>1
       DEF Inv, Bounds, HandledExplained, FetchedExplained, LossHasCause, Explained
<1>11. CASE Produce
  BY <1>1, <1>11, ProduceAppends
<1> QED
  BY <1>2, <1>3, <1>4, <1>5, <1>6, <1>7, <1>8, <1>9, <1>10, <1>11 DEF Next, Consumer, Handle

LEMMA InvInit ==
  ASSUME Init
  PROVE  Inv
<1>1. TypeOK
  <2>1. <<>> \in Seq(Entries) /\ NoStats \in Stats
    BY DEF NoStats, Stats
  <2> QED
    BY <2>1 DEF Init, TypeOK
<1>2. Bounds
  BY DEF Init, Bounds
<1>3. HandledExplained /\ FetchedExplained /\ LossHasCause
  BY DEF Init, HandledExplained, FetchedExplained, LossHasCause
<1> QED
  BY <1>1, <1>2, <1>3 DEF Inv

THEOREM Invariance == Spec => []Inv
BY InvInit, InvStep, PTL DEF Spec

(***************************************************************************)
(* Every reachable state of the consumer is well typed.                    *)
(***************************************************************************)
THEOREM TypeCorrect == Spec => []TypeOK
BY Invariance, PTL DEF Inv

(***************************************************************************)
(* Offsets are never committed past an entry that was neither written nor  *)
(* rejected, except where a write raised or a null message broke a batch   *)
(* off: crashes, stops and failed commits lose nothing.                    *)
(***************************************************************************)
THEOREM CommittedIsExplained == Spec => []LossHasCause
BY Invariance, PTL DEF Inv

-----------------------------------------------------------------------------
(***************************************************************************)
(* The ledger, the audit rows and the cache.                               *)
(***************************************************************************)

\* The entries that were written or rejected are on the topic.
DecidedProduced == \A p \in Partitions : decided[p] \subseteq 1 .. Len(log[p])

\* A window's records are on the partition its key is hashed to, and nowhere else.
Keyed == \A p \in Partitions : \A n \in 1 .. Len(log[p]) :
           log[p][n].kind = "record" => PartitionOf[log[p][n].window] = p

\* The committed offset is ahead of the messages only across an abandoned batch.
BeyondIsAbandoned ==
  \A p \in Partitions :
     /\ handled[p] + 1 .. committed[p] \subseteq abandoned[p]
     /\ pc = "stop" => handled[p] + 1 .. position[p] \subseteq abandoned[p]

\* Once a window's last record is handled, its content is the row's.
LatestIfHandled ==
  \A w \in Windows :
     LET p == PartitionOf[w] IN
     \A n \in RecordsOf(w, p) \ (missed[p] \union abandoned[p]) :
        n <= handled[p] /\ (\A m \in RecordsOf(w, p) : m <= n) =>
           ledger[w] # None /\ ledger[w].hash = log[p][n].hash

\* Until the first fault the process reads each partition once, from its start.
Undisturbed == faults = 0 /\ \A p \in Partitions : abandoned[p] = {}

StillRunning == Undisturbed => pc \in {"poll", "batch"} /\ ~stopping

Seen(w) == {n \in RecordsOf(w, PartitionOf[w]) : n <= handled[PartitionOf[w]]}

RowOfSeen(w) ==
  IF Seen(w) = {}
    THEN ledger[w] = None
    ELSE /\ ledger[w] # None
         /\ ledger[w].rev = Cardinality(Changes(w, PartitionOf[w], handled[PartitionOf[w]]))
         /\ \E n \in Seen(w) : /\ \A m \in Seen(w) : m <= n
                                /\ ledger[w].hash = log[PartitionOf[w]][n].hash

FirstPass == Undisturbed => \A w \in Windows : RowOfSeen(w)

LInv == /\ Inv
        /\ DecidedProduced /\ Keyed /\ BeyondIsAbandoned
        /\ LatestIfHandled /\ StillRunning /\ FirstPass
        /\ AuditIsHighWater /\ CacheBehindLedger

(***************************************************************************)
(* What the upsert does to the row of its window, and to the others.       *)
(***************************************************************************)
LEMMA UpsertEffect ==
  ASSUME TypeOK, NEW e \in Entries, e.kind = "record", Upsert(e)
  PROVE  /\ e.window \in Windows
         /\ \A w \in Windows : w # e.window => ledger'[w] = ledger[w]
         /\ ledger'[e.window] # None /\ ledger'[e.window].hash = e.hash
         /\ ledger[e.window] = None => ledger'[e.window].rev = 0
         /\ ledger[e.window] # None =>
              ledger'[e.window].rev = IF ledger[e.window].hash = e.hash
                                        THEN ledger[e.window].rev ELSE ledger[e.window].rev + 1
         /\ Outcome(e) = "duplicate" <=> ledger[e.window] # None /\ ledger[e.window].hash = e.hash
<1>1. e.window \in Windows /\ e.hash \in Hashes
  BY EntryFields
<1>2. ledger'[e.window] # None
  BY UpsertType, NoneAssumption
<1>3. \A w \in Windows : w # e.window => ledger'[w] = ledger[w]
  BY DEF Upsert, TypeOK
<1>4. Outcome(e) = "duplicate" <=> ledger[e.window] # None /\ ledger[e.window].hash = e.hash
  BY DEF Outcome
<1>5. CASE ledger[e.window] = None
  BY <1>1, <1>2, <1>3, <1>4, <1>5 DEF Upsert, Outcome, Row, TypeOK
<1>6. CASE ledger[e.window] # None /\ ledger[e.window].hash = e.hash
  BY <1>1, <1>2, <1>3, <1>4, <1>6 DEF Upsert, Outcome, Row, TypeOK
<1>7. CASE ledger[e.window] # None /\ ledger[e.window].hash # e.hash
  BY <1>1, <1>2, <1>3, <1>4, <1>7 DEF Upsert, Outcome, Row, TypeOK
<1> QED
  BY <1>5, <1>6, <1>7

(***************************************************************************)
(* The three things that become of a message: its write, its miss and its  *)
(* rejection.                                                              *)
(***************************************************************************)
Writes(p) == /\ Entry(p).kind = "record"
             /\ Upsert(Entry(p)) /\ UpdateAudit(p, Entry(p))
             /\ Decide(p) /\ UNCHANGED missed
             /\ \/ UNCHANGED cache
                \/ cache' = CacheEntry(Entry(p)) /\ Outcome(Entry(p)) # "duplicate"

Misses(p) == /\ Miss(p) /\ faults' = faults + 1
             /\ UNCHANGED <<ledger, audit, cache, decided>>

Rejects(p) == /\ Entry(p).kind = "poison" /\ Decide(p)
              /\ UNCHANGED <<ledger, audit, cache, missed>>

LEMMA HandleOutcome ==
  ASSUME Inv, NEW p \in Partitions, Reject(p) \/ Accept(p) \/ WriteFails(p)
  PROVE  /\ Handled(p)
         /\ Entry(p) \in Entries
         /\ handled[p] + 1 \in 1 .. Len(log[p]) /\ log[p][handled[p] + 1] = Entry(p)
         /\ Writes(p) \/ Misses(p) \/ Rejects(p)
         /\ faults' = faults \/ faults' = faults + 1
         /\ UNCHANGED stopping
<1>1. Handled(p)
  BY HandleAdvances
<1>2. handled[p] + 1 \in 1 .. Len(log[p])
  BY <1>1 DEF Handled, Inv, Bounds, TypeOK
<1>3. Entry(p) \in Entries
  BY <1>1, HandledEntry DEF Handled, Inv, Bounds
<1>4. Reject(p) => Rejects(p)
  BY DEF Reject, Rejects
<1>5. Accept(p) => Writes(p)
  BY DEF Accept, RefreshCache, Writes
<1>6. WriteFails(p) => Writes(p) \/ Misses(p)
  BY DEF WriteFails, UpsertRaises, CommitRollsBack, CommitUnacknowledged, Misses, Writes, Fault
<1>7. (faults' = faults \/ faults' = faults + 1) /\ UNCHANGED stopping
  BY DEF Reject, Accept, WriteFails, Fault, RefreshCache
<1>8. log[p][handled[p] + 1] = Entry(p)
  BY DEF Entry
<1> QED
  BY <1>1, <1>2, <1>3, <1>4, <1>5, <1>6, <1>7, <1>8

\* The steps that touch neither the topic nor the database.
LEMMA OtherStep ==
  ASSUME \/ Poll \/ FinishBatch \/ CommitFails \/ LeaveLoop \/ Shutdown \/ Restart
         \/ RequestStop \/ Crash \/ CacheExpires \/ UNCHANGED vars
         \/ \E p \in Partitions : AbortOnNull(p)
  PROVE  /\ UNCHANGED <<log, ledger, audit, decided, missed>>
         /\ cache' = cache \/ cache' = None
BY DEF Poll, FinishBatch, CommitFails, LeaveLoop, Shutdown, Restart, RequestStop, Crash,
       CacheExpires, AbortOnNull, vars, topicVars, storeVars, ghostVars

\* A longer topic holds what it held before, and one entry more.
LEMMA AppendKeeps ==
  ASSUME TypeOK, NEW p \in Partitions, NEW e \in Entries, AppendEntry(p, e),
         NEW q \in Partitions
  PROVE  /\ Len(log[q]) \in Nat /\ Len(log'[q]) \in Nat
         /\ Len(log[q]) <= Len(log'[q])
         /\ \A n \in 1 .. Len(log[q]) : log'[q][n] = log[q][n]
         /\ \A n \in 1 .. Len(log'[q]) :
              \/ n \in 1 .. Len(log[q])
              \/ q = p /\ n = Len(log[q]) + 1 /\ log'[q][n] = e
<1>1. log[q] \in Seq(Entries)
  BY DEF TypeOK
<1>2. log'[q] = IF q = p THEN Append(log[q], e) ELSE log[q]
  BY DEF AppendEntry, TypeOK
<1>3. CASE q = p
  <2>1. /\ Len(Append(log[q], e)) = Len(log[q]) + 1 /\ Len(log[q]) \in Nat
        /\ \A n \in 1 .. Len(log[q]) : Append(log[q], e)[n] = log[q][n]
        /\ Append(log[q], e)[Len(log[q]) + 1] = e
    BY <1>1
  <2>2. \A n \in 1 .. Len(log[q]) + 1 : n \in 1 .. Len(log[q]) \/ n = Len(log[q]) + 1
    BY <2>1
  <2>3. log'[q] = Append(log[q], e)
    BY <1>2, <1>3
  <2> QED
    BY <1>3, <2>1, <2>2, <2>3
<1>4. CASE q # p
  <2>1. log'[q] = log[q] /\ Len(log[q]) \in Nat
    BY <1>1, <1>2, <1>4
  <2> QED
    BY <2>1
<1> QED
  BY <1>3, <1>4

LEMMA ProduceKeyed ==
  ASSUME Produce
  PROVE  \E p \in Partitions, e \in Entries :
            AppendEntry(p, e) /\ (e.kind = "record" => PartitionOf[e.window] = p)
<1>1. ASSUME NEW w \in Windows, NEW h \in Hashes, AppendEntry(PartitionOf[w], Record(w, h))
      PROVE  \E p \in Partitions, e \in Entries :
                AppendEntry(p, e) /\ (e.kind = "record" => PartitionOf[e.window] = p)
  <2>1. PartitionOf[w] \in Partitions /\ Record(w, h) \in Entries /\ Record(w, h).window = w
    BY RecordsAreEntries, ConsumerAssumption DEF Record
  <2> QED
    BY <1>1, <2>1
<1>2. ASSUME NEW p \in Partitions, NEW kind \in ForeignKinds, AppendEntry(p, Foreign(kind))
      PROVE  \E e \in Entries :
                AppendEntry(p, e) /\ (e.kind = "record" => PartitionOf[e.window] = p)
  <2>1. Foreign(kind) \in Entries /\ Foreign(kind).kind # "record"
    BY RecordsAreEntries, ConsumerAssumption DEF Foreign
  <2> QED
    BY <1>2, <2>1
<1> QED
  BY <1>1, <1>2 DEF Produce

(***************************************************************************)
(* Each part of the invariant, step by step.                               *)
(***************************************************************************)
LEMMA TopicStep ==
  ASSUME LInv, [Next]_vars
  PROVE  Keyed' /\ DecidedProduced'
<1>1. ASSUME NEW p \in Partitions, NEW e \in Entries, AppendEntry(p, e),
             e.kind = "record" => PartitionOf[e.window] = p
      PROVE  Keyed' /\ DecidedProduced'
  <2>1. \A q \in Partitions : \A n \in 1 .. Len(log'[q]) :
          \/ n \in 1 .. Len(log[q]) /\ log'[q][n] = log[q][n]
          \/ q = p /\ log'[q][n] = e
    BY <1>1, AppendKeeps DEF LInv, Inv
  <2>2. \A q \in Partitions : 1 .. Len(log[q]) \subseteq 1 .. Len(log'[q])
    BY <1>1, AppendKeeps DEF LInv, Inv
  <2>3. UNCHANGED decided
    BY <1>1 DEF AppendEntry
  <2> QED
    BY <1>1, <2>1, <2>2, <2>3 DEF LInv, Keyed, DecidedProduced
<1>2. ASSUME NEW p \in Partitions, Reject(p) \/ Accept(p) \/ WriteFails(p)
      PROVE  Keyed' /\ DecidedProduced'
  <2>1. /\ UNCHANGED log /\ handled[p] + 1 \in 1 .. Len(log[p])
        /\ Decide(p) \/ UNCHANGED decided
    BY <1>2, HandleOutcome DEF Handled, Writes, Misses, Rejects, LInv
  <2>2. \A q \in Partitions : decided'[q] \subseteq 1 .. Len(log[q])
    <3>1. decided' = decided \/ decided' = [decided EXCEPT ![p] = @ \union {handled[p] + 1}]
      BY <2>1 DEF Decide
    <3>2. \A q \in Partitions : decided[q] \subseteq 1 .. Len(log[q])
      BY DEF LInv, DecidedProduced
    <3>3. decided \in [Partitions -> SUBSET Nat]
      BY DEF LInv, Inv, TypeOK
    <3> QED
      BY <2>1, <3>1, <3>2, <3>3
  <2> QED
    BY <2>1, <2>2 DEF LInv, Keyed, DecidedProduced
<1>3. CASE UNCHANGED <<log, decided>>
  BY <1>3 DEF LInv, Keyed, DecidedProduced
<1>4. CASE Produce
  BY <1>1, <1>4, ProduceKeyed
<1> QED
  BY <1>2, <1>3, <1>4, OtherStep DEF Next, Consumer, Handle

LEMMA BatchStep ==
  ASSUME LInv, [Next]_vars
  PROVE  BeyondIsAbandoned'
<1>0. /\ \A p \in Partitions : handled[p] \in Nat /\ committed[p] \in Nat /\ position[p] \in Nat
      /\ \A p \in Partitions : handled[p] <= position[p] /\ committed[p] <= position[p]
  BY DEF LInv, Inv, TypeOK, Bounds
<1>1. CASE Poll
  BY <1>1 DEF Poll, LInv, BeyondIsAbandoned, topicVars, ghostVars
<1>2. ASSUME NEW p \in Partitions, Reject(p) \/ Accept(p) \/ WriteFails(p)
      PROVE  BeyondIsAbandoned'
  <2>1. Handled(p)
    BY <1>2, HandleOutcome DEF LInv
  <2>2. \A q \in Partitions : handled'[q] \in Nat /\ handled[q] <= handled'[q]
    BY <1>0, <2>1 DEF Handled, LInv, Inv, TypeOK
  <2> QED
    BY <1>0, <2>1, <2>2 DEF Handled, LInv, BeyondIsAbandoned
<1>3. ASSUME NEW p \in Partitions, AbortOnNull(p)
      PROVE  BeyondIsAbandoned'
  <2>1. \A q \in Partitions : handled[q] + 1 .. position[q] \subseteq abandoned'[q]
    BY <1>3 DEF AbortOnNull
  <2> QED
    BY <1>0, <1>3, <2>1 DEF AbortOnNull, BeyondIsAbandoned, topicVars
<1>4. ASSUME FinishBatch \/ CommitFails
      PROVE  BeyondIsAbandoned'
  <2>1. /\ \A p \in Partitions : handled[p] = position[p]
        /\ UNCHANGED <<handled, position, abandoned>> /\ committed' \in {committed, position}
    BY <1>4 DEF FinishBatch, CommitFails, BatchDone, ghostVars
  <2>2. \A p \in Partitions : handled[p] + 1 .. committed'[p] = {}
    BY <1>0, <2>1
  <2> QED
    BY <1>0, <2>1, <2>2 DEF BeyondIsAbandoned
<1>5. CASE LeaveLoop
  <2>1. handled = position /\ UNCHANGED <<handled, position, committed, abandoned>>
    BY <1>5 DEF LeaveLoop, LInv, Inv, FetchedExplained, topicVars, ghostVars
  <2> QED
    BY <1>0, <2>1 DEF LInv, BeyondIsAbandoned
<1>6. CASE Shutdown
  <2>1. /\ pc = "stop" /\ pc' = "down" /\ committed' \in {committed, position}
        /\ UNCHANGED <<handled, abandoned>>
    BY <1>6 DEF Shutdown, ghostVars
  <2> QED
    BY <2>1 DEF LInv, BeyondIsAbandoned
<1>7. CASE Restart
  BY <1>0, <1>7 DEF Restart, BeyondIsAbandoned, topicVars
<1>8. CASE UNCHANGED <<handled, position, committed, abandoned>> /\ (UNCHANGED pc \/ pc' = "down")
  BY <1>8 DEF LInv, BeyondIsAbandoned
<1>9. ASSUME Produce \/ RequestStop \/ Crash \/ CacheExpires \/ UNCHANGED vars
      PROVE  UNCHANGED <<handled, position, committed, abandoned>> /\ (UNCHANGED pc \/ pc' = "down")
  BY <1>9 DEF Produce, AppendEntry, RequestStop, Crash, CacheExpires, vars, topicVars, ghostVars
<1> QED
  BY <1>1, <1>2, <1>3, <1>4, <1>5, <1>6, <1>7, <1>8, <1>9 DEF Next, Consumer, Handle

LEMMA AuditStep ==
  ASSUME LInv, [Next]_vars
  PROVE  AuditIsHighWater'
<1>1. ASSUME NEW p \in Partitions, NEW e \in Entries, AppendEntry(p, e)
      PROVE  AuditIsHighWater'
  <2>1. UNCHANGED <<audit, decided>>
    BY <1>1 DEF AppendEntry
  <2>2. ASSUME NEW q \in Partitions
        PROVE  AcceptedRecords(q)' = AcceptedRecords(q)
    <3>1. \A n \in decided[q] : log'[q][n] = log[q][n]
      BY <1>1, AppendKeeps DEF LInv, Inv, DecidedProduced
    <3> QED
      BY <2>1, <3>1 DEF AcceptedRecords
  <2> QED
    BY <2>1, <2>2 DEF LInv, AuditIsHighWater
<1>2. ASSUME NEW p \in Partitions, Reject(p) \/ Accept(p) \/ WriteFails(p)
      PROVE  AuditIsHighWater'
  <2> DEFINE n == handled[p] + 1
  <2>1. /\ UNCHANGED log /\ log[p][n] = Entry(p) /\ n \in Nat
        /\ Writes(p) \/ Misses(p) \/ Rejects(p)
    BY <1>2, HandleOutcome DEF Handled, LInv
  <2>2. Decide(p) => decided' = [decided EXCEPT ![p] = @ \union {n}]
    BY DEF Decide
  <2>3. \A q \in Partitions : AcceptedRecords(q) \subseteq Nat
    BY DEF LInv, Inv, TypeOK, AcceptedRecords
  <2> HIDE DEF n
  <2>4. CASE Misses(p)
    <3>1. \A q \in Partitions : AcceptedRecords(q)' = AcceptedRecords(q)
      BY <2>1, <2>4 DEF Misses, AcceptedRecords
    <3> QED
      BY <2>4, <3>1 DEF Misses, LInv, AuditIsHighWater
  <2>5. CASE Rejects(p)
    <3>1. \A q \in Partitions : decided'[q] = IF q = p THEN decided[q] \union {n} ELSE decided[q]
      BY <2>2, <2>5 DEF Rejects, LInv, Inv, TypeOK
    <3>2. log'[p][n].kind # "record" /\ UNCHANGED log
      BY <2>1, <2>5 DEF Rejects
    <3>3. \A q \in Partitions : AcceptedRecords(q)' = AcceptedRecords(q)
      BY <3>1, <3>2 DEF AcceptedRecords
    <3> QED
      BY <2>5, <3>3 DEF Rejects, LInv, AuditIsHighWater
  <2>6. CASE Writes(p)
    <3>1. /\ AcceptedRecords(p)' = AcceptedRecords(p) \union {n}
          /\ \A q \in Partitions : q # p => AcceptedRecords(q)' = AcceptedRecords(q)
      BY <2>1, <2>2, <2>6 DEF Writes, AcceptedRecords, LInv, Inv, TypeOK
    <3>2. audit' = [audit EXCEPT ![p] =
                      AuditRow(IF audit[p] # None /\ audit[p].last > n THEN audit[p].last ELSE n,
                               Counted(p, Entry(p)))]
      BY <2>6 DEF Writes, UpdateAudit, n
    <3>3. /\ \A q \in Partitions : q # p => audit'[q] = audit[q]
          /\ audit'[p].last = IF audit[p] # None /\ audit[p].last > n THEN audit[p].last ELSE n
      BY <3>2 DEF LInv, Inv, TypeOK, AuditRow
    <3>4. audit'[p] # None
      <4>1. Counted(p, Entry(p)) \in Stats
        BY CountType DEF LInv, Inv
      <4>2. (IF audit[p] # None /\ audit[p].last > n THEN audit[p].last ELSE n) \in Nat
        BY <2>1 DEF LInv, Inv, TypeOK
      <4>3. audit'[p] \in [last : Nat, counters : Stats]
        BY <3>2, <4>1, <4>2 DEF LInv, Inv, TypeOK, AuditRow
      <4> QED
        BY <4>3, NoneAssumption
    <3>5. ASSUME NEW q \in Partitions, q # p
          PROVE  IF AcceptedRecords(q)' = {}
                   THEN audit'[q] = None
                   ELSE /\ audit'[q] # None
                        /\ audit'[q].last \in AcceptedRecords(q)'
                        /\ \A m \in AcceptedRecords(q)' : m <= audit'[q].last
      BY <3>1, <3>3, <3>5 DEF LInv, AuditIsHighWater
    <3>6. CASE audit[p] = None
      <4>1. AcceptedRecords(p) = {}
        BY <3>6 DEF LInv, AuditIsHighWater
      <4> QED
        BY <2>1, <3>1, <3>3, <3>4, <3>5, <3>6, <4>1 DEF AuditIsHighWater
    <3>7. CASE audit[p] # None
      <4>1. /\ audit[p].last \in AcceptedRecords(p)
            /\ \A m \in AcceptedRecords(p) : m <= audit[p].last
        BY <3>7 DEF LInv, AuditIsHighWater
      <4>2. /\ audit'[p].last \in AcceptedRecords(p)'
            /\ \A m \in AcceptedRecords(p)' : m <= audit'[p].last
        BY <2>1, <2>3, <3>1, <3>3, <3>7, <4>1
      <4> QED
        BY <3>1, <3>4, <3>5, <4>2 DEF AuditIsHighWater
    <3> QED
      BY <3>6, <3>7
  <2> QED
    BY <2>1, <2>4, <2>5, <2>6
<1>3. CASE UNCHANGED <<log, audit, decided>>
  BY <1>3 DEF LInv, AuditIsHighWater, AcceptedRecords
<1>4. CASE Produce
  BY <1>1, <1>4, ProduceAppends
<1> QED
  BY <1>2, <1>3, <1>4, OtherStep DEF Next, Consumer, Handle

LEMMA CacheStep ==
  ASSUME LInv, [Next]_vars
  PROVE  CacheBehindLedger'
<1>1. ASSUME NEW p \in Partitions, Writes(p), Entry(p) \in Entries
      PROVE  CacheBehindLedger'
  <2> DEFINE e == Entry(p)
  <2>1. /\ e.window \in Windows
        /\ \A w \in Windows : w # e.window => ledger'[w] = ledger[w]
        /\ ledger'[e.window] # None /\ ledger'[e.window].hash = e.hash
        /\ ledger[e.window] # None =>
             ledger'[e.window].rev = IF ledger[e.window].hash = e.hash
                                       THEN ledger[e.window].rev ELSE ledger[e.window].rev + 1
    BY <1>1, UpsertEffect DEF Writes, LInv, Inv
  <2> HIDE DEF e
  <2>2. CASE UNCHANGED cache
    <3> SUFFICES ASSUME cache # None
                 PROVE  /\ ledger'[cache.window] # None
                        /\ cache.rev <= ledger'[cache.window].rev
                        /\ cache.rev = ledger'[cache.window].rev =>
                             cache.hash = ledger'[cache.window].hash
      BY <2>2 DEF CacheBehindLedger
    <3>1. /\ ledger[cache.window] # None
          /\ cache.rev <= ledger[cache.window].rev
          /\ cache.rev = ledger[cache.window].rev => cache.hash = ledger[cache.window].hash
      BY DEF LInv, CacheBehindLedger
    <3>2. cache.window \in Windows /\ cache.rev \in Nat /\ ledger[cache.window].rev \in Nat
      BY <3>1 DEF LInv, Inv, TypeOK
    <3> QED
      BY <2>1, <3>1, <3>2
  <2>3. CASE cache' = CacheEntry(e)
    <3>1. /\ cache'.window = e.window /\ cache'.hash = e.hash
          /\ cache'.rev = ledger'[e.window].rev
      BY <2>3 DEF CacheEntry
    <3>2. ledger'[e.window].rev \in Nat
      <4>1. TypeOK'
        BY TypeStep DEF LInv, Inv
      <4> QED
        BY <2>1, <4>1 DEF TypeOK
    <3> QED
      BY <2>1, <3>1, <3>2 DEF CacheBehindLedger
  <2> QED
    BY <1>1, <2>2, <2>3 DEF Writes, e
<1>2. ASSUME NEW p \in Partitions, Reject(p) \/ Accept(p) \/ WriteFails(p)
      PROVE  CacheBehindLedger'
  <2>1. CASE UNCHANGED <<cache, ledger>>
    BY <2>1 DEF LInv, CacheBehindLedger
  <2> QED
    BY <1>1, <1>2, <2>1, HandleOutcome DEF LInv, Misses, Rejects
<1>3. CASE (UNCHANGED cache \/ cache' = None) /\ UNCHANGED ledger
  BY <1>3 DEF LInv, CacheBehindLedger
<1>4. CASE Produce
  BY <1>3, <1>4 DEF Produce, AppendEntry
<1> QED
  BY <1>2, <1>3, <1>4, OtherStep DEF Next, Consumer, Handle

(***************************************************************************)
(* A message of p changes the row of its own window only, and that one     *)
(* only if it is written.                                                  *)
(***************************************************************************)
WritesRow(w, h) ==
  /\ ledger'[w] # None /\ ledger'[w].hash = h
  /\ ledger[w] = None => ledger'[w].rev = 0
  /\ ledger[w] # None =>
       ledger'[w].rev = IF ledger[w].hash = h THEN ledger[w].rev ELSE ledger[w].rev + 1

LEMMA RowStep ==
  ASSUME LInv, NEW p \in Partitions, Reject(p) \/ Accept(p) \/ WriteFails(p),
         NEW w \in Windows
  PROVE  /\ UNCHANGED <<log, abandoned>>
         /\ \A q \in Partitions : handled'[q] = IF q = p THEN handled[p] + 1 ELSE handled[q]
         /\ \A q \in Partitions : missed[q] \subseteq missed'[q]
         /\ handled[p] + 1 \in 1 .. Len(log[p])
         /\ PartitionOf[w] # p \/ log[p][handled[p] + 1].window # w => ledger'[w] = ledger[w]
         /\ PartitionOf[w] = p /\ log[p][handled[p] + 1].window = w =>
              \/ handled[p] + 1 \in missed'[p] /\ faults' = faults + 1
              \/ WritesRow(w, log[p][handled[p] + 1].hash)
<1>1. /\ Handled(p) /\ Entry(p) \in Entries
      /\ handled[p] + 1 \in 1 .. Len(log[p]) /\ log[p][handled[p] + 1] = Entry(p)
      /\ Writes(p) \/ Misses(p) \/ Rejects(p)
  BY HandleOutcome DEF LInv
<1>2. /\ UNCHANGED <<log, abandoned>>
      /\ \A q \in Partitions : handled'[q] = IF q = p THEN handled[p] + 1 ELSE handled[q]
      /\ \A q \in Partitions : missed[q] \subseteq missed'[q]
  BY <1>1 DEF Handled, Miss, LInv, Inv, TypeOK
<1>3. CASE Writes(p)
  <2>1. PartitionOf[Entry(p).window] = p
    BY <1>1, <1>3 DEF Writes, LInv, Keyed
  <2>2. /\ \A v \in Windows : v # Entry(p).window => ledger'[v] = ledger[v]
        /\ WritesRow(Entry(p).window, Entry(p).hash)
    BY <1>1, <1>3, UpsertEffect DEF Writes, WritesRow, LInv, Inv
  <2> QED
    BY <1>1, <1>2, <2>1, <2>2
<1>4. CASE Misses(p)
  <2>1. handled[p] + 1 \in missed'[p]
    BY <1>4 DEF Misses, Miss, LInv, Inv, TypeOK
  <2> QED
    BY <1>1, <1>2, <1>4, <2>1 DEF Misses
<1>5. CASE Rejects(p)
  <2>1. Entry(p).window = None
    BY <1>1, <1>5 DEF Rejects, Entries
  <2>2. Entry(p).window # w
    BY <2>1, ConsumerAssumption
  <2> QED
    BY <1>1, <1>2, <1>5, <2>2 DEF Rejects
<1> QED
  BY <1>1, <1>3, <1>4, <1>5

LEMMA LatestStep ==
  ASSUME LInv, [Next]_vars
  PROVE  LatestIfHandled'
<1> SUFFICES ASSUME NEW w \in Windows,
                    NEW n \in RecordsOf(w, PartitionOf[w])',
                    n \notin missed'[PartitionOf[w]] \union abandoned'[PartitionOf[w]],
                    n <= handled'[PartitionOf[w]],
                    \A m \in RecordsOf(w, PartitionOf[w])' : m <= n
             PROVE  ledger'[w] # None /\ ledger'[w].hash = log'[PartitionOf[w]][n].hash
  BY DEF LatestIfHandled
<1> DEFINE q == PartitionOf[w]
           Latest == ledger'[w] # None /\ ledger'[w].hash = log'[PartitionOf[w]][n].hash
<1>0. /\ q \in Partitions /\ handled[q] \in Nat /\ Len(log[q]) \in Nat /\ n \in Nat
      /\ handled[q] <= Len(log[q]) /\ handled[q] <= position[q] /\ committed[q] \in Nat
      /\ position[q] \in Nat
  BY ConsumerAssumption DEF LInv, Inv, TypeOK, Bounds, RecordsOf
<1>1. ASSUME n \in RecordsOf(w, q), \A m \in RecordsOf(w, q) : m <= n,
             n \notin missed[q] \union abandoned[q], n <= handled[q]
      PROVE  ledger[w] # None /\ ledger[w].hash = log[q][n].hash
  BY <1>1 DEF LInv, LatestIfHandled
<1> SUFFICES Latest
  OBVIOUS
<1> HIDE DEF q, Latest
<1>2. ASSUME NEW p \in Partitions, NEW e \in Entries, AppendEntry(p, e)
      PROVE  Latest
  <2>1. UNCHANGED <<ledger, missed, abandoned, handled>>
    BY <1>2 DEF AppendEntry
  <2>2. /\ \A m \in 1 .. Len(log[q]) : log'[q][m] = log[q][m]
        /\ 1 .. Len(log[q]) \subseteq 1 .. Len(log'[q])
    BY <1>0, <1>2, AppendKeeps DEF LInv, Inv
  <2>3. RecordsOf(w, q) \subseteq RecordsOf(w, q)'
    BY <2>2 DEF RecordsOf
  <2>4. n \in 1 .. Len(log[q]) /\ log'[q][n].window = w
    BY <1>0, <2>1 DEF RecordsOf, q
  <2>5. n \in RecordsOf(w, q)
    BY <2>2, <2>4 DEF RecordsOf
  <2> QED
    BY <1>1, <2>1, <2>2, <2>3, <2>4, <2>5 DEF q, Latest
<1>3. ASSUME NEW p \in Partitions, Reject(p) \/ Accept(p) \/ WriteFails(p)
      PROVE  Latest
  <2> DEFINE h == handled[p] + 1
  <2>1. /\ UNCHANGED <<log, abandoned>>
        /\ handled'[q] = IF q = p THEN h ELSE handled[q]
        /\ missed[q] \subseteq missed'[q]
        /\ h \in 1 .. Len(log[p])
        /\ q # p \/ log[p][h].window # w => ledger'[w] = ledger[w]
        /\ q = p /\ log[p][h].window = w =>
             h \in missed'[p] \/ (ledger'[w] # None /\ ledger'[w].hash = log[p][h].hash)
    BY <1>0, <1>3, RowStep DEF q, WritesRow
  <2>2. RecordsOf(w, q)' = RecordsOf(w, q)
    BY <2>1 DEF RecordsOf
  <2>3. CASE q = p /\ n = h
    BY <2>1, <2>2, <2>3 DEF RecordsOf, q, Latest
  <2>4. CASE ~(q = p /\ n = h)
    <3>1. n <= handled[q]
      BY <1>0, <2>1, <2>4 DEF q
    <3>2. q # p \/ log[p][h].window # w
      BY <1>0, <2>1, <2>2, <3>1 DEF RecordsOf, q
    <3> QED
      BY <1>1, <2>1, <2>2, <3>1, <3>2 DEF q, Latest
  <2> QED
    BY <2>3, <2>4
<1>4. CASE Restart
  <2>1. UNCHANGED <<log, committed, ledger, missed, abandoned>> /\ handled' = committed
    BY <1>4 DEF Restart, topicVars, storeVars, ghostVars
  <2>2. n \in RecordsOf(w, q) /\ RecordsOf(w, q)' = RecordsOf(w, q)
    BY <2>1 DEF RecordsOf, q
  <2>3. ~(n \in handled[q] + 1 .. committed[q])
    BY <1>0, <2>1 DEF LInv, BeyondIsAbandoned, q
  <2>4. n <= handled[q]
    BY <1>0, <2>1, <2>3 DEF q
  <2> QED
    BY <1>1, <2>1, <2>2, <2>4 DEF q, Latest
<1>5. CASE UNCHANGED <<log, ledger, missed, handled>> /\ abandoned[q] \subseteq abandoned'[q]
  <2>1. n \in RecordsOf(w, q) /\ RecordsOf(w, q)' = RecordsOf(w, q)
    BY <1>5 DEF RecordsOf, q
  <2>2. n <= handled[q] /\ n \notin missed[q] \union abandoned[q]
    BY <1>5 DEF q
  <2> QED
    BY <1>1, <1>5, <2>1, <2>2 DEF q, Latest
<1>6. ASSUME \/ Poll \/ FinishBatch \/ CommitFails \/ LeaveLoop \/ Shutdown
             \/ RequestStop \/ Crash \/ CacheExpires \/ UNCHANGED vars
             \/ \E p \in Partitions : AbortOnNull(p)
      PROVE  UNCHANGED <<log, ledger, missed, handled>> /\ abandoned[q] \subseteq abandoned'[q]
  <2>1. UNCHANGED <<log, ledger, missed, handled>>
    BY <1>6 DEF Poll, FinishBatch, CommitFails, LeaveLoop, Shutdown, RequestStop, Crash,
                CacheExpires, AbortOnNull, vars, topicVars, storeVars, ghostVars
  <2>2. CASE UNCHANGED abandoned
    BY <2>1, <2>2
  <2>3. ASSUME NEW p \in Partitions, AbortOnNull(p)
        PROVE  abandoned[q] \subseteq abandoned'[q]
    BY <1>0, <2>3 DEF AbortOnNull
  <2> QED
    BY <1>6, <2>1, <2>2, <2>3
       DEF Poll, FinishBatch, CommitFails, LeaveLoop, Shutdown, RequestStop, Crash, CacheExpires,
           vars, ghostVars
<1>7. CASE Produce
  BY <1>2, <1>7, ProduceAppends
<1> QED
  BY <1>3, <1>4, <1>5, <1>6, <1>7 DEF Next, Consumer, Handle

\* Up to the first fault the process only reads on: it neither stops nor restarts.
LEMMA UndisturbedStep ==
  ASSUME LInv, [Next]_vars, Undisturbed'
  PROVE  /\ Undisturbed /\ StillRunning'
         /\ \/ Produce
            \/ \E p \in Partitions : (Reject(p) \/ Accept(p)) /\ UNCHANGED faults
            \/ UNCHANGED <<log, handled, ledger>>
<1>0. faults \in Nat /\ faults' = 0 /\ \A p \in Partitions : abandoned'[p] = {}
  BY DEF Undisturbed, LInv, Inv, TypeOK
<1>1. ~(faults' = faults + 1)
  BY <1>0
<1>2. ~CommitFails /\ ~RequestStop /\ ~Crash /\ \A p \in Partitions : ~WriteFails(p)
  BY <1>1 DEF CommitFails, RequestStop, Crash, WriteFails, Fault
<1>3. \A p \in Partitions : ~AbortOnNull(p)
  <2> SUFFICES ASSUME NEW p \in Partitions, AbortOnNull(p)
               PROVE  FALSE
    OBVIOUS
  <2>1. handled[p] + 1 \in handled[p] + 1 .. position[p]
    BY DEF AbortOnNull, Turn, LInv, Inv, TypeOK
  <2> QED
    BY <1>0, <2>1 DEF AbortOnNull
<1>4. UNCHANGED abandoned
  BY <1>2, <1>3
     DEF Next, Consumer, Handle, Produce, AppendEntry, Poll, Reject, Accept, FinishBatch, LeaveLoop,
         Shutdown, Restart, CacheExpires, vars, ghostVars
<1>5. faults' = faults
  BY <1>1, <1>2, <1>3
     DEF Next, Consumer, Handle, Produce, AppendEntry, Poll, Reject, Accept, RefreshCache, Fault,
         FinishBatch, LeaveLoop, Shutdown, Restart, CacheExpires, vars
<1>6. Undisturbed
  BY <1>0, <1>4, <1>5 DEF Undisturbed
<1>7. pc \in {"poll", "batch"} /\ ~stopping
  BY <1>6 DEF LInv, StillRunning
<1>8. ~LeaveLoop /\ ~Shutdown /\ ~Restart
  BY <1>7 DEF LeaveLoop, Shutdown, Restart
<1>9. StillRunning'
  BY <1>2, <1>3, <1>7, <1>8
     DEF Next, Consumer, Handle, Produce, AppendEntry, Poll, Reject, Accept, FinishBatch,
         CacheExpires, vars, StillRunning
<1>10. \/ Produce
       \/ \E p \in Partitions : (Reject(p) \/ Accept(p)) /\ UNCHANGED faults
       \/ UNCHANGED <<log, handled, ledger>>
  BY <1>2, <1>3, <1>5, <1>8
     DEF Next, Consumer, Handle, Poll, FinishBatch, CacheExpires, vars, topicVars, storeVars
<1> QED
  BY <1>6, <1>9, <1>10

LEMMA StillRunningStep ==
  ASSUME LInv, [Next]_vars
  PROVE  StillRunning'
BY UndisturbedStep DEF StillRunning

\* One more entry is one more change, or none.
LEMMA ChangesGrow ==
  ASSUME TypeOK, NEW w \in Windows, NEW p \in Partitions, NEW h \in Nat, h + 1 \in 1 .. Len(log[p])
  PROVE  /\ Cardinality(Changes(w, p, h)) \in Nat
         /\ h + 1 \in Changes(w, p, h + 1) =>
              Cardinality(Changes(w, p, h + 1)) = Cardinality(Changes(w, p, h)) + 1
         /\ h + 1 \notin Changes(w, p, h + 1) => Changes(w, p, h + 1) = Changes(w, p, h)
<1>1. Len(log[p]) \in Nat
  BY DEF TypeOK
<1>2. Changes(w, p, h) \subseteq 1 .. Len(log[p])
  BY DEF Changes, RecordsOf
<1>3. IsFiniteSet(1 .. Len(log[p]))
  BY <1>1, FS_Interval
<1>4. IsFiniteSet(Changes(w, p, h))
  BY <1>2, <1>3, FS_Subset
<1>5. h + 1 \notin Changes(w, p, h)
  BY DEF Changes
<1>6. \A n \in 1 .. Len(log[p]) : n <= h + 1 <=> n <= h \/ n = h + 1
  BY <1>1
<1>7. Changes(w, p, h + 1) \ {h + 1} = Changes(w, p, h)
  BY <1>5, <1>6 DEF Changes, RecordsOf
<1>8. h + 1 \in Changes(w, p, h + 1) => Changes(w, p, h + 1) = Changes(w, p, h) \union {h + 1}
  BY <1>7
<1>9. /\ Cardinality(Changes(w, p, h)) \in Nat
      /\ Cardinality(Changes(w, p, h) \union {h + 1}) = Cardinality(Changes(w, p, h)) + 1
  BY <1>4, <1>5, FS_AddElement, FS_CardinalityType
<1> QED
  BY <1>7, <1>8, <1>9

LEMMA FirstPassStep ==
  ASSUME LInv, [Next]_vars
  PROVE  FirstPass'
<1> SUFFICES ASSUME Undisturbed', NEW w \in Windows
             PROVE  RowOfSeen(w)'
  BY DEF FirstPass
<1> DEFINE q == PartitionOf[w]
           h == handled[q]
<1>0. /\ q \in Partitions /\ h \in Nat /\ Len(log[q]) \in Nat /\ h <= Len(log[q])
      /\ Seen(w) \subseteq Nat
  BY ConsumerAssumption DEF LInv, Inv, TypeOK, Bounds, Seen, RecordsOf
<1>1. RowOfSeen(w)
  BY UndisturbedStep DEF LInv, FirstPass
<1>2. ASSUME NEW p \in Partitions, NEW e \in Entries, AppendEntry(p, e)
      PROVE  RowOfSeen(w)'
  <2>1. UNCHANGED <<ledger, handled>>
    BY <1>2 DEF AppendEntry
  <2>2. /\ \A m \in 1 .. Len(log[q]) : log'[q][m] = log[q][m]
        /\ Len(log'[q]) \in Nat /\ Len(log[q]) <= Len(log'[q])
    BY <1>0, <1>2, AppendKeeps DEF LInv, Inv
  <2>3. \A m : m \in RecordsOf(w, q)' /\ m <= h <=> m \in RecordsOf(w, q) /\ m <= h
    BY <1>0, <2>2 DEF RecordsOf
  <2>4. Seen(w)' = Seen(w)
    BY <2>1, <2>3 DEF Seen
  <2>5. Changes(w, q, h)' = Changes(w, q, h)
    <3>1. \A n \in RecordsOf(w, q), m \in RecordsOf(w, q) : n <= h /\ m < n => m <= h
      BY <1>0 DEF RecordsOf
    <3>2. \A n \in RecordsOf(w, q)', m \in RecordsOf(w, q)' : n <= h /\ m < n => m <= h
      BY <1>0, <2>2 DEF RecordsOf
    <3>3. \A n \in RecordsOf(w, q) : log'[q][n] = log[q][n]
      BY <2>2 DEF RecordsOf
    <3> QED
      BY <2>1, <2>3, <3>1, <3>2, <3>3 DEF Changes
  <2>6. \A n \in Seen(w) : log'[q][n] = log[q][n]
    BY <2>2 DEF Seen, RecordsOf
  <2> QED
    BY <1>1, <2>1, <2>4, <2>5, <2>6 DEF RowOfSeen
<1>3. ASSUME NEW p \in Partitions, Reject(p) \/ Accept(p), UNCHANGED faults
      PROVE  RowOfSeen(w)'
  <2> DEFINE k == handled[p] + 1
  <2>1. /\ UNCHANGED log
        /\ handled'[q] = IF q = p THEN k ELSE h
        /\ k \in 1 .. Len(log[p])
        /\ q # p \/ log[p][k].window # w => ledger'[w] = ledger[w]
        /\ q = p /\ log[p][k].window = w => WritesRow(w, log[p][k].hash)
    <3>1. ~(faults' = faults + 1)
      BY <1>3 DEF LInv, Inv, TypeOK
    <3> QED
      BY <1>0, <1>3, <3>1, RowStep
  <2>2. \A m : RecordsOf(w, q)' = RecordsOf(w, q) /\ Changes(w, q, m)' = Changes(w, q, m)
    BY <2>1 DEF RecordsOf, Changes
  <2>3. CASE q # p
    <3>1. handled'[q] = h /\ Seen(w)' = Seen(w) /\ ledger'[w] = ledger[w]
      BY <2>1, <2>2, <2>3 DEF Seen
    <3> QED
      BY <1>1, <2>1, <2>2, <3>1 DEF RowOfSeen, Changes, RecordsOf
  <2>4. CASE q = p /\ log[p][k].window # w
    <3>1. k \notin RecordsOf(w, q) /\ handled'[q] = k /\ k = h + 1 /\ ledger'[w] = ledger[w]
      BY <2>1, <2>4 DEF RecordsOf
    <3>2. Seen(w)' = Seen(w)
      BY <1>0, <2>2, <3>1 DEF Seen, RecordsOf
    <3>3. Changes(w, q, k) = Changes(w, q, h)
      <4>1. k \notin Changes(w, q, k)
        BY <3>1 DEF Changes
      <4>2. h \in Nat /\ h + 1 \in 1 .. Len(log[q])
        BY <1>0, <2>1, <2>4, <3>1
      <4> QED
        BY <1>0, <3>1, <4>1, <4>2, ChangesGrow DEF LInv, Inv
    <3>4. Changes(w, q, handled[q])' = Changes(w, q, k)
      BY <2>1, <3>1 DEF Changes, RecordsOf
    <3> QED
      BY <1>1, <2>1, <3>1, <3>2, <3>3, <3>4 DEF RowOfSeen
  <2>5. CASE q = p /\ log[p][k].window = w
    <3>1. k \in RecordsOf(w, q) /\ handled'[q] = k /\ k = h + 1 /\ WritesRow(w, log[q][k].hash)
      BY <2>1, <2>5 DEF RecordsOf
    <3>2. Seen(w)' = Seen(w) \union {k} /\ \A m \in Seen(w) : m < k
      BY <1>0, <2>2, <3>1 DEF Seen, RecordsOf
    <3>3. \A m : m \in RecordsOf(w, q) /\ m < k <=> m \in Seen(w)
      BY <1>0, <3>1 DEF Seen, RecordsOf
    <3>4. /\ Cardinality(Changes(w, q, h)) \in Nat
          /\ k \in Changes(w, q, k) =>
               Cardinality(Changes(w, q, k)) = Cardinality(Changes(w, q, h)) + 1
          /\ k \notin Changes(w, q, k) => Changes(w, q, k) = Changes(w, q, h)
      BY <1>0, <2>1, <2>5, <3>1, ChangesGrow DEF LInv, Inv
    <3>5. /\ ledger'[w] # None
          /\ \E n \in Seen(w)' : /\ \A m \in Seen(w)' : m <= n
                                 /\ ledger'[w].hash = log'[q][n].hash
      BY <1>0, <2>1, <3>1, <3>2 DEF WritesRow
    <3>6. ledger'[w].rev = Cardinality(Changes(w, q, k))
      <4>1. CASE Seen(w) = {}
        <5>1. Changes(w, q, k) = {} /\ ledger[w] = None
          BY <1>0, <1>1, <3>1, <3>3, <4>1 DEF Changes, RecordsOf, RowOfSeen
        <5> QED
          BY <3>1, <5>1, FS_EmptySet DEF WritesRow
      <4>2. CASE Seen(w) # {}
        <5>1. PICK n \in Seen(w) : /\ \A m \in Seen(w) : m <= n
                                   /\ ledger[w].hash = log[q][n].hash
          BY <1>1, <4>2 DEF RowOfSeen
        <5>2. ledger[w] # None /\ ledger[w].rev = Cardinality(Changes(w, q, h))
          BY <1>1, <4>2 DEF RowOfSeen
        <5>3. k \in Changes(w, q, k) <=> log[q][n].hash # log[q][k].hash
          <6>1. n \in RecordsOf(w, q) /\ n < k /\ \A i \in RecordsOf(w, q) : ~(n < i /\ i < k)
            BY <1>0, <3>3, <5>1 DEF Seen
          <6>2. \A m \in RecordsOf(w, q) :
                   m < k /\ (\A i \in RecordsOf(w, q) : ~(m < i /\ i < k)) => m = n
            BY <1>0, <3>3, <5>1, <6>1 DEF RecordsOf
          <6> QED
            BY <1>0, <3>1, <6>1, <6>2 DEF Changes
        <5> QED
          BY <3>1, <3>4, <5>1, <5>2, <5>3 DEF WritesRow
      <4> QED
        BY <4>1, <4>2
    <3>7. Changes(w, q, handled[q])' = Changes(w, q, k)
      BY <2>1, <3>1 DEF Changes, RecordsOf
    <3> QED
      BY <3>5, <3>6, <3>7 DEF RowOfSeen
  <2> QED
    BY <2>3, <2>4, <2>5
<1>4. CASE UNCHANGED <<log, handled, ledger>>
  BY <1>1, <1>4 DEF RowOfSeen, Seen, RecordsOf, Changes
<1>5. CASE Produce
  BY <1>2, <1>5, ProduceAppends
<1> QED
  BY <1>3, <1>4, <1>5, UndisturbedStep

LEMMA LInvStep ==
  ASSUME LInv, [Next]_vars
  PROVE  LInv'
<1>1. Inv'
  BY InvStep DEF LInv
<1> QED
  BY <1>1, TopicStep, BatchStep, LatestStep, StillRunningStep, FirstPassStep, AuditStep, CacheStep
     DEF LInv

LEMMA LInvInit ==
  ASSUME Init
  PROVE  LInv
<1>1. Inv
  BY InvInit
<1>2. \A p \in Partitions : AcceptedRecords(p) = {} /\ \A w : RecordsOf(w, p) = {}
  BY DEF Init, RecordsOf, AcceptedRecords
<1>3. /\ DecidedProduced /\ Keyed /\ BeyondIsAbandoned
      /\ StillRunning /\ AuditIsHighWater /\ CacheBehindLedger
  BY <1>2 DEF Init, DecidedProduced, Keyed, BeyondIsAbandoned, StillRunning, AuditIsHighWater,
              CacheBehindLedger
<1>4. LatestIfHandled /\ FirstPass
  BY <1>2, ConsumerAssumption DEF Init, LatestIfHandled, FirstPass, RowOfSeen, Seen
<1> QED
  BY <1>1, <1>3, <1>4 DEF LInv

LEMMA LedgerInvariance == Spec => []LInv
BY LInvInit, LInvStep, PTL DEF Spec

(***************************************************************************)
(* Whatever crashes, is redelivered or fails to be written, the audit row  *)
(* of a partition names the highest record ever accepted from it.          *)
(***************************************************************************)
THEOREM AuditTrail == Spec => []AuditIsHighWater
BY LedgerInvariance, PTL DEF LInv

(***************************************************************************)
(* The cache never shows a row, or a revision, the ledger did not accept   *)
(* before: it is refreshed after the durable write, under every fault.     *)
(***************************************************************************)
THEOREM CacheNeverAhead == Spec => []CacheBehindLedger
BY LedgerInvariance, PTL DEF LInv

(***************************************************************************)
(* Redelivery heals: once a partition is handled to its end, every row has *)
(* the content its window was given last, although older entries were      *)
(* written over newer ones on the way.                                     *)
(***************************************************************************)
THEOREM Convergence == Spec => []CaughtUpLedgerIsLatest
<1>1. ASSUME LInv
      PROVE  CaughtUpLedgerIsLatest
  <2> SUFFICES ASSUME NEW w \in Windows,
                      handled[PartitionOf[w]] = Len(log[PartitionOf[w]]),
                      NEW n \in RecordsOf(w, PartitionOf[w])
                                  \ (missed[PartitionOf[w]] \union abandoned[PartitionOf[w]]),
                      \A m \in RecordsOf(w, PartitionOf[w]) : m <= n
               PROVE  ledger[w] # None /\ ledger[w].hash = log[PartitionOf[w]][n].hash
    BY DEF CaughtUpLedgerIsLatest
  <2>1. n <= handled[PartitionOf[w]]
    BY DEF RecordsOf
  <2> QED
    BY <1>1, <2>1 DEF LInv, LatestIfHandled
<1> QED
  BY <1>1, LedgerInvariance, PTL

(***************************************************************************)
(* Until the first fault, revision_count is the number of times the        *)
(* content of the window changed on the topic; duplicates never count.     *)
(***************************************************************************)
THEOREM RevisionCount == Spec => []RevisionsCountChanges
<1>1. ASSUME LInv
      PROVE  RevisionsCountChanges
  BY <1>1 DEF LInv, FirstPass, Undisturbed, RowOfSeen, RevisionsCountChanges
<1> QED
  BY <1>1, LedgerInvariance, PTL

-----------------------------------------------------------------------------
(***************************************************************************)
(* Without write failures and null messages nothing needs an excuse, and   *)
(* the consumer implements the at-least-once contract.                     *)
(***************************************************************************)
Reliable == "db" \notin FaultKinds /\ "null" \notin ForeignKinds

NoExcuse == \A p \in Partitions : missed[p] = {} /\ abandoned[p] = {}

RInv == Inv /\ NoExcuse /\ DecidedProduced

LEMMA ReliableStep ==
  ASSUME Reliable, RInv, [Next]_vars
  PROVE  RInv'
<1>0. Inv'
  BY InvStep DEF RInv
<1>1. ASSUME NEW p \in Partitions, NEW e \in Entries, AppendEntry(p, e)
      PROVE  NoExcuse' /\ DecidedProduced'
  <2>1. \A q \in Partitions : Len(log[q]) \in Nat /\ Len(log[q]) <= Len(log'[q])
    BY <1>1 DEF AppendEntry, RInv, Inv, TypeOK
  <2>2. \A q \in Partitions : Len(log'[q]) \in Nat
    BY <1>0 DEF Inv, TypeOK
  <2> QED
    BY <1>1, <2>1, <2>2 DEF AppendEntry, RInv, NoExcuse, DecidedProduced
<1>2. ASSUME NEW p \in Partitions, Reject(p) \/ Accept(p) \/ WriteFails(p)
      PROVE  NoExcuse' /\ DecidedProduced'
  <2>1. Reject(p) \/ Accept(p)
    BY <1>2 DEF WriteFails, Fault, Reliable
  <2>2. Decide(p) /\ UNCHANGED <<log, missed, abandoned>>
    BY <2>1 DEF Reject, Accept, topicVars
  <2>3. Handled(p)
    BY <1>2, HandleAdvances
  <2>4. handled[p] + 1 \in 1 .. Len(log[p])
    BY <2>3 DEF Handled, RInv, Inv, Bounds, TypeOK
  <2> QED
    BY <2>2, <2>4 DEF Decide, RInv, Inv, TypeOK, NoExcuse, DecidedProduced
<1>3. ASSUME NEW p \in Partitions, AbortOnNull(p)
      PROVE  FALSE
  <2>1. Entry(p) \in Entries
    BY <1>3, HandledEntry DEF AbortOnNull, Turn, RInv, Inv, Bounds
  <2> QED
    BY <1>3, <2>1, EntryFields DEF AbortOnNull, Reliable
<1>4. CASE UNCHANGED <<log, decided, missed, abandoned>>
  BY <1>0, <1>4 DEF RInv, NoExcuse, DecidedProduced
<1>5. CASE Produce
  BY <1>0, <1>1, <1>5, ProduceAppends DEF RInv
<1>6. ASSUME \/ Poll \/ FinishBatch \/ CommitFails \/ LeaveLoop \/ Shutdown \/ Restart
             \/ RequestStop \/ Crash \/ CacheExpires \/ UNCHANGED vars
      PROVE  UNCHANGED <<log, decided, missed, abandoned>>
  BY <1>6 DEF Poll, FinishBatch, CommitFails, LeaveLoop, Shutdown, Restart, RequestStop, Crash,
              CacheExpires, vars, topicVars, ghostVars
<1> QED
  BY <1>0, <1>2, <1>3, <1>4, <1>5, <1>6 DEF RInv, Next, Consumer, Handle

LEMMA ReliableInit ==
  ASSUME Init
  PROVE  RInv
<1>1. NoExcuse /\ DecidedProduced
  BY DEF Init, NoExcuse, DecidedProduced
<1> QED
  BY <1>1, InvInit DEF RInv

(***************************************************************************)
(* consumer.py:442-443 is right about every behaviour in which no write    *)
(* raises and every message has a value: no committed entry is lost.       *)
(***************************************************************************)
THEOREM ReliableLosesNothing ==
  ASSUME Reliable
  PROVE  Spec => []NoMessageLost
<1>1. RInv => NoMessageLost
  BY DEF RInv, Inv, LossHasCause, NoExcuse, NoMessageLost, Explained
<1>2. Init => RInv
  BY ReliableInit
<1>3. RInv /\ [Next]_vars => RInv'
  BY ReliableStep
<1> QED
  BY <1>1, <1>2, <1>3, PTL DEF Spec

-----------------------------------------------------------------------------
LEMMA RefinementInit ==
  ASSUME Init
  PROVE  ALO!Init
BY DEF Init, ALO!Init

LEMMA RefinementStep ==
  ASSUME Reliable, RInv, [Next]_vars
  PROVE  [ALO!Next]_(ALO!vars)
<1> DEFINE produced == [p \in Partitions |-> Len(log[p])]
<1>0. RInv'
  BY ReliableStep
<1>1. ASSUME NEW p \in Partitions, NEW e \in Entries, AppendEntry(p, e)
      PROVE  ALO!Produce(p)
  <2>1. Len(Append(log[p], e)) = Len(log[p]) + 1
    BY <1>1 DEF RInv, Inv, TypeOK
  <2>2. produced' = [produced EXCEPT ![p] = @ + 1]
    BY <1>1, <2>1 DEF AppendEntry, RInv, Inv, TypeOK
  <2> QED
    BY <1>1, <2>2 DEF AppendEntry, ALO!Produce
<1>2. ASSUME NEW p \in Partitions, Reject(p) \/ Accept(p) \/ WriteFails(p)
      PROVE  \E n \in 1 .. Len(log[p]) : ALO!Settle(p, n)
  <2>1. Reject(p) \/ Accept(p)
    BY <1>2 DEF WriteFails, Fault, Reliable
  <2>2. Decide(p) /\ UNCHANGED <<log, committed>>
    BY <2>1 DEF Reject, Accept, topicVars
  <2>3. Handled(p)
    BY <1>2, HandleAdvances
  <2>4. handled[p] + 1 \in 1 .. Len(log[p])
    BY <2>3 DEF Handled, RInv, Inv, Bounds, TypeOK
  <2>5. ALO!Settle(p, handled[p] + 1)
    BY <2>2, <2>4 DEF Decide, ALO!Settle
  <2> QED
    BY <2>4, <2>5
<1>3. ASSUME committed' = position, UNCHANGED <<log, decided>>
      PROVE  ALO!Commit
  <2>1. committed' \in [Partitions -> Nat]
    BY <1>0 DEF RInv, Inv, TypeOK
  <2>2. ASSUME NEW p \in Partitions
        PROVE  committed[p] <= committed'[p] /\ committed'[p] <= produced[p]
    BY <1>3 DEF RInv, Inv, Bounds
  <2>3. ASSUME NEW p \in Partitions
        PROVE  1 .. committed'[p] \subseteq decided[p]
    BY <1>0, <1>3 DEF RInv, Inv, LossHasCause, NoExcuse, Explained
  <2> QED
    BY <1>3, <2>1, <2>2, <2>3 DEF ALO!Commit
<1>4. CASE UNCHANGED <<log, decided, committed>>
  BY <1>4 DEF ALO!vars
<1>5. ASSUME FinishBatch \/ CommitFails \/ Shutdown
      PROVE  UNCHANGED <<log, decided>> /\ (committed' = position \/ UNCHANGED committed)
  BY <1>5 DEF FinishBatch, CommitFails, Shutdown, ghostVars
<1>6. ASSUME \/ Poll \/ LeaveLoop \/ Restart \/ RequestStop \/ Crash \/ CacheExpires
             \/ UNCHANGED vars
             \/ \E p \in Partitions : AbortOnNull(p)
      PROVE  UNCHANGED <<log, decided, committed>>
  BY <1>6 DEF Poll, LeaveLoop, Restart, RequestStop, Crash, CacheExpires, AbortOnNull, vars,
              topicVars, ghostVars
<1>7. CASE Produce
  <2>1. \E p \in Partitions : ALO!Produce(p)
    BY <1>1, <1>7, ProduceAppends
  <2> QED
    BY <2>1 DEF ALO!Next
<1>8. CASE FinishBatch \/ CommitFails \/ Shutdown
  BY <1>3, <1>4, <1>5, <1>8 DEF ALO!Next
<1>9. CASE \E p \in Partitions : Reject(p) \/ Accept(p) \/ WriteFails(p)
  BY <1>2, <1>9 DEF ALO!Next
<1> QED
  BY <1>4, <1>6, <1>7, <1>8, <1>9 DEF Next, Consumer, Handle

(***************************************************************************)
(* Then the consumer is an implementation of AtLeastOnce: entries are      *)
(* produced, settled and committed, the last only over settled ones.       *)
(***************************************************************************)
THEOREM Refinement ==
  ASSUME Reliable
  PROVE  Spec => ImplementsAtLeastOnce
<1>1. Init => RInv /\ ALO!Init
  BY ReliableInit, RefinementInit
<1>2. RInv /\ [Next]_vars => RInv' /\ [ALO!Next]_(ALO!vars)
  BY ReliableStep, RefinementStep
<1> QED
  BY <1>1, <1>2, PTL DEF Spec, ImplementsAtLeastOnce, ALO!Spec
=============================================================================
