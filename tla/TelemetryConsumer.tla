-------------------------- MODULE TelemetryConsumer --------------------------
(***************************************************************************)
(* The Kafka -> PostgreSQL -> Redis consumer of grid telemetry             *)
(* (ecogrid/consumer.py): one process that polls a batch, handles its      *)
(* messages one by one, and commits the offset of the whole batch last.    *)
(*                                                                         *)
(* A topic partition is an immutable sequence; offset o of the code is     *)
(* entry o + 1 here, and committed, position and handled count entries.    *)
(* A window's content is a member of Hashes (payload_hash): the upsert and *)
(* the duplicate guard look at nothing else.                               *)
(*                                                                         *)
(* Faults are chosen by FaultKinds and bounded, all kinds together, by     *)
(* MaxFaults; MaxLog bounds the topic.                                     *)
(***************************************************************************)
EXTENDS Integers, Sequences, FiniteSets

CONSTANTS Partitions,    \* partitions of the carbon topic
          Windows,       \* settlement windows, numbered in time order
          Hashes,        \* payload contents a window may have
          PartitionOf,   \* the key partitioner: a window's partition
          ForeignKinds,  \* unreadable entries some other client may append
          FaultKinds,    \* which faults may happen
          MaxLog,        \* bound: entries of each partition
          MaxFaults,     \* bound: faults in a behaviour
          None           \* no row, no cache entry

ASSUME ConsumerAssumption ==
  /\ Windows \subseteq Nat
  /\ PartitionOf \in [Windows -> Partitions]
  /\ ForeignKinds \subseteq {"poison", "null"}
  /\ FaultKinds \subseteq {"crash", "stop", "db", "commit", "dlq", "cache"}
  /\ MaxLog \in [Partitions -> Nat]
  /\ MaxFaults \in Nat
  /\ None \notin Windows \union Hashes

VARIABLES
  log,        \* the topic: a sequence of entries per partition
  committed,  \* the group's committed offsets, kept by the broker
  position,   \* the client's fetch position: the end of the batch in hand
  handled,    \* entries _handle_message has returned for
  current,    \* the partition whose messages are being iterated
  dirty,      \* self._uncommitted # 0
  stopping,   \* self._stop is set
  pc,         \* where the process is
  ledger,     \* grid_telemetry: the row of each window
  audit,      \* ingest_audit: the row of each partition
  stats,      \* self._partition_stats
  cache,      \* the single Redis key telemetry:latest
  dlq,        \* entries forwarded to the dead-letter topic
  decided,    \* history: entries written to the ledger or rejected
  missed,     \* history: entries whose write failed
  abandoned,  \* history: entries of a batch the loop left unfinished
  faults      \* history: faults so far

topicVars  == <<log, committed>>
storeVars  == <<ledger, audit, cache, dlq>>
ghostVars  == <<decided, missed, abandoned>>
vars == <<log, committed, position, handled, current, dirty, stopping, pc,
          ledger, audit, stats, cache, dlq, decided, missed, abandoned, faults>>

Record(w, h)  == [kind |-> "record", window |-> w, hash |-> h]
Foreign(kind) == [kind |-> kind, window |-> None, hash |-> None]
Entries == [kind : {"record"}, window : Windows, hash : Hashes]
             \union [kind : ForeignKinds, window : {None}, hash : {None}]

Row(h, rev)   == [hash |-> h, rev |-> rev]
AuditRow(n, s) == [last |-> n, counters |-> s]

\* ConsumerStats; applied is inserted + revised, the sum the audit row stores.
Counters == {"consumed", "rejected", "applied", "duplicates"}
Stats    == [Counters -> Nat]
NoStats  == [c \in Counters |-> 0]
Count(s, counted) == [c \in Counters |-> IF c \in counted THEN s[c] + 1 ELSE s[c]]

ASSUME NoneAssumption ==
  /\ None \notin [hash : Hashes, rev : Nat]
  /\ None \notin [last : Nat, counters : Stats]
  /\ None \notin [window : Windows, hash : Hashes, rev : Nat]

TypeOK ==
  /\ log \in [Partitions -> Seq(Entries)]
  /\ committed \in [Partitions -> Nat]
  /\ position \in [Partitions -> Nat]
  /\ handled \in [Partitions -> Nat]
  /\ current \in Partitions
  /\ dirty \in BOOLEAN
  /\ stopping \in BOOLEAN
  /\ pc \in {"poll", "batch", "stop", "down"}
  /\ ledger \in [Windows -> [hash : Hashes, rev : Nat] \union {None}]
  /\ audit \in [Partitions -> [last : Nat, counters : Stats] \union {None}]
  /\ stats \in [Partitions -> Stats]
  /\ cache \in [window : Windows, hash : Hashes, rev : Nat] \union {None}
  /\ dlq \in SUBSET (Partitions \X Nat)
  /\ decided \in [Partitions -> SUBSET Nat]
  /\ missed \in [Partitions -> SUBSET Nat]
  /\ abandoned \in [Partitions -> SUBSET Nat]
  /\ faults \in Nat

Init ==
  /\ log = [p \in Partitions |-> <<>>]
  /\ committed = [p \in Partitions |-> 0]
  /\ position = [p \in Partitions |-> 0]
  /\ handled = [p \in Partitions |-> 0]
  /\ current \in Partitions
  /\ dirty = FALSE
  /\ stopping = FALSE
  /\ pc = "poll"
  /\ ledger = [w \in Windows |-> None]
  /\ audit = [p \in Partitions |-> None]
  /\ stats = [p \in Partitions |-> NoStats]
  /\ cache = None
  /\ dlq = {}
  /\ decided = [p \in Partitions |-> {}]
  /\ missed = [p \in Partitions |-> {}]
  /\ abandoned = [p \in Partitions |-> {}]
  /\ faults = 0

Fault(kind) == /\ kind \in FaultKinds
               /\ faults < MaxFaults
               /\ faults' = faults + 1

-----------------------------------------------------------------------------
(***************************************************************************)
(* The topic.  The worker keys a record by its window, so every content of *)
(* a window goes to one partition; anything else on the topic is foreign.  *)
(***************************************************************************)
AppendEntry(p, e) ==
  /\ Len(log[p]) < MaxLog[p]
  /\ log' = [log EXCEPT ![p] = Append(@, e)]
  /\ UNCHANGED <<committed, position, handled, current, dirty, stopping, pc,
                 ledger, audit, stats, cache, dlq, decided, missed, abandoned, faults>>

Produce == \/ \E w \in Windows, h \in Hashes : AppendEntry(PartitionOf[w], Record(w, h))
           \/ \E p \in Partitions, kind \in ForeignKinds : AppendEntry(p, Foreign(kind))

-----------------------------------------------------------------------------
\* Mutant of Poll: offsets are committed as they are fetched (auto-commit).
PollAutoCommit ==
  /\ pc = "poll"
  /\ ~stopping
  /\ position' = [p \in Partitions |-> Len(log[p])]
  /\ position' # position
  /\ committed' = position'
  /\ current' \in {p \in Partitions : position[p] < position'[p]}
  /\ pc' = "batch"
  /\ UNCHANGED <<log, handled, dirty, stopping, storeVars, stats, ghostVars, faults>>

(***************************************************************************)
(* The poll loop.  getmany returns any non-empty amount of what lies       *)
(* beyond the position and moves the position past it.  An empty poll, or  *)
(* one that raises KafkaError, leaves everything as it is.                 *)
(***************************************************************************)
Poll ==
  /\ pc = "poll"
  /\ ~stopping
  /\ \E upto \in [Partitions -> UNION {0 .. Len(log[p]) : p \in Partitions}] :
        /\ \A p \in Partitions : position[p] <= upto[p] /\ upto[p] <= Len(log[p])
        /\ position' = upto
  /\ current' \in {p \in Partitions : position[p] < position'[p]}
  /\ pc' = "batch"
  /\ UNCHANGED <<topicVars, handled, dirty, stopping, storeVars, stats, ghostVars, faults>>

\* Partition p's next message is the one being handled: the batch is iterated
\* partition by partition, and a partition is finished before another begins.
Turn(p) ==
  /\ pc = "batch"
  /\ handled[p] < position[p]
  /\ p # current => handled[current] = position[current]

Entry(p) == log[p][handled[p] + 1]

Advance(p) == /\ handled' = [handled EXCEPT ![p] = @ + 1]
              /\ current' = p

Decide(p) == decided' = [decided EXCEPT ![p] = @ \union {handled[p] + 1}]

\* Mutant of Reject: a rejected message does not count as progress.
RejectUncounted(p) ==
  /\ Turn(p)
  /\ Entry(p).kind = "poison"
  /\ stats' = [stats EXCEPT ![p] = Count(@, {"consumed", "rejected"})]
  /\ dlq' = dlq \union {<<p, handled[p] + 1>>}
  /\ Decide(p)
  /\ Advance(p)
  /\ UNCHANGED <<topicVars, position, dirty, stopping, pc, ledger, audit, cache, missed,
                 abandoned, faults>>

(***************************************************************************)
(* A message that does not validate is dead-lettered and counts as         *)
(* progress, whether or not the dead-letter topic takes it.                *)
(***************************************************************************)
Reject(p) ==
  /\ Turn(p)
  /\ Entry(p).kind = "poison"
  /\ stats' = [stats EXCEPT ![p] = Count(@, {"consumed", "rejected"})]
  /\ \/ dlq' = dlq \union {<<p, handled[p] + 1>>} /\ UNCHANGED faults
     \/ Fault("dlq") /\ UNCHANGED dlq
  /\ Decide(p)
  /\ Advance(p)
  /\ dirty' = TRUE
  /\ UNCHANGED <<topicVars, position, stopping, pc, ledger, audit, cache, missed, abandoned>>

(***************************************************************************)
(* A message with no value does not validate either, but _dead_letter      *)
(* slices the value for its log line before it sends anything: the         *)
(* TypeError leaves the loop through run()'s finally clause.               *)
(***************************************************************************)
AbortOnNull(p) ==
  /\ Turn(p)
  /\ Entry(p).kind = "null"
  /\ stats' = [stats EXCEPT ![p] = Count(@, {"consumed", "rejected"})]
  /\ current' = p
  /\ pc' = "stop"
  /\ abandoned' = [q \in Partitions |-> abandoned[q] \union handled[q] + 1 .. position[q]]
  /\ UNCHANGED <<topicVars, position, handled, dirty, stopping, storeVars, decided, missed, faults>>

Outcome(e) == CASE ledger[e.window] = None         -> "inserted"
                [] ledger[e.window] # None
                   /\ ledger[e.window].hash = e.hash -> "duplicate"
                [] OTHER                            -> "revised"

\* Mutants of Upsert: without the WHERE clause, with DO NOTHING, and without the + 1.
UpsertUnguarded(e) ==
  ledger' = [ledger EXCEPT ![e.window] = Row(e.hash, IF @ = None THEN 0 ELSE @.rev + 1)]
UpsertDoNothing(e) ==
  ledger' = [ledger EXCEPT ![e.window] = IF @ = None THEN Row(e.hash, 0) ELSE @]
UpsertFlatRevision(e) ==
  ledger' = [ledger EXCEPT ![e.window] = Row(e.hash, 0)]

\* INSERT ... ON CONFLICT DO UPDATE ... WHERE payload_hash IS DISTINCT.
Upsert(e) ==
  ledger' = [ledger EXCEPT ![e.window] =
               CASE Outcome(e) = "inserted"  -> Row(e.hash, 0)
                 [] Outcome(e) = "revised"   -> Row(e.hash, ledger[e.window].rev + 1)
                 [] Outcome(e) = "duplicate" -> @]

\* The in-memory counters after a message whose upsert returned.
Counted(p, e) ==
  Count(stats[p], {"consumed", IF Outcome(e) = "duplicate" THEN "duplicates" ELSE "applied"})

\* Mutant of UpdateAudit: the excluded offset without GREATEST.
AuditLastWriteWins(p, e) ==
  audit' = [audit EXCEPT ![p] = AuditRow(handled[p] + 1, Counted(p, e))]

\* The audit row: the greatest offset seen, and this process's counters.
UpdateAudit(p, e) ==
  LET n == handled[p] + 1
      last == IF audit[p] # None /\ audit[p].last > n THEN audit[p].last ELSE n
  IN audit' = [audit EXCEPT ![p] = AuditRow(last, Counted(p, e))]

CacheEntry(e) == [window |-> e.window, hash |-> e.hash, rev |-> ledger'[e.window].rev]

\* set_latest_if_newer, called only when the upsert changed a row.
RefreshCache(e) ==
  IF /\ Outcome(e) # "duplicate"
     /\ cache # None => cache.window < e.window
    THEN \/ cache' = CacheEntry(e) /\ UNCHANGED faults
         \/ Fault("cache") /\ UNCHANGED cache
    ELSE UNCHANGED <<cache, faults>>

Accept(p) ==
  /\ Turn(p)
  /\ Entry(p).kind = "record"
  /\ Upsert(Entry(p))
  /\ stats' = [stats EXCEPT ![p] = Counted(p, Entry(p))]
  /\ UpdateAudit(p, Entry(p))
  /\ RefreshCache(Entry(p))
  /\ Decide(p)
  /\ Advance(p)
  /\ dirty' = TRUE
  /\ UNCHANGED <<topicVars, position, stopping, pc, dlq, missed, abandoned>>

(***************************************************************************)
(* The write raises.  The handler logs, sleeps and returns: the loop goes  *)
(* on with the next message, and self._uncommitted is not counted up.      *)
(***************************************************************************)
Miss(p) == missed' = [missed EXCEPT ![p] = @ \union {handled[p] + 1}]

\* Before the upsert returned: only the message itself was counted.
UpsertRaises(p) ==
  /\ stats' = [stats EXCEPT ![p] = Count(@, {"consumed"})]
  /\ Miss(p)
  /\ UNCHANGED <<ledger, audit, decided>>

\* After it: the outcome stays counted although the transaction rolls back.
CommitRollsBack(p) ==
  /\ stats' = [stats EXCEPT ![p] = Counted(p, Entry(p))]
  /\ Miss(p)
  /\ UNCHANGED <<ledger, audit, decided>>

\* On a COMMIT that PostgreSQL carried out.
CommitUnacknowledged(p) ==
  /\ stats' = [stats EXCEPT ![p] = Counted(p, Entry(p))]
  /\ Upsert(Entry(p))
  /\ UpdateAudit(p, Entry(p))
  /\ Decide(p)
  /\ UNCHANGED missed

WriteFails(p) ==
  /\ Turn(p)
  /\ Entry(p).kind = "record"
  /\ Fault("db")
  /\ UpsertRaises(p) \/ CommitRollsBack(p) \/ CommitUnacknowledged(p)
  /\ Advance(p)
  /\ UNCHANGED <<topicVars, position, dirty, stopping, pc, cache, dlq, abandoned>>

-----------------------------------------------------------------------------
BatchDone == pc = "batch" /\ \A p \in Partitions : handled[p] = position[p]

\* commit() with no argument commits the position of every partition.
FinishBatch ==
  /\ BatchDone
  /\ committed' = IF dirty THEN position ELSE committed
  /\ dirty' = FALSE
  /\ pc' = "poll"
  /\ UNCHANGED <<log, position, handled, current, stopping, storeVars, stats, ghostVars, faults>>

\* The commit raises, having reached the broker or not; run() leaves the loop.
CommitFails ==
  /\ BatchDone
  /\ dirty
  /\ Fault("commit")
  /\ committed' \in {committed, position}
  /\ pc' = "stop"
  /\ UNCHANGED <<log, position, handled, current, dirty, stopping, storeVars, stats, ghostVars>>

RequestStop ==
  /\ pc # "down"
  /\ ~stopping
  /\ Fault("stop")
  /\ stopping' = TRUE
  /\ UNCHANGED <<topicVars, position, handled, current, dirty, pc, storeVars, stats, ghostVars>>

LeaveLoop ==
  /\ pc = "poll"
  /\ stopping
  /\ pc' = "stop"
  /\ UNCHANGED <<topicVars, position, handled, current, dirty, stopping, storeVars, stats,
                 ghostVars, faults>>

\* stop(): a last commit of the positions if anything is uncommitted.
Shutdown ==
  /\ pc = "stop"
  /\ \/ /\ committed' = IF dirty THEN position ELSE committed
        /\ UNCHANGED faults
     \/ dirty /\ Fault("commit") /\ UNCHANGED committed
  /\ pc' = "down"
  /\ UNCHANGED <<log, position, handled, current, dirty, stopping, storeVars, stats, ghostVars>>

Crash ==
  /\ pc # "down"
  /\ Fault("crash")
  /\ pc' = "down"
  /\ UNCHANGED <<topicVars, position, handled, current, dirty, stopping, storeVars, stats, ghostVars>>

\* Mutant of Restart: the committed offset is taken as one still to be read again.
RestartInclusive ==
  /\ pc = "down"
  /\ position' = [p \in Partitions |-> committed[p] - 1]
  /\ handled' = position'
  /\ stats' = [p \in Partitions |-> NoStats]
  /\ dirty' = FALSE
  /\ stopping' = FALSE
  /\ pc' = "poll"
  /\ UNCHANGED <<topicVars, current, storeVars, ghostVars, faults>>

\* start(): a new process resumes from the committed offsets.
Restart ==
  /\ pc = "down"
  /\ position' = committed
  /\ handled' = committed
  /\ stats' = [p \in Partitions |-> NoStats]
  /\ dirty' = FALSE
  /\ stopping' = FALSE
  /\ pc' = "poll"
  /\ UNCHANGED <<topicVars, current, storeVars, ghostVars, faults>>

CacheExpires ==
  /\ cache # None
  /\ cache' = None
  /\ UNCHANGED <<topicVars, position, handled, current, dirty, stopping, pc,
                 ledger, audit, dlq, stats, ghostVars, faults>>

Handle(p) == Reject(p) \/ AbortOnNull(p) \/ Accept(p) \/ WriteFails(p)

Consumer == \/ Poll
            \/ \E p \in Partitions : Handle(p)
            \/ FinishBatch \/ CommitFails \/ LeaveLoop \/ Shutdown \/ Restart

Next == Produce \/ Consumer \/ RequestStop \/ Crash \/ CacheExpires

(***************************************************************************)
(* The loop never waits for ever on anything but an empty topic, and the   *)
(* supervisor restarts the process whenever it is down.                    *)
(***************************************************************************)
Spec == Init /\ [][Next]_vars /\ WF_vars(Consumer)

-----------------------------------------------------------------------------
Explained(p) == decided[p] \union missed[p] \union abandoned[p]

(***************************************************************************)
(* consumer.py:15-19, "deliberately last, so a crash causes redelivery     *)
(* rather than data loss": an entry below a committed offset was written   *)
(* or rejected, unless its write raised or a null message made the loop    *)
(* leave its batch.  Crashes, stops and failed commits alone lose nothing. *)
(***************************************************************************)
LossHasCause == \A p \in Partitions : 1 .. committed[p] \subseteq Explained(p)

(***************************************************************************)
(* models.py:IngestAudit, "given a row set, you can prove which topic      *)
(* offsets produced it": last_offset is the highest record the ledger ever *)
(* accepted from the partition, through crashes and redeliveries.          *)
(***************************************************************************)
AcceptedRecords(p) == {n \in decided[p] : log[p][n].kind = "record"}

AuditIsHighWater ==
  \A p \in Partitions :
     IF AcceptedRecords(p) = {}
       THEN audit[p] = None
       ELSE /\ audit[p] # None
            /\ audit[p].last \in AcceptedRecords(p)
            /\ \A n \in AcceptedRecords(p) : n <= audit[p].last

RecordsOf(w, p) == {n \in 1 .. Len(log[p]) : log[p][n].window = w}

(***************************************************************************)
(* FR-LDG-1 and the redelivery claim: once a partition is handled to its   *)
(* end, each window's row holds the content produced last, however often   *)
(* crashes made the consumer write older contents over newer ones, unless  *)
(* writing that very entry failed or was abandoned.                        *)
(***************************************************************************)
CaughtUpLedgerIsLatest ==
  \A w \in Windows :
     LET p == PartitionOf[w] IN
     handled[p] = Len(log[p]) =>
       \A n \in RecordsOf(w, p) \ (missed[p] \union abandoned[p]) :
          (\A m \in RecordsOf(w, p) : m <= n) =>
             ledger[w] # None /\ ledger[w].hash = log[p][n].hash

Changes(w, p, upto) ==
  {n \in RecordsOf(w, p) :
     /\ n <= upto
     /\ \E m \in RecordsOf(w, p) :
          /\ m < n
          /\ log[p][m].hash # log[p][n].hash
          /\ \A k \in RecordsOf(w, p) : ~(m < k /\ k < n)}

(***************************************************************************)
(* FR-LDG-2 and FR-LDG-3: as long as nothing failed or restarted,          *)
(* revision_count is exactly the number of content changes handled:        *)
(* redelivered duplicates on the topic never count.                        *)
(***************************************************************************)
RevisionsCountChanges ==
  faults = 0 /\ (\A p \in Partitions : abandoned[p] = {}) =>
    \A w \in Windows : ledger[w] # None =>
       ledger[w].rev = Cardinality(Changes(w, PartitionOf[w], handled[PartitionOf[w]]))

(***************************************************************************)
(* consumer.py step 3, the cache is refreshed after the durable write:     *)
(* the cached entry is a row the ledger has, or had at an earlier          *)
(* revision; it never shows content the ledger did not accept.             *)
(***************************************************************************)
CacheBehindLedger ==
  cache # None =>
    /\ ledger[cache.window] # None
    /\ cache.rev <= ledger[cache.window].rev
    /\ cache.rev = ledger[cache.window].rev => cache.hash = ledger[cache.window].hash

-----------------------------------------------------------------------------
(***************************************************************************)
(* consumer.py:442-443, "The offset is NOT committed, so Kafka             *)
(* redelivers ... cannot lose the message": every entry below a committed  *)
(* offset was written or rejected.                                         *)
(***************************************************************************)
NoMessageLost == \A p \in Partitions : 1 .. committed[p] \subseteq decided[p]

(***************************************************************************)
(* The consumer implements the at-least-once contract when PostgreSQL      *)
(* accepts every write and every message has a value.                      *)
(***************************************************************************)
ALO == INSTANCE AtLeastOnce WITH produced <- [p \in Partitions |-> Len(log[p])],
                                 settled <- decided

ImplementsAtLeastOnce == ALO!Spec

(***************************************************************************)
(* FR-LDG-6 and the restart policy: whatever is on the topic, poison       *)
(* included, is eventually below the committed offset; crashes, stops and  *)
(* failed commits only delay it.                                           *)
(***************************************************************************)
EveryEntryCommitted ==
  \A p \in Partitions : \A n \in 1 .. MaxLog[p] : Len(log[p]) >= n ~> committed[p] >= n
=============================================================================
