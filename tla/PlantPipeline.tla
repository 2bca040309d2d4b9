----------------------------- MODULE PlantPipeline -----------------------------
(***************************************************************************)
(* Plant telemetry from end to end: the AS400 bridge                       *)
(* (ecogrid/plant/bridge.py) polls a directory of batch drops and          *)
(* publishes, its spool holds what the broker did not take, and the plant  *)
(* consumer (ecogrid/plant/consumer.py) writes the topic to the ledger.    *)
(*                                                                         *)
(* A key of the topic is a plant and a window; rev numbers the readings    *)
(* the AS400 ever wrote for it, so two readings of a key differ in their   *)
(* payload_hash iff their rev differs.  One partition: keys are            *)
(* independent of each other except for the offset they share.  A send is  *)
(* appended once however often it is retried: the consumer cannot tell     *)
(* adjacent copies from one.                                               *)
(*                                                                         *)
(* A requested stop, noticed between cycles or polls, and an exception of  *)
(* getmany end a process at a point where nothing is in hand: there they   *)
(* are the crash.                                                          *)
(***************************************************************************)
EXTENDS Integers, Sequences, FiniteSets, Functions

CONSTANTS Plants,      \* plant ids
          Windows,     \* settlement windows, numbered in time order
          Files,       \* drop files, numbered in the order they are read
          MaxRev,      \* bound: readings of one plant and window
          MaxDrops,    \* bound: drops in a behaviour
          SpoolMax,    \* max_records of the spool
          FaultKinds,  \* which faults may happen
          MaxFaults,   \* bound: faults in a behaviour
          None         \* an empty drop, no row

ASSUME PlantAssumption ==
  /\ Windows \subseteq Nat /\ Files \subseteq Nat /\ IsFiniteSet(Files)
  /\ MaxRev \in Nat \ {0} /\ SpoolMax \in Nat \ {0} /\ MaxDrops \in Nat /\ MaxFaults \in Nat
  /\ FaultKinds \subseteq {"send", "io", "source", "foreign", "bridge", "db",
                           "commit", "consumer"}

Keys     == Plants \X Windows
Readings == [key : Keys, rev : 1 .. MaxRev]

ASSUME NoneIsNothing == None \notin Keys \union Readings \union 1 .. MaxRev

VARIABLES
  drops,      \* the reading in each drop file
  written,    \* readings the AS400 has written for each key
  bridge,     \* where the bridge is
  spool,      \* the lines of the spool file
  lastHash,   \* self._last_hash, 0 for a key it does not hold
  todo,       \* spooled readings the replay has still to send
  batch,      \* fetched readings this cycle has still to send
  failed,     \* still_failing / failures of the current loop
  log,        \* the topic
  late,       \* copies of unacknowledged sends still in the producer
  committed,  \* the consumer group's offset, kept by the broker
  position,   \* the consumer's fetch position
  handled,    \* entries _handle has returned for
  dirty,      \* self._uncommitted # 0
  consumer,   \* where the consumer is
  ledger,     \* plant_telemetry: the reading in each key's row
  owed,       \* history: readings the bridge fetched and could not publish
  lost,       \* history: readings dropped, each by a fault or by the spool bound
  missed,     \* history: entries whose write failed, or that were abandoned
  faults      \* history: faults so far

sourceVars   == <<drops, written>>
bridgeVars   == <<bridge, spool, lastHash, todo, batch, failed>>
brokerVars   == <<log, late>>
consumerVars == <<committed, position, handled, dirty, consumer, ledger, missed>>
vars == <<sourceVars, bridgeVars, brokerVars, consumerVars, owed, lost, faults>>

\* A line that does not parse: a fragment without its newline, or garbage closed by one.
Torn    == [key |-> None, rev |-> 0]
Corrupt == [key |-> None, rev |-> 1]
\* An entry of another client: one that does not validate, one without a value.
Poison  == [key |-> None, rev |-> 0]
Null    == [key |-> None, rev |-> 1]

Elements(s) == {s[i] : i \in DOMAIN s}
LastOf(s)   == s[Len(s)]

TypeOK ==
  /\ drops \in [Files -> Readings \union {None}]
  /\ written \in [Keys -> 0 .. MaxRev]
  /\ bridge \in {"idle", "replay", "fetch", "publish", "down"}
  /\ spool \in Seq(Readings \union {Torn, Corrupt})
  /\ lastHash \in [Keys -> 0 .. MaxRev]
  /\ todo \in Seq(Readings) /\ failed \in Seq(Readings)
  /\ batch \subseteq Readings
  /\ log \in Seq(Readings \union {Poison, Null}) /\ late \in Seq(Readings)
  /\ committed \in 0 .. Len(log) /\ position \in 0 .. Len(log) /\ handled \in 0 .. position
  /\ dirty \in BOOLEAN
  /\ consumer \in {"poll", "batch", "stop", "down"}
  /\ ledger \in [Keys -> 1 .. MaxRev \union {None}]
  /\ owed \subseteq Readings /\ lost \subseteq Readings
  /\ missed \subseteq 1 .. Len(log)
  /\ faults \in 0 .. MaxFaults

Init ==
  /\ drops = [f \in Files |-> None]
  /\ written = [k \in Keys |-> 0]
  /\ bridge = "idle"
  /\ spool = <<>>
  /\ lastHash = [k \in Keys |-> 0]
  /\ todo = <<>> /\ batch = {} /\ failed = <<>>
  /\ log = <<>> /\ late = <<>>
  /\ committed = 0 /\ position = 0 /\ handled = 0
  /\ dirty = FALSE
  /\ consumer = "poll"
  /\ ledger = [k \in Keys |-> None]
  /\ owed = {} /\ lost = {} /\ missed = {}
  /\ faults = 0

Fault(kind) == /\ kind \in FaultKinds
               /\ faults < MaxFaults
               /\ faults' = faults + 1

-----------------------------------------------------------------------------
\* The AS400 writes, or overwrites, a drop.
Drop ==
  /\ \E f \in Files, k \in Keys :
       /\ written[k] < MaxRev
       /\ SumFunction(written) < MaxDrops
       /\ written' = [written EXCEPT ![k] = @ + 1]
       /\ drops' = [drops EXCEPT ![f] = [key |-> k, rev |-> written[k] + 1]]
  /\ UNCHANGED <<bridgeVars, brokerVars, consumerVars, owed, lost, faults>>

Extend(s, entry) == IF s # <<>> /\ LastOf(s) = entry THEN s ELSE Append(s, entry)

AppendForeign ==
  /\ Fault("foreign")
  /\ \E entry \in {Poison, Null} : log' = Append(log, entry)
  /\ UNCHANGED <<sourceVars, bridgeVars, late, consumerVars, owed, lost>>

\* The producer's own retry delivers a copy whose send was given up, or expires it.
LateCopy ==
  /\ late # <<>>
  /\ late' = Tail(late)
  /\ log' \in {log, Extend(log, Head(late))}
  /\ UNCHANGED <<sourceVars, bridgeVars, consumerVars, owed, lost, faults>>

(***************************************************************************)
(* _publish.  The producer is idempotent, so a send is acknowledged only   *)
(* after the copies before it are settled; every exception, a timeout or   *)
(* another, is retried and in the end given up.                            *)
(***************************************************************************)
Acknowledged(r) == late = <<>> /\ log' = Extend(log, r) /\ UNCHANGED <<late, faults>>

GivenUp(r) == /\ Fault("send")
              /\ late' \in {late, Append(late, r)}
              /\ UNCHANGED log

Remember(r) == lastHash' = [lastHash EXCEPT ![r.key] = r.rev]

-----------------------------------------------------------------------------
(***************************************************************************)
(* PlantSpool.  append() opens the file at its end, so its first line      *)
(* continues a torn one, and _trim then keeps the newest SpoolMax lines;   *)
(* replace() and _trim open it with "w" and write it anew.                 *)
(***************************************************************************)
IsReading(line) == line \in Readings

\* The lines that pass, in order.
Load ==
  LET kept[n \in 0 .. Len(spool)] ==
        IF n = 0 THEN <<>>
        ELSE IF IsReading(spool[n]) THEN Append(kept[n - 1], spool[n]) ELSE kept[n - 1]
  IN kept[Len(spool)]

Written(lines, records) ==
  IF records # <<>> /\ lines # <<>> /\ LastOf(lines) = Torn
    THEN [lines EXCEPT ![Len(lines)] = Corrupt] \o Tail(records)
    ELSE lines \o records

Newest(lines) == SubSeq(lines, Len(lines) - SpoolMax + 1, Len(lines))

Fragment(lines) == IF lines # <<>> /\ LastOf(lines) = Torn THEN lines ELSE Append(lines, Torn)

\* What writing records behind lines may leave when it is cut short.
Cut(lines, records) ==
  UNION {LET whole == Written(lines, SubSeq(records, 1, k)) IN
           {whole} \union (IF k < Len(records) THEN {Fragment(whole)} ELSE {}) :
         k \in 0 .. Len(records)}

Appended == Written(spool, failed)
Trimmed  == IF Len(Appended) > SpoolMax THEN Newest(Appended) ELSE Appended

CutAppend == Cut(spool, failed)
               \union (IF Len(Appended) > SpoolMax THEN Cut(<<>>, Newest(Appended)) ELSE {})
CutReplace == Cut(<<>>, failed) \union {spool}

\* The file is now lines, and the records of before that it lacks are gone.
Spools(lines, before) ==
  /\ spool' = lines
  /\ lost' = lost \union ((before \ Elements(lines)) \intersect Readings)

-----------------------------------------------------------------------------
\* Mutant of StartCycle: the spool is not replayed.
NeverReplays ==
  /\ bridge = "idle"
  /\ bridge' = "fetch"
  /\ UNCHANGED <<sourceVars, spool, lastHash, todo, batch, failed, brokerVars, consumerVars,
                 owed, lost, faults>>

(***************************************************************************)
(* A cycle, run_once: first the spool is replayed, then the drops are read *)
(* and published.  A spool that cannot be read counts as empty.            *)
(***************************************************************************)
StartCycle ==
  /\ bridge = "idle"
  /\ \/ Load # <<>> /\ bridge' = "replay" /\ todo' = Load /\ UNCHANGED faults
     \/ Load = <<>> /\ bridge' = "fetch" /\ UNCHANGED <<todo, faults>>
     \/ Load # <<>> /\ Fault("io") /\ bridge' = "fetch" /\ UNCHANGED todo
  /\ UNCHANGED <<sourceVars, spool, lastHash, batch, failed, brokerVars, consumerVars,
                 owed, lost>>

\* Mutant of ReplayOne: a replayed reading is not remembered as the last one sent.
ReplayForgets ==
  /\ bridge = "replay"
  /\ todo # <<>>
  /\ todo' = Tail(todo)
  /\ \/ Acknowledged(Head(todo)) /\ UNCHANGED failed
     \/ GivenUp(Head(todo)) /\ failed' = Append(failed, Head(todo))
  /\ UNCHANGED <<sourceVars, bridge, spool, lastHash, batch, consumerVars, owed, lost>>

ReplayOne ==
  /\ bridge = "replay"
  /\ todo # <<>>
  /\ todo' = Tail(todo)
  /\ \/ Acknowledged(Head(todo)) /\ Remember(Head(todo)) /\ UNCHANGED failed
     \/ GivenUp(Head(todo)) /\ failed' = Append(failed, Head(todo)) /\ UNCHANGED lastHash
  /\ UNCHANGED <<sourceVars, bridge, spool, batch, consumerVars, owed, lost>>

\* Mutant of FinishReplay: the spool is emptied once it has been replayed.
ReplayTruncates ==
  /\ bridge = "replay"
  /\ todo = <<>>
  /\ spool' = <<>>
  /\ failed' = <<>>
  /\ bridge' = "fetch"
  /\ UNCHANGED <<sourceVars, lastHash, todo, batch, brokerVars, consumerVars, owed, lost, faults>>

\* self._spool.replace(still_failing); an OSError is logged and swallowed.
FinishReplay ==
  /\ bridge = "replay"
  /\ todo = <<>>
  /\ \/ spool' = failed /\ UNCHANGED <<lost, faults>>
     \/ Fault("io") /\ \E lines \in CutReplace : Spools(lines, Elements(failed))
  /\ failed' = <<>>
  /\ bridge' = "fetch"
  /\ UNCHANGED <<sourceVars, lastHash, todo, batch, brokerVars, consumerVars, owed>>

(***************************************************************************)
(* FilePlantSource.fetch takes no notice of the window it is asked for: of *)
(* every plant it returns the newest window in the drops, and among the    *)
(* drops of that window the one it reads first.                            *)
(***************************************************************************)
DropsOf(p, seen) == {f \in seen : drops[f] # None /\ drops[f].key[1] = p}

ReadFirst(files) ==
  CHOOSE f \in files : \A g \in files : \/ drops[f].key[2] > drops[g].key[2]
                                        \/ drops[f].key[2] = drops[g].key[2] /\ f <= g

Fetched(seen) == {drops[ReadFirst(DropsOf(p, seen))] :
                    p \in {q \in Plants : DropsOf(q, seen) # {}}}

\* A drop that does not parse is skipped; any other exception ends the cycle.
Fetch ==
  /\ bridge = "fetch"
  /\ \/ batch' = Fetched(Files) /\ bridge' = "publish" /\ UNCHANGED faults
     \/ \E f \in Files : /\ Fault("source")
                         /\ batch' = Fetched(Files \ {f})
                         /\ bridge' = "publish"
     \/ Fault("source") /\ bridge' = "idle" /\ UNCHANGED batch
  /\ UNCHANGED <<sourceVars, spool, lastHash, todo, failed, brokerVars, consumerVars, owed, lost>>

PublishOne ==
  /\ bridge = "publish"
  /\ \E r \in batch :
       /\ batch' = batch \ {r}
       /\ \/ lastHash[r.key] = r.rev /\ UNCHANGED <<brokerVars, lastHash, failed, owed, faults>>
          \/ /\ lastHash[r.key] # r.rev
             /\ Acknowledged(r)
             /\ Remember(r)
             /\ UNCHANGED <<failed, owed>>
          \/ /\ lastHash[r.key] # r.rev
             /\ GivenUp(r)
             /\ failed' = Append(failed, r)
             /\ owed' = owed \union {r}
             /\ UNCHANGED lastHash
  /\ UNCHANGED <<sourceVars, bridge, spool, todo, consumerVars, lost>>

FinishPublish ==
  /\ bridge = "publish"
  /\ batch = {}
  /\ LET before == Elements(spool) \union Elements(failed) IN
       \/ failed = <<>> /\ UNCHANGED <<spool, lost, faults>>
       \/ failed # <<>> /\ Spools(Trimmed, before) /\ UNCHANGED faults
       \/ failed # <<>> /\ Fault("io") /\ \E lines \in CutAppend : Spools(lines, before)
  /\ failed' = <<>>
  /\ bridge' = "idle"
  /\ UNCHANGED <<sourceVars, lastHash, todo, batch, brokerVars, consumerVars, owed>>

\* Everything in memory goes, the producer's unsent copies with it.
BridgeEnds == /\ bridge' = "down"
              /\ lastHash' = [k \in Keys |-> 0]
              /\ todo' = <<>> /\ batch' = {} /\ failed' = <<>>
              /\ late' = <<>>

BridgeCrashes ==
  /\ bridge # "down"
  /\ Fault("bridge")
  /\ BridgeEnds
  /\ \/ /\ lost' = IF bridge = "publish" THEN lost \union Elements(failed) ELSE lost
        /\ UNCHANGED spool
     \/ /\ bridge = "replay" /\ todo = <<>>
        /\ \E lines \in CutReplace : Spools(lines, Elements(failed))
     \/ /\ bridge = "publish" /\ batch = {} /\ failed # <<>>
        /\ \E lines \in CutAppend : Spools(lines, Elements(spool) \union Elements(failed))
  /\ UNCHANGED <<sourceVars, log, consumerVars, owed>>

BridgeRestarts ==
  /\ bridge = "down"
  /\ bridge' = "idle"
  /\ UNCHANGED <<sourceVars, spool, lastHash, todo, batch, failed, brokerVars, consumerVars,
                 owed, lost, faults>>

Bridge == \/ StartCycle \/ ReplayOne \/ FinishReplay \/ Fetch \/ PublishOne \/ FinishPublish
          \/ BridgeRestarts

-----------------------------------------------------------------------------
(***************************************************************************)
(* The consumer: the loop of TelemetryConsumer without audit row, cache    *)
(* and per-partition counters.                                             *)
(***************************************************************************)
Poll ==
  /\ consumer = "poll"
  /\ position' \in position + 1 .. Len(log)
  /\ consumer' = "batch"
  /\ UNCHANGED <<sourceVars, bridgeVars, brokerVars, committed, handled, dirty, ledger, missed,
                 owed, lost, faults>>

Turn  == consumer = "batch" /\ handled < position
Entry == log[handled + 1]

\* Mutant of Accept: ON CONFLICT DO NOTHING.
AcceptFirst ==
  /\ Turn
  /\ Entry \in Readings
  /\ ledger' = [ledger EXCEPT ![Entry.key] = IF @ = None THEN Entry.rev ELSE @]
  /\ handled' = handled + 1
  /\ dirty' = TRUE
  /\ UNCHANGED <<sourceVars, bridgeVars, brokerVars, committed, position, consumer, missed,
                 owed, lost, faults>>

\* The upsert: the row holds the entry's reading, whatever it held before.
Accept ==
  /\ Turn
  /\ Entry \in Readings
  /\ ledger' = [ledger EXCEPT ![Entry.key] = Entry.rev]
  /\ handled' = handled + 1
  /\ dirty' = TRUE
  /\ UNCHANGED <<sourceVars, bridgeVars, brokerVars, committed, position, consumer, missed,
                 owed, lost, faults>>

\* The write raises, its COMMIT carried out or not; the loop goes on.
WriteFails ==
  /\ Turn
  /\ Entry \in Readings
  /\ Fault("db")
  /\ \/ ledger' = [ledger EXCEPT ![Entry.key] = Entry.rev] /\ UNCHANGED missed
     \/ missed' = missed \union {handled + 1} /\ UNCHANGED ledger
  /\ handled' = handled + 1
  /\ UNCHANGED <<sourceVars, bridgeVars, brokerVars, committed, position, dirty, consumer,
                 owed, lost>>

\* Dead-lettered, whether or not the dead-letter topic takes it.
Reject ==
  /\ Turn
  /\ Entry = Poison
  /\ handled' = handled + 1
  /\ dirty' = TRUE
  /\ UNCHANGED <<sourceVars, bridgeVars, brokerVars, committed, position, consumer, ledger,
                 missed, owed, lost, faults>>

\* A message without a value: _dead_letter raises and run() leaves the loop.
AbortOnNull ==
  /\ Turn
  /\ Entry = Null
  /\ consumer' = "stop"
  /\ missed' = missed \union handled + 1 .. position
  /\ UNCHANGED <<sourceVars, bridgeVars, brokerVars, committed, position, handled, dirty, ledger,
                 owed, lost, faults>>

FinishBatch ==
  /\ consumer = "batch"
  /\ handled = position
  /\ committed' = IF dirty THEN position ELSE committed
  /\ dirty' = FALSE
  /\ consumer' = "poll"
  /\ UNCHANGED <<sourceVars, bridgeVars, brokerVars, position, handled, ledger, missed,
                 owed, lost, faults>>

\* The commit raises, having reached the broker or not; run() leaves the loop.
CommitFails ==
  /\ consumer = "batch"
  /\ handled = position
  /\ dirty
  /\ Fault("commit")
  /\ committed' \in {committed, position}
  /\ consumer' = "stop"
  /\ UNCHANGED <<sourceVars, bridgeVars, brokerVars, position, handled, dirty, ledger, missed,
                 owed, lost>>

\* stop(): a last commit if anything is uncommitted.
Shutdown ==
  /\ consumer = "stop"
  /\ \/ committed' = (IF dirty THEN position ELSE committed) /\ UNCHANGED faults
     \/ dirty /\ Fault("commit") /\ UNCHANGED committed
  /\ consumer' = "down"
  /\ UNCHANGED <<sourceVars, bridgeVars, brokerVars, position, handled, dirty, ledger, missed,
                 owed, lost>>

ConsumerCrashes ==
  /\ consumer # "down"
  /\ Fault("consumer")
  /\ consumer' = "down"
  /\ UNCHANGED <<sourceVars, bridgeVars, brokerVars, committed, position, handled, dirty, ledger,
                 missed, owed, lost>>

\* Mutant of ConsumerRestarts: the progress through the batch survives the process.
ConsumerResumes ==
  /\ consumer = "down"
  /\ position' = committed
  /\ dirty' = FALSE
  /\ consumer' = "poll"
  /\ UNCHANGED <<sourceVars, bridgeVars, brokerVars, committed, handled, ledger, missed, owed,
                 lost, faults>>

ConsumerRestarts ==
  /\ consumer = "down"
  /\ position' = committed
  /\ handled' = committed
  /\ dirty' = FALSE
  /\ consumer' = "poll"
  /\ UNCHANGED <<sourceVars, bridgeVars, brokerVars, committed, ledger, missed, owed, lost, faults>>

Consumer == \/ Poll \/ Accept \/ Reject \/ AbortOnNull \/ WriteFails
            \/ FinishBatch \/ CommitFails \/ Shutdown \/ ConsumerRestarts

Next == \/ Drop \/ AppendForeign \/ LateCopy
        \/ Bridge \/ BridgeCrashes
        \/ Consumer \/ ConsumerCrashes

(***************************************************************************)
(* Both loops always go on to their next step, the supervisor restarts     *)
(* both processes, and the producer settles every copy it holds within its *)
(* request timeout.  The AS400 owes no further drop.                       *)
(***************************************************************************)
Spec == /\ Init /\ [][Next]_vars
        /\ WF_vars(Bridge) /\ WF_vars(LateCopy) /\ WF_vars(Consumer)

-----------------------------------------------------------------------------
InMemory == Elements(failed) \union Elements(todo) \union batch

(***************************************************************************)
(* bridge.py:42, "so a Kafka outage does not lose plant windows": a        *)
(* reading whose publication was given up is on the topic, in the spool    *)
(* file or about to be written to it, unless a counted accident dropped    *)
(* it: the spool bound, a rewrite or an append that was cut short.         *)
(***************************************************************************)
GivenUpIsKept ==
  \A r \in owed : r \in Elements(log) \union Elements(spool) \union InMemory \union lost

OnTheWay == log \o late
ComesLast(k, rev) == \E i \in DOMAIN OnTheWay :
                       /\ OnTheWay[i].key = k /\ OnTheWay[i].rev = rev
                       /\ \A j \in DOMAIN OnTheWay : j > i => OnTheWay[j].key # k
Unsettled(k) == \E r \in (Elements(spool) \intersect Readings) \union InMemory \union lost : r.key = k

(***************************************************************************)
(* bridge.py:242-244 skips a reading equal to the last one acknowledged.   *)
(* That is right only if the topic shows, or will show, that reading last  *)
(* of its key; otherwise another reading of the key is still to be sent.   *)
(***************************************************************************)
SuppressionIsJustified ==
  \A k \in Keys : \/ lastHash[k] = 0
                  \/ ComesLast(k, lastHash[k])
                  \/ Unsettled(k)

\* What the consumer is known not to bring to the ledger: see NoMessageLost and
\* EveryEntryCommitted of TelemetryConsumer.
Skipped(k) == \/ \E n \in missed : log[n].key = k
              \/ Null \in Elements(log)

(***************************************************************************)
(* The same promise end to end: once a reading was given up, its plant and *)
(* window get a row, although the source may never return it again.        *)
(***************************************************************************)
SpooledArrives ==
  \A k \in Keys : (\E r \in owed : r.key = k)
                    ~> ledger[k] # None \/ (\E r \in lost : r.key = k) \/ Skipped(k)

(***************************************************************************)
(* Whatever was sent twice, late, or out of order, and whoever restarted,  *)
(* the row of what the source still returns ends up with that reading.     *)
(***************************************************************************)
LedgerConverges ==
  <>[](\A r \in Fetched(Files) : \/ ledger[r.key] = r.rev
                                 \/ \E q \in lost : q.key = r.key
                                 \/ Skipped(r.key))
=============================================================================
