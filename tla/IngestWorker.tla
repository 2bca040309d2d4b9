----------------------------- MODULE IngestWorker -----------------------------
(***************************************************************************)
(* The grid ingestion worker (ingest_grid.py): poll the upstream feed,     *)
(* replay the disk spool, publish what changed, spool what the broker did  *)
(* not acknowledge.                                                        *)
(*                                                                         *)
(* Windows are numbered in time; upstream revises a window up to MaxRev    *)
(* times, and ContentOf[n] is the content (payload_hash) of its revision   *)
(* n, so that upstream may return to a content it had before.  The topic   *)
(* is kept per window, with adjacent repeats of one revision collapsed: a  *)
(* consumer cannot tell them from one.                                     *)
(***************************************************************************)
EXTENDS Integers, Sequences, FiniteSets

CONSTANTS NumWindows,   \* bound: windows the feed goes through
          Span,         \* windows one response covers
          MaxRev,       \* bound: revisions of a window
          ContentOf,    \* content of each revision number
          SpoolMax,     \* spool_max_records
          DedupeMax,    \* _DEDUPE_CACHE_MAX
          FaultKinds,   \* which faults may happen
          MaxFaults     \* bound: faults in a behaviour

Windows == 1 .. NumWindows
Revs    == 1 .. MaxRev

ASSUME WorkerAssumption ==
  /\ NumWindows \in Nat \ {0} /\ Span \in Nat \ {0} /\ MaxRev \in Nat \ {0}
  /\ SpoolMax \in Nat \ {0} /\ DedupeMax \in Nat \ {0} /\ MaxFaults \in Nat
  /\ DOMAIN ContentOf = Revs
  /\ FaultKinds \subseteq {"send", "io", "unexpected", "crash", "stop"}

VARIABLES
  now,       \* the oldest window the feed still returns
  upstream,  \* the revision upstream holds of each window
  topic,     \* per window, the revisions the broker has appended
  late,      \* per window, copies of sends that ended unacknowledged, still in the producer
  spool,     \* the lines of the spool file
  dedupe,    \* self._dedupe: the last acknowledged record of a window, oldest key first
  pc,        \* where the process is
  batch,     \* the records of this cycle's fetch, while the spool is replayed first
  todo,      \* records the current loop has still to send
  failed,    \* failures / still_failing of the current loop
  stopping,  \* self._stop is set
  owed,      \* history: records publish() gave up on
  lost,      \* history: records dropped, each by a fault or by the spool bound; one whose
             \* copy is still in the producer may arrive all the same
  spooled,   \* history: windows that have ever been spooled
  faults     \* history: faults so far

vars == <<now, upstream, topic, late, spool, dedupe, pc, batch, todo, failed, stopping,
          owed, lost, spooled, faults>>
worldVars == <<now, upstream>>
brokerVars == <<topic, late>>
historyVars == <<owed, lost, spooled>>

\* A record without a generation mix has its revision negated.
Records == [window : Windows, rev : Revs \union {-n : n \in Revs}]
Said(rev)  == IF rev > 0 THEN ContentOf[rev] ELSE <<ContentOf[-rev]>>
Content(r) == Said(r.rev)

\* A line that does not parse: a fragment without its newline, or garbage closed by one.
Torn    == [window |-> 0, rev |-> 0]
Corrupt == [window |-> 0, rev |-> 1]
Lines   == Records \union {Torn, Corrupt}

Elements(s) == {s[i] : i \in DOMAIN s}
LastOf(s)   == s[Len(s)]

TypeOK ==
  /\ now \in Windows
  /\ upstream \in [Windows -> Revs]
  /\ \A w \in Windows : \A i \in DOMAIN topic[w] : [window |-> w, rev |-> topic[w][i]] \in Records
  /\ \A w \in Windows : \A i \in DOMAIN late[w] : [window |-> w, rev |-> late[w][i]] \in Records
  /\ spool \in Seq(Lines)
  /\ dedupe \in Seq(Records)
  /\ pc \in {"idle", "boot", "replay", "publish", "down"}
  /\ batch \in Seq(Records) /\ todo \in Seq(Records) /\ failed \in Seq(Records)
  /\ stopping \in BOOLEAN
  /\ owed \subseteq Records /\ lost \subseteq Records /\ spooled \subseteq Windows
  /\ faults \in Nat

Init ==
  /\ now = 1
  /\ upstream = [w \in Windows |-> 1]
  /\ topic = [w \in Windows |-> <<>>]
  /\ late = [w \in Windows |-> <<>>]
  /\ spool = <<>>
  /\ dedupe = <<>>
  /\ pc = "idle"
  /\ batch = <<>> /\ todo = <<>> /\ failed = <<>>
  /\ stopping = FALSE
  /\ owed = {} /\ lost = {} /\ spooled = {}
  /\ faults = 0

Fault(kind) == /\ kind \in FaultKinds
               /\ faults < MaxFaults
               /\ faults' = faults + 1

-----------------------------------------------------------------------------
(***************************************************************************)
(* The outside world.  A response covers the windows from now on; a window *)
(* it no longer covers never comes back.                                   *)
(***************************************************************************)
FeedAt(n) == {w \in Windows : n <= w /\ w < n + Span}
Feed      == FeedAt(now)

UpstreamRevises ==
  /\ \E w \in Feed : upstream[w] < MaxRev /\ upstream' = [upstream EXCEPT ![w] = @ + 1]
  /\ UNCHANGED <<now, brokerVars, spool, dedupe, pc, batch, todo, failed, stopping,
                 historyVars, faults>>

UpstreamAdvances ==
  /\ now < NumWindows
  /\ now' = now + 1
  /\ UNCHANGED <<upstream, brokerVars, spool, dedupe, pc, batch, todo, failed, stopping,
                 historyVars, faults>>

Extend(s, rev) == IF s # <<>> /\ LastOf(s) = rev THEN s ELSE Append(s, rev)

\* The producer's own retry delivers a copy whose send was given up, or expires it.
LateCopy ==
  /\ \E w \in Windows :
       /\ late[w] # <<>>
       /\ late' = [late EXCEPT ![w] = Tail(@)]
       /\ topic' \in {topic, [topic EXCEPT ![w] = Extend(@, Head(late[w]))]}
  /\ UNCHANGED <<worldVars, spool, dedupe, pc, batch, todo, failed, stopping, historyVars, faults>>

-----------------------------------------------------------------------------
(***************************************************************************)
(* _send_with_retry.  The producer is idempotent: within a window copies   *)
(* are appended in the order they were sent, so a send is acknowledged     *)
(* only after the copies before it are settled.  All its attempts carry    *)
(* the same revision, which the topic does not tell from one.              *)
(***************************************************************************)
\* Mutant of Acknowledged: a producer that is not idempotent.
AcknowledgedOutOfOrder(r) ==
  /\ topic' = [topic EXCEPT ![r.window] = Extend(@, r.rev)]
  /\ UNCHANGED <<late, faults>>

Acknowledged(r) ==
  /\ late[r.window] = <<>>
  /\ topic' = [topic EXCEPT ![r.window] = Extend(@, r.rev)]
  /\ UNCHANGED <<late, faults>>

\* An attempt that timed out stays in the producer, which may still deliver it.
CopyLeft(r) == late' = [late EXCEPT ![r.window] = Append(@, r.rev)]

GivenUp(r) ==
  /\ Fault("send")
  /\ UNCHANGED late \/ CopyLeft(r)
  /\ UNCHANGED topic

\* Anything but a timeout or a KafkaError leaves _send_with_retry.
Raised == Fault("unexpected") /\ UNCHANGED brokerVars

\* So it may after attempts that timed out and left a copy: two faults in one send.
RaisedLeavingCopy(r) ==
  /\ {"send", "unexpected"} \subseteq FaultKinds
  /\ faults + 2 <= MaxFaults
  /\ faults' = faults + 2
  /\ CopyLeft(r)
  /\ UNCHANGED topic

\* self._dedupe[key] = digest keeps an existing key's place; _trim_dedupe then evicts
\* from the front.
Remember(r) ==
  LET known == \E i \in DOMAIN dedupe : dedupe[i].window = r.window
      set == IF known
               THEN [i \in DOMAIN dedupe |-> IF dedupe[i].window = r.window THEN r ELSE dedupe[i]]
               ELSE Append(dedupe, r)
  IN dedupe' = IF Len(set) > DedupeMax THEN Tail(set) ELSE set

Unchanged(r) == \E i \in DOMAIN dedupe :
                  dedupe[i].window = r.window /\ Content(dedupe[i]) = Content(r)

-----------------------------------------------------------------------------
(***************************************************************************)
(* The spool.  load() discards what does not parse; replace() is atomic;   *)
(* append() opens the file at its end, so its first line continues a torn  *)
(* one, and then keeps the newest SpoolMax lines.                          *)
(***************************************************************************)
\* Mutant of IsRecord: load() hands every line on.
IsAnyLine(line) == line \in Lines

IsRecord(line) == line \in Records

\* The lines that pass, in order.
Load ==
  LET kept[n \in 0 .. Len(spool)] ==
        IF n = 0 THEN <<>>
        ELSE IF IsRecord(spool[n]) THEN Append(kept[n - 1], spool[n]) ELSE kept[n - 1]
  IN kept[Len(spool)]

Written(records) ==
  IF records # <<>> /\ spool # <<>> /\ LastOf(spool) = Torn
    THEN [spool EXCEPT ![Len(spool)] = Corrupt] \o Tail(records)
    ELSE spool \o records

Newest(lines) == IF Len(lines) <= SpoolMax
                   THEN lines
                   ELSE SubSeq(lines, Len(lines) - SpoolMax + 1, Len(lines))

Fragment(lines) == IF lines # <<>> /\ LastOf(lines) = Torn THEN lines ELSE Append(lines, Torn)

\* What append() may leave when it is cut short, by a crash or an OSError: some lines are
\* whole, the next may be torn, and the file is not trimmed.
PartlyWritten ==
  UNION {LET whole == Written(SubSeq(failed, 1, k)) IN
           {whole} \union (IF k < Len(failed) THEN {Fragment(whole)} ELSE {}) :
         k \in 0 .. Len(failed)}

\* The file is now lines: some records are in it, others are not, or no longer.
NoteSpooled(lines) ==
  LET before == Elements(spool) \union Elements(failed) IN
  /\ lost' = lost \union ((before \ Elements(lines)) \intersect Records)
  /\ spooled' = spooled \union {r.window : r \in Elements(failed) \intersect Elements(lines)}

-----------------------------------------------------------------------------
(***************************************************************************)
(* A cycle.  A failed fetch, or a merge that does not validate, ends the   *)
(* cycle before the spool is looked at and changes nothing.  replay_spool  *)
(* returns at once when there is nothing to replay or the file cannot be   *)
(* read.                                                                   *)
(***************************************************************************)
\* Mutant of Fetched: only the newest window of a response is published.
FetchedNewest(i, g) == LET w == i + Cardinality(FeedAt(i)) - 1 IN <<[window |-> w, rev |-> upstream[w]]>>

\* merge_telemetry: the windows of /intensity as of i, with the mix of those /generation
\* returns as of g.
Fetched(i, g) ==
  [k \in 1 .. Cardinality(FeedAt(i)) |->
     LET w == i + k - 1
     IN  [window |-> w, rev |-> IF w \in FeedAt(g) THEN upstream[w] ELSE -upstream[w]]]

\* The two endpoints are read at once, but a window may end between their answers.
Answers(i, g) == now' \in {now, now + 1} \intersect Windows /\ {i, g} = {now, now'}

\* Mutant of Fetch: the spool is only replayed when the process starts.
FetchOnly ==
  /\ pc = "idle"
  /\ ~stopping
  /\ \E i, g \in Windows : Answers(i, g) /\ todo' = Fetched(i, g)
  /\ pc' = "publish"
  /\ failed' = <<>>
  /\ UNCHANGED <<upstream, brokerVars, spool, dedupe, batch, stopping, historyVars, faults>>

Fetch ==
  /\ pc = "idle"
  /\ ~stopping
  /\ \E i, g \in Windows :
       /\ Answers(i, g)
       /\ \/ /\ Load # <<>> /\ pc' = "replay" /\ todo' = Load /\ batch' = Fetched(i, g)
             /\ UNCHANGED faults
          \/ /\ \/ Load = <<>> /\ UNCHANGED faults
                \/ Load # <<>> /\ Fault("io")
             /\ pc' = "publish" /\ todo' = Fetched(i, g) /\ UNCHANGED batch
  /\ failed' = <<>>
  /\ UNCHANGED <<upstream, brokerVars, spool, dedupe, stopping, historyVars>>

Replaying == pc \in {"boot", "replay"}

\* Mutant of ReplayOne: a replayed record is not remembered as the last one sent.
ReplayForgets ==
  /\ Replaying
  /\ todo # <<>>
  /\ todo' = Tail(todo)
  /\ \/ Acknowledged(Head(todo)) /\ UNCHANGED failed
     \/ GivenUp(Head(todo)) /\ failed' = Append(failed, Head(todo))
  /\ UNCHANGED <<worldVars, spool, dedupe, pc, batch, stopping, historyVars>>

ReplayOne ==
  /\ Replaying
  /\ todo # <<>>
  /\ todo' = Tail(todo)
  /\ \/ Acknowledged(Head(todo)) /\ Remember(Head(todo)) /\ UNCHANGED failed
     \/ GivenUp(Head(todo)) /\ failed' = Append(failed, Head(todo)) /\ UNCHANGED dedupe
  /\ UNCHANGED <<worldVars, spool, pc, batch, stopping, historyVars>>

AfterReplay == /\ pc' = IF pc = "boot" THEN "idle" ELSE "publish"
               /\ todo' = batch
               /\ batch' = <<>> /\ failed' = <<>>

\* Mutant of FinishReplay: the file is removed once it has been replayed.
ReplayTruncates ==
  /\ Replaying
  /\ todo = <<>>
  /\ spool' = <<>>
  /\ AfterReplay
  /\ UNCHANGED <<worldVars, brokerVars, dedupe, stopping, historyVars, faults>>

\* self._spool.replace(still_failing); on an OSError the file stays as it was.
FinishReplay ==
  /\ Replaying
  /\ todo = <<>>
  /\ \/ spool' = failed /\ UNCHANGED faults
     \/ Fault("io") /\ UNCHANGED spool
  /\ AfterReplay
  /\ UNCHANGED <<worldVars, brokerVars, dedupe, stopping, historyVars>>

\* _safe_replay swallows the exception; the file stays as it was.
ReplayRaises ==
  /\ Replaying
  /\ todo # <<>>
  /\ Raised \/ RaisedLeavingCopy(Head(todo))
  /\ AfterReplay
  /\ UNCHANGED <<worldVars, spool, dedupe, stopping, historyVars>>

PublishOne ==
  /\ pc = "publish"
  /\ todo # <<>>
  /\ todo' = Tail(todo)
  /\ \/ /\ Unchanged(Head(todo))
        /\ UNCHANGED <<brokerVars, dedupe, failed, owed, faults>>
     \/ /\ ~Unchanged(Head(todo))
        /\ Acknowledged(Head(todo))
        /\ Remember(Head(todo))
        /\ UNCHANGED <<failed, owed>>
     \/ /\ ~Unchanged(Head(todo))
        /\ GivenUp(Head(todo))
        /\ failed' = Append(failed, Head(todo))
        /\ owed' = owed \union {Head(todo)}
        /\ UNCHANGED dedupe
  /\ UNCHANGED <<worldVars, spool, pc, batch, stopping, lost, spooled>>

EndCycle == pc' = "idle" /\ todo' = <<>> /\ failed' = <<>>

\* The exception unwinds publish(): the failures it had collected are never spooled, nor is
\* the record in hand, of which earlier attempts may have left a copy.
PublishRaises ==
  /\ pc = "publish"
  /\ todo # <<>>
  /\ ~Unchanged(Head(todo))
  /\ \/ Raised /\ lost' = lost \union Elements(failed)
     \/ /\ RaisedLeavingCopy(Head(todo))
        /\ lost' = lost \union Elements(failed) \union {Head(todo)}
  /\ EndCycle
  /\ UNCHANGED <<worldVars, spool, dedupe, batch, stopping, owed, spooled>>

\* append() what failed; an OSError is logged and swallowed.
FinishPublish ==
  /\ pc = "publish"
  /\ todo = <<>>
  /\ \/ spool' = (IF failed = <<>> THEN spool ELSE Newest(Written(failed))) /\ UNCHANGED faults
     \/ failed # <<>> /\ Fault("io") /\ spool' \in PartlyWritten
  /\ NoteSpooled(spool')
  /\ EndCycle
  /\ UNCHANGED <<worldVars, brokerVars, dedupe, batch, stopping, owed>>

-----------------------------------------------------------------------------
\* Everything in memory goes, the producer's unsent copies with it.
ProcessEnds == /\ pc' = "down"
               /\ late' = [w \in Windows |-> <<>>]
               /\ dedupe' = <<>>
               /\ batch' = <<>> /\ todo' = <<>> /\ failed' = <<>>

Crash ==
  /\ pc # "down"
  /\ Fault("crash")
  /\ ProcessEnds
  /\ lost' = IF pc = "publish" THEN lost \union Elements(failed) ELSE lost
  /\ UNCHANGED <<worldVars, topic, spool, stopping, owed, spooled>>

CrashInAppend ==
  /\ pc = "publish"
  /\ todo = <<>>
  /\ failed # <<>>
  /\ Fault("crash")
  /\ spool' \in PartlyWritten
  /\ NoteSpooled(spool')
  /\ ProcessEnds
  /\ UNCHANGED <<worldVars, topic, stopping, owed>>

RequestStop ==
  /\ pc # "down"
  /\ ~stopping
  /\ Fault("stop")
  /\ stopping' = TRUE
  /\ UNCHANGED <<worldVars, brokerVars, spool, dedupe, pc, batch, todo, failed, historyVars>>

\* The loop is left between cycles; stop() flushes, which is LateCopy, before it ends.
Shutdown ==
  /\ pc = "idle"
  /\ stopping
  /\ ProcessEnds
  /\ UNCHANGED <<worldVars, topic, spool, stopping, historyVars, faults>>

\* start(), then the replay before the first cycle.
Restart ==
  /\ pc = "down"
  /\ \/ Load = <<>> /\ pc' = "idle" /\ todo' = <<>> /\ UNCHANGED faults
     \/ Load # <<>> /\ pc' = "boot" /\ todo' = Load /\ UNCHANGED faults
     \/ Load # <<>> /\ Fault("io") /\ pc' = "idle" /\ todo' = <<>>
  /\ stopping' = FALSE
  /\ UNCHANGED <<worldVars, brokerVars, spool, dedupe, batch, failed, historyVars>>

Worker == \/ Fetch \/ ReplayOne \/ FinishReplay \/ ReplayRaises
          \/ PublishOne \/ PublishRaises \/ FinishPublish
          \/ Shutdown \/ Restart

Next == \/ UpstreamRevises \/ UpstreamAdvances
        \/ LateCopy
        \/ Worker
        \/ RequestStop \/ Crash \/ CrashInAppend

(***************************************************************************)
(* The worker's loop always goes on to its next step, the supervisor       *)
(* restarts it, and the producer settles every copy it holds within its    *)
(* request timeout.  Upstream owes nothing: it may stop revising.          *)
(***************************************************************************)
Spec == Init /\ [][Next]_vars /\ WF_vars(Worker) /\ WF_vars(LateCopy)

-----------------------------------------------------------------------------
InMemory == Elements(failed) \union Elements(todo)

(***************************************************************************)
(* FR-ING-8 and FR-ING-9: a record publish() gave up on reaches the topic, *)
(* or is still in the spool file or about to be written to it, unless one  *)
(* of the counted accidents dropped it: the spool bound, a file that could *)
(* not be written, an unexpected exception, a crash, a torn line.          *)
(* (lost also has a record nobody gave up on: one whose send an exception  *)
(* cut short after an attempt had left a copy.)                            *)
(***************************************************************************)
GaveUpIsKept ==
  \A r \in owed : \/ r.rev \in Elements(topic[r.window])
                  \/ r \in Elements(spool)
                  \/ r \in InMemory
                  \/ r \in lost

(***************************************************************************)
(* FR-ING-7 suppresses a window whose content was last acknowledged.  That *)
(* is right only if the topic shows, or will show, that content last: a    *)
(* window with another content on the way still has a record to replay.    *)
(* Where a record of the window was dropped this need not be so: the copy  *)
(* of a send that an exception cut short may land behind an acknowledged   *)
(* revision that upstream has returned to.                                 *)
(***************************************************************************)
OnTheWay(w) == topic[w] \o late[w]

DedupeMirrorsTopic ==
  \A i \in DOMAIN dedupe :
     LET w == dedupe[i].window IN
     \/ OnTheWay(w) # <<>> /\ Said(LastOf(OnTheWay(w))) = Content(dedupe[i])
     \/ \E r \in Elements(spool) \union InMemory : r.window = w
     \/ \E r \in lost : r.window = w

Revision(rev) == IF rev > 0 THEN rev ELSE -rev
Ordered(revs) == \A i, j \in DOMAIN revs : i < j => Revision(revs[i]) <= Revision(revs[j])

(***************************************************************************)
(* ingest_grid.py:905-909, late copies only duplicate: as long as a window *)
(* was never spooled, timeouts, retries and restarts leave its revisions   *)
(* in order on the topic.                                                  *)
(***************************************************************************)
LateCopiesStayOrdered == \A w \in Windows \ spooled : Ordered(topic[w])

(***************************************************************************)
(* A spooled record is replayed once the broker answers again: in the end  *)
(* the spool holds no record.                                              *)
(***************************************************************************)
SpoolDrains == <>[](Load = <<>>)

(***************************************************************************)
(* Whatever was sent twice, late, or out of order, the topic ends up       *)
(* showing what upstream shows for every window the feed still covers,     *)
(* unless a record of the window was dropped on the way, its copies left   *)
(* in the producer or not.                                                 *)
(***************************************************************************)
Shows(w) == topic[w] # <<>> /\ Said(LastOf(topic[w])) = ContentOf[upstream[w]]

FeedConverges ==
  \A w \in Windows : <>[](w \in Feed => Shows(w) \/ \E r \in lost : r.window = w)
=============================================================================
