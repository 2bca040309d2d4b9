-------------------------- MODULE IngestWorkerProofs --------------------------
(***************************************************************************)
(* Theorems about IngestWorker, for every feed, every number of revisions  *)
(* and contents, every bound of the spool and of the dedupe cache, and     *)
(* every choice of faults.                                                 *)
(***************************************************************************)
EXTENDS IngestWorker, SequenceTheorems, FiniteSetTheorems, TLAPS

(***************************************************************************)
(* What is in a sequence.                                                  *)
(***************************************************************************)
LEMMA ElementsOf ==
  ASSUME NEW S, NEW s \in Seq(S)
  PROVE  /\ Elements(s) = {s[i] : i \in 1 .. Len(s)}
         /\ Elements(s) \subseteq S /\ Len(s) \in Nat
BY LenProperties, ElementOfSeq DEF Elements

LEMMA ElementsAppend ==
  ASSUME NEW S, NEW s \in Seq(S), NEW e \in S
  PROVE  Append(s, e) \in Seq(S) /\ Elements(Append(s, e)) = Elements(s) \union {e}
<1>1. /\ Append(s, e) \in Seq(S) /\ Len(Append(s, e)) = Len(s) + 1
      /\ \A i \in 1 .. Len(s) : Append(s, e)[i] = s[i]
      /\ Append(s, e)[Len(s) + 1] = e
  BY AppendProperties
<1>2. Len(s) \in Nat
  BY LenProperties
<1>3. /\ Elements(s) = {s[i] : i \in 1 .. Len(s)}
      /\ Elements(Append(s, e)) = {Append(s, e)[i] : i \in 1 .. Len(s) + 1}
  BY <1>1, ElementsOf
<1> HIDE DEF Elements
<1>4. 1 .. Len(s) + 1 = (1 .. Len(s)) \union {Len(s) + 1}
  BY <1>2
<1> QED
  BY <1>1, <1>3, <1>4

LEMMA ElementsTail ==
  ASSUME NEW S, NEW s \in Seq(S), s # <<>>
  PROVE  /\ Head(s) \in S /\ Tail(s) \in Seq(S)
         /\ Elements(s) = {Head(s)} \union Elements(Tail(s))
<1>1. /\ Head(s) \in S /\ Tail(s) \in Seq(S) /\ Len(Tail(s)) = Len(s) - 1
      /\ \A i \in 1 .. Len(Tail(s)) : Tail(s)[i] = s[i + 1]
  BY HeadTailProperties
<1>2. Len(s) \in Nat \ {0} /\ Head(s) = s[1]
  BY EmptySeq
<1>3. /\ Elements(s) = {s[i] : i \in 1 .. Len(s)}
      /\ Elements(Tail(s)) = {Tail(s)[i] : i \in 1 .. Len(s) - 1}
  BY <1>1, ElementsOf
<1>4. Elements(Tail(s)) = {s[i + 1] : i \in 1 .. Len(s) - 1}
  BY <1>1, <1>3
<1>5. \A i \in 1 .. Len(s) : i = 1 \/ (i - 1 \in 1 .. Len(s) - 1 /\ (i - 1) + 1 = i)
  BY <1>2
<1>6. \A i \in 1 .. Len(s) - 1 : i + 1 \in 1 .. Len(s)
  BY <1>2
<1> HIDE DEF Elements
<1>7. Elements(s) \subseteq {Head(s)} \union Elements(Tail(s))
  <2> SUFFICES ASSUME NEW i \in 1 .. Len(s), i # 1
               PROVE  s[i] \in Elements(Tail(s))
    BY <1>2, <1>3
  <2>1. s[(i - 1) + 1] \in Elements(Tail(s))
    BY <1>4, <1>5
  <2> QED
    BY <1>5, <2>1
<1>8. Elements(Tail(s)) \subseteq Elements(s)
  BY <1>3, <1>4, <1>6
<1>9. Head(s) \in Elements(s)
  BY <1>2, <1>3
<1> QED
  BY <1>1, <1>7, <1>8, <1>9

LEMMA ElementsEmpty ==
  Elements(<<>>) = {} /\ \A S : <<>> \in Seq(S)
BY DEF Elements

LEMMA Widen ==
  ASSUME NEW S, NEW T, S \subseteq T, NEW s \in Seq(S)
  PROVE  s \in Seq(T)
BY SeqMonotonic

(***************************************************************************)
(* What load() returns: the records of the file and nothing else.          *)
(***************************************************************************)
Keeps(g, n) == IF n = 0 THEN <<>>
               ELSE IF IsRecord(spool[n]) THEN Append(g[n - 1], spool[n]) ELSE g[n - 1]

Loads(g, k) == g = [n \in 0 .. k |-> Keeps(g, n)]

LEMMA SmallestNat ==
  ASSUME NEW Bad, Bad \subseteq Nat, Bad # {}
  PROVE  \E k \in Bad : \A m \in Nat : m < k => m \notin Bad
<1>1. PICK k \in Bad : \A m \in Bad : <<m, k>> \notin OpToRel(<, Nat)
  BY NatLessThanWellFounded, WFMin
<1>2. \A m \in Bad : ~(m < k)
  BY <1>1 DEF OpToRel
<1> QED
  BY <1>2

LEMMA LoadsExists ==
  ASSUME NEW k \in Nat
  PROVE  \E g : Loads(g, k)
<1> DEFINE Bad == {m \in Nat : ~\E g : Loads(g, m)}
<1> SUFFICES ASSUME Bad # {} PROVE FALSE
  OBVIOUS
<1>1. PICK m \in Bad : \A i \in Nat : i < m => i \notin Bad
  <2> HIDE DEF Bad
  <2>1. Bad \subseteq Nat
    BY DEF Bad
  <2> QED
    BY <2>1, SmallestNat
<1>2. CASE m = 0
  <2> DEFINE f == [n \in 0 .. 0 |-> <<>>]
  <2>1. Loads(f, 0)
    BY DEF Loads, Keeps
  <2> QED
    BY <1>1, <1>2, <2>1
<1>3. CASE m # 0
  <2>1. PICK g : Loads(g, m - 1)
    BY <1>1, <1>3
  <2> DEFINE f == [n \in 0 .. m |-> IF n = m THEN Keeps(g, m) ELSE g[n]]
  <2>2. ASSUME NEW n \in 0 .. m
        PROVE  f[n] = Keeps(f, n)
    <3>1. n # 0 => f[n - 1] = g[n - 1]
      BY <1>3
    <3>2. n # m => g[n] = Keeps(g, n)
      <4>1. n # m => n \in 0 .. m - 1
        BY <1>1, <1>3
      <4> QED
        BY <2>1, <4>1 DEF Loads
    <3> QED
      BY <1>3, <3>1, <3>2 DEF Keeps
  <2>3. Loads(f, m)
    BY <2>2 DEF Loads
  <2> QED
    BY <1>1, <2>3
<1> QED
  BY <1>2, <1>3

LEMMA LoadRecords ==
  ASSUME spool \in Seq(Lines)
  PROVE  Load \in Seq(Records) /\ Elements(Load) = Elements(spool) \intersect Records
<1> DEFINE kept == CHOOSE g : Loads(g, Len(spool))
<1>1. Len(spool) \in Nat
  BY LenProperties
<1>2. Loads(kept, Len(spool))
  BY <1>1, LoadsExists
<1>3. Load = kept[Len(spool)]
  BY DEF Load, Loads, Keeps
<1> HIDE DEF kept
<1> DEFINE Right(n) == /\ kept[n] \in Seq(Records)
                       /\ Elements(kept[n]) = {spool[i] : i \in 1 .. n} \intersect Records
           Bad == {n \in 0 .. Len(spool) : ~Right(n)}
<1>4. CASE Bad = {}
  <2>1. Right(Len(spool))
    BY <1>1, <1>4
  <2> QED
    BY <1>3, <2>1, ElementsOf
<1>5. CASE Bad # {}
  <2>1. PICK n \in Bad : \A m \in Nat : m < n => m \notin Bad
    <3>1. Bad \subseteq Nat
      OBVIOUS
    <3> HIDE DEF Bad
    <3> QED
      BY <1>5, <3>1, SmallestNat
  <2>2. n \in 0 .. Len(spool) /\ ~Right(n) /\ kept[n] = Keeps(kept, n)
    BY <1>2, <2>1 DEF Loads
  <2>3. CASE n = 0
    BY <2>2, <2>3, ElementsEmpty DEF Keeps
  <2>4. CASE n # 0
    <3>1. Right(n - 1)
      BY <1>1, <2>1, <2>2, <2>4
    <3>2. {spool[i] : i \in 1 .. n} = {spool[i] : i \in 1 .. n - 1} \union {spool[n]}
      <4>1. 1 .. n = (1 .. n - 1) \union {n}
        BY <1>1, <2>2, <2>4
      <4> QED
        BY <4>1
    <3>3. CASE spool[n] \in Records
      <4>1. kept[n] = Append(kept[n - 1], spool[n])
        BY <2>2, <2>4, <3>3 DEF Keeps, IsRecord
      <4>2. kept[n] \in Seq(Records) /\ Elements(kept[n]) = Elements(kept[n - 1]) \union {spool[n]}
        BY <3>1, <3>3, <4>1, ElementsAppend
      <4> QED
        BY <2>2, <3>1, <3>2, <3>3, <4>2
    <3>4. CASE spool[n] \notin Records
      <4>1. kept[n] = kept[n - 1]
        BY <2>2, <2>4, <3>4 DEF Keeps, IsRecord
      <4> QED
        BY <2>2, <3>1, <3>2, <3>4, <4>1
    <3> QED
      BY <3>3, <3>4
  <2> QED
    BY <2>3, <2>4
<1> QED
  BY <1>4, <1>5

-----------------------------------------------------------------------------
(***************************************************************************)
(* The inductive invariant.  A replay works on a copy of the file, which   *)
(* it rewrites only when it is through: until then everything it has in    *)
(* hand is also in the file, and nothing the file holds is forgotten.      *)
(***************************************************************************)
Marks == Revs \union {-n : n \in Revs}

Types ==
  /\ now \in Windows
  /\ upstream \in [Windows -> Revs]
  /\ topic \in [Windows -> Seq(Marks)] /\ late \in [Windows -> Seq(Marks)]
  /\ spool \in Seq(Lines)
  /\ dedupe \in Seq(Records)
  /\ pc \in {"idle", "boot", "replay", "publish", "down"}
  /\ batch \in Seq(Records) /\ todo \in Seq(Records) /\ failed \in Seq(Records)
  /\ stopping \in BOOLEAN
  /\ owed \subseteq Records /\ lost \subseteq Records /\ spooled \subseteq Windows
  /\ faults \in Nat

OnTopic(r) == r.rev \in Elements(topic[r.window])

ReplayFromFile == Replaying => Elements(todo) \union Elements(failed) \subseteq Elements(spool)

ReplayCovers == Replaying => \A r \in Elements(spool) \intersect Records :
                               OnTopic(r) \/ r \in Elements(todo) \union Elements(failed)

NothingInHand == pc \in {"idle", "down"} => failed = <<>>

KeptInFile == \A r \in owed : \/ OnTopic(r)
                              \/ r \in Elements(spool)
                              \/ r \in lost
                              \/ pc = "publish" /\ r \in Elements(failed)

Inv == Types /\ ReplayFromFile /\ ReplayCovers /\ NothingInHand /\ KeptInFile

LEMMA RecordFields ==
  ASSUME NEW r \in Records
  PROVE  r.window \in Windows /\ r.rev \in Marks
BY DEF Records, Marks

LEMMA FaultType ==
  ASSUME Types, NEW kind, Fault(kind)
  PROVE  faults' \in Nat
BY DEF Types, Fault

(***************************************************************************)
(* The topic only grows, and an acknowledged record is on it.              *)
(***************************************************************************)
LEMMA ExtendElements ==
  ASSUME NEW s \in Seq(Marks), NEW m \in Marks
  PROVE  Extend(s, m) \in Seq(Marks) /\ Elements(Extend(s, m)) = Elements(s) \union {m}
<1>1. CASE s # <<>> /\ LastOf(s) = m
  <2>1. Len(s) \in 1 .. Len(s)
    BY <1>1, EmptySeq
  <2>2. m \in Elements(s)
    BY <1>1, <2>1, ElementsOf DEF LastOf
  <2> QED
    BY <1>1, <2>2 DEF Extend
<1>2. CASE ~(s # <<>> /\ LastOf(s) = m)
  BY <1>2, ElementsAppend DEF Extend
<1> QED
  BY <1>1, <1>2

LEMMA Delivered ==
  ASSUME Types, NEW w \in Windows, NEW m \in Marks,
         topic' = [topic EXCEPT ![w] = Extend(topic[w], m)]
  PROVE  /\ topic' \in [Windows -> Seq(Marks)]
         /\ m \in Elements(topic'[w])
         /\ \A r \in Records : OnTopic(r) => OnTopic(r)'
<1>1. topic[w] \in Seq(Marks)
  BY DEF Types
<1>2. /\ Extend(topic[w], m) \in Seq(Marks)
      /\ Elements(Extend(topic[w], m)) = Elements(topic[w]) \union {m}
  BY <1>1, ExtendElements
<1>3. topic' \in [Windows -> Seq(Marks)] /\ topic'[w] = Extend(topic[w], m)
      /\ \A v \in Windows : v # w => topic'[v] = topic[v]
  BY <1>2 DEF Types
<1> QED
  BY <1>2, <1>3, RecordFields DEF OnTopic

\* A send without an acknowledgement, given up or cut short, may leave a copy behind.
Unanswered(r) == topic' = topic /\ (late' = late \/ CopyLeft(r)) /\ faults' \in Nat

LEMMA Unanswers ==
  ASSUME Types, NEW r, GivenUp(r) \/ Raised \/ RaisedLeavingCopy(r)
  PROVE  Unanswered(r)
BY FaultType DEF Unanswered, GivenUp, Raised, RaisedLeavingCopy, brokerVars, Types

LEMMA SendOutcome ==
  ASSUME Types, NEW r \in Records, Acknowledged(r) \/ Unanswered(r)
  PROVE  /\ topic' \in [Windows -> Seq(Marks)] /\ late' \in [Windows -> Seq(Marks)]
         /\ faults' \in Nat
         /\ \A q \in Records : OnTopic(q) => OnTopic(q)'
         /\ Acknowledged(r) => OnTopic(r)'
<1>1. r.window \in Windows /\ r.rev \in Marks
  BY RecordFields
<1>2. CASE Acknowledged(r)
  <2>1. topic' = [topic EXCEPT ![r.window] = Extend(topic[r.window], r.rev)]
        /\ UNCHANGED <<late, faults>>
    BY <1>2 DEF Acknowledged
  <2> QED
    BY <1>1, <2>1, Delivered DEF Types, OnTopic
<1>3. CASE Unanswered(r)
  <2>1. UNCHANGED topic /\ faults' \in Nat
    BY <1>3 DEF Unanswered
  <2>2. Append(late[r.window], r.rev) \in Seq(Marks)
    BY <1>1, ElementsAppend DEF Types
  <2>3. late' \in [Windows -> Seq(Marks)]
    BY <1>1, <1>3, <2>2 DEF Unanswered, CopyLeft, Types
  <2>4. \A q \in Records : OnTopic(q) => OnTopic(q)'
    BY <2>1 DEF OnTopic
  <2>5. Acknowledged(r) => OnTopic(r)'
    <3>1. Acknowledged(r) => topic' = [topic EXCEPT ![r.window] = Extend(topic[r.window], r.rev)]
      BY DEF Acknowledged
    <3> QED
      BY <1>1, <3>1, Delivered DEF OnTopic
  <2> QED
    BY <2>1, <2>3, <2>4, <2>5 DEF Types
<1> QED
  BY <1>2, <1>3

(***************************************************************************)
(* What the spool file may hold.                                           *)
(***************************************************************************)
LEMMA LinesAre ==
  /\ Torn \in Lines /\ Corrupt \in Lines /\ Records \subseteq Lines
BY DEF Lines

LEMMA WrittenType ==
  ASSUME Types, NEW records \in Seq(Records)
  PROVE  Written(records) \in Seq(Lines)
<1>1. records \in Seq(Lines) /\ spool \in Seq(Lines)
  BY LinesAre, Widen DEF Types
<1>2. CASE records # <<>> /\ spool # <<>> /\ LastOf(spool) = Torn
  <2>1. Len(spool) \in 1 .. Len(spool)
    BY <1>1, <1>2, EmptySeq
  <2>2. [spool EXCEPT ![Len(spool)] = Corrupt] \in Seq(Lines)
    BY <1>1, <2>1, LinesAre, ExceptSeq
  <2>3. Tail(records) \in Seq(Lines)
    BY <1>1, <1>2, HeadTailProperties
  <2> QED
    BY <1>2, <2>2, <2>3, ConcatProperties DEF Written
<1>3. CASE ~(records # <<>> /\ spool # <<>> /\ LastOf(spool) = Torn)
  BY <1>1, <1>3, ConcatProperties DEF Written
<1> QED
  BY <1>2, <1>3

LEMMA PrefixType ==
  ASSUME NEW s \in Seq(Records), NEW k \in 0 .. Len(s)
  PROVE  SubSeq(s, 1, k) \in Seq(Records)
<1>1. Len(s) \in Nat /\ \A i \in 1 .. Len(s) : s[i] \in Records
  BY LenProperties, ElementOfSeq
<1>2. k \in Int /\ \A i \in 1 .. k : s[i] \in Records
  BY <1>1
<1> QED
  BY <1>2, SubSeqProperties

LEMMA NewestType ==
  ASSUME NEW lines \in Seq(Lines)
  PROVE  Newest(lines) \in Seq(Lines)
<1>1. Len(lines) \in Nat /\ \A i \in 1 .. Len(lines) : lines[i] \in Lines
  BY LenProperties, ElementOfSeq
<1>2. CASE Len(lines) > SpoolMax
  <2>1. SpoolMax \in Nat
    BY WorkerAssumption
  <2>2. /\ Len(lines) - SpoolMax + 1 \in Int /\ Len(lines) \in Int
        /\ \A i \in Len(lines) - SpoolMax + 1 .. Len(lines) : lines[i] \in Lines
    BY <1>1, <1>2, <2>1
  <2>3. SubSeq(lines, Len(lines) - SpoolMax + 1, Len(lines)) \in Seq(Lines)
    BY <2>2, SubSeqProperties
  <2> QED
    BY <1>1, <1>2, <2>1, <2>3 DEF Newest
<1>3. CASE ~(Len(lines) > SpoolMax)
  BY <1>1, <1>3, WorkerAssumption DEF Newest
<1> QED
  BY <1>2, <1>3

LEMMA PartlyWrittenType ==
  ASSUME Types
  PROVE  PartlyWritten \subseteq Seq(Lines)
<1> SUFFICES ASSUME NEW k \in 0 .. Len(failed)
             PROVE  LET whole == Written(SubSeq(failed, 1, k)) IN
                    whole \in Seq(Lines) /\ Fragment(whole) \in Seq(Lines)
  BY DEF PartlyWritten
<1> DEFINE whole == Written(SubSeq(failed, 1, k))
<1>1. whole \in Seq(Lines)
  BY PrefixType, WrittenType DEF Types
<1> HIDE DEF whole
<1>2. Fragment(whole) \in Seq(Lines)
  BY <1>1, LinesAre, ElementsAppend DEF Fragment
<1> QED
  BY <1>1, <1>2 DEF whole

(***************************************************************************)
(* The dedupe cache and the answers of the feed.                           *)
(***************************************************************************)
LEMMA RememberType ==
  ASSUME Types, NEW r \in Records, Remember(r)
  PROVE  dedupe' \in Seq(Records)
<1> DEFINE updated == [i \in DOMAIN dedupe |-> IF dedupe[i].window = r.window THEN r ELSE dedupe[i]]
<1>1. updated \in Seq(Records)
  <2>1. /\ Len(dedupe) \in Nat /\ DOMAIN dedupe = 1 .. Len(dedupe)
        /\ \A i \in 1 .. Len(dedupe) : dedupe[i] \in Records
    BY LenProperties, ElementOfSeq DEF Types
  <2> DEFINE e(i) == IF dedupe[i].window = r.window THEN r ELSE dedupe[i]
  <2>2. \A i \in 1 .. Len(dedupe) : e(i) \in Records
    BY <2>1
  <2>3. updated = [i \in 1 .. Len(dedupe) |-> e(i)]
    BY <2>1
  <2>4. updated \in [1 .. Len(dedupe) -> Records]
    BY <2>2, <2>3
  <2> QED
    BY <2>1, <2>4, SeqDef
<1>2. Append(dedupe, r) \in Seq(Records)
  BY ElementsAppend DEF Types
<1> HIDE DEF updated
<1>3. \E set \in {updated, Append(dedupe, r)} :
        dedupe' = IF Len(set) > DedupeMax THEN Tail(set) ELSE set
  BY DEF Remember, updated
<1>4. ASSUME NEW set \in Seq(Records), Len(set) > DedupeMax
      PROVE  Tail(set) \in Seq(Records)
  <2>1. set # <<>>
    BY <1>4, WorkerAssumption, EmptySeq
  <2> QED
    BY <2>1, HeadTailProperties
<1> QED
  BY <1>1, <1>2, <1>3, <1>4

LEMMA FetchedType ==
  ASSUME Types, NEW i \in Windows, NEW g \in Windows
  PROVE  Fetched(i, g) \in Seq(Records)
<1>1. NumWindows \in Nat /\ Span \in Nat /\ i \in 1 .. NumWindows
  BY WorkerAssumption DEF Windows
<1> DEFINE top == IF i + Span - 1 <= NumWindows THEN i + Span - 1 ELSE NumWindows
<1>2. FeedAt(i) = i .. top /\ top \in Int /\ i \in Int /\ top <= NumWindows
  BY <1>1 DEF FeedAt, Windows
<1>3. Cardinality(FeedAt(i)) = IF i > top THEN 0 ELSE top - i + 1
  <2> HIDE DEF top
  <2> QED
    BY <1>2, FS_Interval
<1>4. Cardinality(FeedAt(i)) \in Nat
      /\ \A k \in 1 .. Cardinality(FeedAt(i)) : i + k - 1 \in Windows
  BY <1>1, <1>2, <1>3 DEF Windows
<1>5. \A w \in Windows :
        [window |-> w, rev |-> IF w \in FeedAt(g) THEN upstream[w] ELSE -upstream[w]] \in Records
  <2>1. \A w \in Windows : upstream[w] \in Revs
    BY DEF Types
  <2> QED
    BY <2>1 DEF Records
<1>6. Fetched(i, g) \in [1 .. Cardinality(FeedAt(i)) -> Records]
  BY <1>4, <1>5 DEF Fetched
<1> QED
  BY <1>4, <1>6, SeqDef

-----------------------------------------------------------------------------
(***************************************************************************)
(* The steps.                                                              *)
(***************************************************************************)
LEMMA Initially == Init => Inv
<1> SUFFICES ASSUME Init PROVE Inv
  OBVIOUS
<1>1. Types
  <2>1. 1 \in Windows /\ 1 \in Revs
    BY WorkerAssumption DEF Windows, Revs
  <2>2. \A S : <<>> \in Seq(S)
    BY ElementsEmpty
  <2> QED
    BY <2>1, <2>2 DEF Init, Types
<1> QED
  BY <1>1 DEF Init, Inv, Replaying, ReplayFromFile, ReplayCovers, NothingInHand, KeptInFile

\* The invariant looks at nothing but these variables, and the topic only grows.
LEMMA TopicGrows ==
  ASSUME Inv, UNCHANGED <<spool, pc, todo, failed, owed, lost>>,
         \A r \in Records : OnTopic(r) => OnTopic(r)'
  PROVE  ReplayFromFile' /\ ReplayCovers' /\ NothingInHand' /\ KeptInFile'
<1>1. owed \subseteq Records
  BY DEF Inv, Types
<1> QED
  BY <1>1 DEF Inv, Replaying, ReplayFromFile, ReplayCovers, NothingInHand, KeptInFile

LEMMA TopicSame ==
  UNCHANGED topic => \A r \in Records : OnTopic(r) => OnTopic(r)'
BY DEF OnTopic

LEMMA UpstreamStep ==
  ASSUME Inv, UpstreamRevises \/ UpstreamAdvances \/ RequestStop \/ UNCHANGED vars
  PROVE  Inv'
<1>1. UNCHANGED <<topic, spool, pc, todo, failed, owed, lost>>
  BY DEF UpstreamRevises, UpstreamAdvances, RequestStop, vars, brokerVars, worldVars, historyVars
<1>2. CASE UpstreamRevises
  <2>1. PICK w \in Feed : upstream[w] < MaxRev /\ upstream' = [upstream EXCEPT ![w] = upstream[w] + 1]
    BY <1>2 DEF UpstreamRevises
  <2>2. w \in Windows /\ upstream[w] + 1 \in Revs
    <3>1. w \in Windows /\ upstream[w] \in Revs
      BY DEF Feed, FeedAt, Inv, Types
    <3> QED
      BY <2>1, <3>1, WorkerAssumption DEF Revs
  <2>3. upstream' \in [Windows -> Revs]
    BY <2>1, <2>2 DEF Inv, Types
  <2>4. Types'
    BY <1>2, <2>3 DEF UpstreamRevises, Inv, Types, brokerVars, historyVars
  <2> QED
    BY <1>1, <2>4, TopicGrows, TopicSame DEF Inv
<1>3. CASE UpstreamAdvances
  <2>1. now' \in Windows
    BY <1>3, WorkerAssumption DEF UpstreamAdvances, Inv, Types, Windows
  <2>2. Types'
    BY <1>3, <2>1 DEF UpstreamAdvances, Inv, Types, brokerVars, historyVars
  <2> QED
    BY <1>1, <2>2, TopicGrows, TopicSame DEF Inv
<1>4. CASE RequestStop
  <2>1. faults' \in Nat
    BY <1>4, FaultType DEF RequestStop, Inv
  <2>2. Types'
    BY <1>4, <2>1 DEF RequestStop, Inv, Types, worldVars, brokerVars, historyVars
  <2> QED
    BY <1>1, <2>2, TopicGrows, TopicSame DEF Inv
<1>5. CASE UNCHANGED vars
  <2>1. Types'
    BY <1>5 DEF Inv, Types, vars
  <2> QED
    BY <1>1, <2>1, TopicGrows, TopicSame DEF Inv
<1> QED
  BY <1>2, <1>3, <1>4, <1>5

LEMMA LateStep ==
  ASSUME Inv, LateCopy
  PROVE  Inv'
<1>1. PICK w \in Windows :
        /\ late[w] # <<>>
        /\ late' = [late EXCEPT ![w] = Tail(late[w])]
        /\ topic' \in {topic, [topic EXCEPT ![w] = Extend(topic[w], Head(late[w]))]}
  BY DEF LateCopy
<1>2. Head(late[w]) \in Marks /\ Tail(late[w]) \in Seq(Marks)
  BY <1>1, ElementsTail DEF Inv, Types
<1>3. late' \in [Windows -> Seq(Marks)]
  BY <1>1, <1>2 DEF Inv, Types
<1>4. topic' \in [Windows -> Seq(Marks)] /\ \A r \in Records : OnTopic(r) => OnTopic(r)'
  <2>1. CASE topic' = topic
    BY <2>1, TopicSame DEF Inv, Types
  <2>2. CASE topic' = [topic EXCEPT ![w] = Extend(topic[w], Head(late[w]))]
    BY <1>2, <2>2, Delivered DEF Inv
  <2> QED
    BY <1>1, <2>1, <2>2
<1>5. Types'
  BY <1>3, <1>4 DEF LateCopy, Inv, Types, worldVars, historyVars
<1>6. UNCHANGED <<spool, pc, todo, failed, owed, lost>>
  BY DEF LateCopy, historyVars
<1> QED
  BY <1>4, <1>5, <1>6, TopicGrows DEF Inv

LEMMA FetchStep ==
  ASSUME Inv, Fetch
  PROVE  Inv'
<1>1. Load \in Seq(Records) /\ Elements(Load) = Elements(spool) \intersect Records
  BY LoadRecords DEF Inv, Types
<1>2. PICK i \in Windows, g \in Windows :
        /\ Answers(i, g)
        /\ \/ /\ pc' = "replay" /\ todo' = Load /\ batch' = Fetched(i, g)
              /\ UNCHANGED faults
           \/ /\ UNCHANGED faults \/ Fault("io")
              /\ pc' = "publish" /\ todo' = Fetched(i, g) /\ UNCHANGED batch
  BY DEF Fetch
<1>3. Fetched(i, g) \in Seq(Records)
  BY FetchedType DEF Inv
<1>4. now' \in Windows
  BY <1>2 DEF Answers
<1>5. faults' \in Nat
  BY <1>2, FaultType DEF Inv, Types
<1>6. /\ pc' \in {"replay", "publish"}
      /\ pc' = "replay" => todo' = Load
      /\ todo' \in Seq(Records) /\ batch' \in Seq(Records)
  BY <1>1, <1>2, <1>3 DEF Inv, Types
<1>7. /\ pc = "idle" /\ failed' = <<>>
      /\ UNCHANGED <<upstream, topic, late, spool, dedupe, stopping, owed, lost, spooled>>
  BY DEF Fetch, brokerVars, historyVars
<1>8. Types'
  BY <1>4, <1>5, <1>6, <1>7, ElementsEmpty DEF Inv, Types
<1>9. ReplayFromFile' /\ ReplayCovers'
  BY <1>1, <1>6, <1>7, ElementsEmpty DEF ReplayFromFile, ReplayCovers, Replaying
<1>10. NothingInHand' /\ KeptInFile'
  BY <1>6, <1>7 DEF NothingInHand, KeptInFile, Inv, OnTopic
<1> QED
  BY <1>8, <1>9, <1>10 DEF Inv

LEMMA ReplayOneStep ==
  ASSUME Inv, ReplayOne
  PROVE  Inv'
<1>1. PICK h \in Records : /\ h = Head(todo) /\ Tail(todo) \in Seq(Records)
                           /\ Elements(todo) = {h} \union Elements(Tail(todo))
  BY ElementsTail DEF ReplayOne, Inv, Types
<1>2. /\ Replaying /\ todo' = Tail(todo)
      /\ \/ Acknowledged(h) /\ Remember(h) /\ UNCHANGED failed
         \/ GivenUp(h) /\ failed' = Append(failed, h) /\ UNCHANGED dedupe
      /\ UNCHANGED <<now, upstream, spool, pc, batch, stopping, owed, lost, spooled>>
  BY <1>1 DEF ReplayOne, worldVars, historyVars
<1>3. /\ topic' \in [Windows -> Seq(Marks)] /\ late' \in [Windows -> Seq(Marks)]
      /\ faults' \in Nat
      /\ \A q \in Records : OnTopic(q) => OnTopic(q)'
      /\ Acknowledged(h) => OnTopic(h)'
  BY <1>1, <1>2, Unanswers, SendOutcome DEF Inv
<1>4. /\ Append(failed, h) \in Seq(Records)
      /\ Elements(Append(failed, h)) = Elements(failed) \union {h}
  BY <1>1, ElementsAppend DEF Inv, Types
<1>5. dedupe' \in Seq(Records)
  BY <1>1, <1>2, RememberType DEF Inv, Types
<1>6. /\ failed' \in Seq(Records)
      /\ \/ Elements(failed') = Elements(failed) /\ OnTopic(h)'
         \/ Elements(failed') = Elements(failed) \union {h}
  BY <1>2, <1>3, <1>4 DEF Inv, Types
<1>7. Types'
  BY <1>1, <1>2, <1>3, <1>5, <1>6 DEF Inv, Types
<1>8. Elements(todo') \union Elements(failed') \subseteq Elements(todo) \union Elements(failed)
  BY <1>1, <1>2, <1>6
<1>9. ReplayFromFile'
  BY <1>2, <1>8 DEF Inv, ReplayFromFile, Replaying
<1>10. ReplayCovers'
  <2> SUFFICES ASSUME NEW r \in Elements(spool) \intersect Records
               PROVE  OnTopic(r)' \/ r \in Elements(todo') \union Elements(failed')
    BY <1>2 DEF ReplayCovers
  <2>1. OnTopic(r) \/ r \in Elements(todo) \union Elements(failed)
    BY <1>2 DEF Inv, ReplayCovers
  <2> QED
    BY <1>1, <1>2, <1>3, <1>6, <2>1
<1>11. NothingInHand' /\ KeptInFile'
  <2>1. pc \notin {"idle", "down", "publish"}
    BY <1>2 DEF Replaying
  <2> QED
    BY <1>2, <1>3, <2>1 DEF Inv, Types, NothingInHand, KeptInFile
<1> QED
  BY <1>7, <1>9, <1>10, <1>11 DEF Inv

\* An exception inside a send.
LEMMA RaisedOutcome ==
  ASSUME Types, todo # <<>>, Raised \/ RaisedLeavingCopy(Head(todo))
  PROVE  /\ Head(todo) \in Records
         /\ topic' = topic /\ late' \in [Windows -> Seq(Marks)] /\ faults' \in Nat
<1>1. Head(todo) \in Records
  BY ElementsTail DEF Types
<1>2. Unanswered(Head(todo))
  BY Unanswers
<1> QED
  BY <1>1, <1>2, SendOutcome DEF Unanswered

LEMMA ReplayEnds ==
  ASSUME Inv, FinishReplay \/ ReplayRaises
  PROVE  Inv'
<1>1. /\ pc \in {"boot", "replay"} /\ pc' \in {"idle", "publish"}
      /\ todo' = batch /\ batch' = <<>> /\ failed' = <<>>
      /\ UNCHANGED <<now, upstream, topic, dedupe, stopping, owed, lost, spooled>>
  BY DEF FinishReplay, ReplayRaises, Raised, RaisedLeavingCopy, Replaying, AfterReplay,
         worldVars, brokerVars, historyVars
<1>2. spool' = spool \/ (todo = <<>> /\ spool' = failed)
  BY DEF FinishReplay, ReplayRaises
<1>3. late' \in [Windows -> Seq(Marks)] /\ faults' \in Nat
  <2>1. CASE FinishReplay
    BY <2>1, FaultType DEF FinishReplay, brokerVars, Inv, Types
  <2>2. CASE ReplayRaises
    BY <2>2, RaisedOutcome DEF ReplayRaises, Inv
  <2> QED
    BY <2>1, <2>2
<1>4. spool' \in Seq(Lines)
  <2>1. failed \in Seq(Lines)
    BY LinesAre, Widen DEF Inv, Types
  <2> QED
    BY <1>2, <2>1 DEF Inv, Types
<1>5. Types'
  BY <1>1, <1>3, <1>4, ElementsEmpty DEF Inv, Types
<1>6. ReplayFromFile' /\ ReplayCovers' /\ NothingInHand'
  BY <1>1 DEF ReplayFromFile, ReplayCovers, NothingInHand, Replaying
<1>7. \A r \in Records : r \in Elements(spool) => OnTopic(r) \/ r \in Elements(spool')
  <2> SUFFICES ASSUME NEW r \in Records, r \in Elements(spool), todo = <<>>, spool' = failed
               PROVE  OnTopic(r) \/ r \in Elements(spool')
    BY <1>2
  <2>1. OnTopic(r) \/ r \in Elements(todo) \union Elements(failed)
    BY <1>1 DEF Inv, ReplayCovers, Replaying
  <2> QED
    BY <2>1, ElementsEmpty
<1>8. KeptInFile'
  BY <1>1, <1>7 DEF Inv, Types, KeptInFile, OnTopic
<1> QED
  BY <1>5, <1>6, <1>8 DEF Inv

LEMMA PublishOneStep ==
  ASSUME Inv, PublishOne
  PROVE  Inv'
<1>1. PICK h \in Records : h = Head(todo) /\ Tail(todo) \in Seq(Records)
  BY ElementsTail DEF PublishOne, Inv, Types
<1>2. /\ pc = "publish" /\ pc' = "publish" /\ todo' = Tail(todo)
      /\ UNCHANGED <<now, upstream, spool, batch, stopping, lost, spooled>>
  BY DEF PublishOne, worldVars
<1>3. \/ UNCHANGED <<topic, late, dedupe, failed, owed, faults>>
      \/ /\ Acknowledged(h) /\ Remember(h)
         /\ UNCHANGED <<failed, owed>>
      \/ /\ GivenUp(h)
         /\ failed' = Append(failed, h) /\ owed' = owed \union {h}
         /\ UNCHANGED dedupe
  BY <1>1 DEF PublishOne, brokerVars
<1>4. /\ topic' \in [Windows -> Seq(Marks)] /\ late' \in [Windows -> Seq(Marks)]
      /\ faults' \in Nat
      /\ \A q \in Records : OnTopic(q) => OnTopic(q)'
  <2>1. CASE UNCHANGED <<topic, late, faults>>
    BY <2>1, TopicSame DEF Inv, Types
  <2>2. CASE Acknowledged(h) \/ GivenUp(h)
    BY <2>2, Unanswers, SendOutcome DEF Inv
  <2> QED
    BY <1>3, <2>1, <2>2
<1>5. /\ Append(failed, h) \in Seq(Records)
      /\ Elements(Append(failed, h)) = Elements(failed) \union {h}
  BY <1>1, ElementsAppend DEF Inv, Types
<1>6. dedupe' \in Seq(Records)
  BY <1>3, RememberType DEF Inv, Types
<1>7. /\ failed' \in Seq(Records) /\ owed' \subseteq Records
      /\ Elements(failed) \subseteq Elements(failed')
      /\ owed' \subseteq owed \union Elements(failed')
  BY <1>3, <1>5 DEF Inv, Types
<1>8. Types'
  BY <1>1, <1>2, <1>4, <1>6, <1>7 DEF Inv, Types
<1>9. ReplayFromFile' /\ ReplayCovers' /\ NothingInHand'
  BY <1>2 DEF ReplayFromFile, ReplayCovers, NothingInHand, Replaying
<1>10. KeptInFile'
  BY <1>2, <1>4, <1>7 DEF Inv, Types, KeptInFile
<1> QED
  BY <1>8, <1>9, <1>10 DEF Inv

LEMMA PublishRaisesStep ==
  ASSUME Inv, PublishRaises
  PROVE  Inv'
<1>1. /\ pc = "publish" /\ pc' = "idle" /\ todo' = <<>> /\ failed' = <<>>
      /\ UNCHANGED <<now, upstream, spool, dedupe, batch, stopping, owed, spooled>>
  BY DEF PublishRaises, EndCycle, worldVars
<1>2. /\ Head(todo) \in Records
      /\ topic' = topic /\ late' \in [Windows -> Seq(Marks)] /\ faults' \in Nat
  BY RaisedOutcome DEF PublishRaises, Inv
<1>3. lost \union Elements(failed) \subseteq lost' /\ lost' \subseteq Records
  BY <1>2, ElementsOf DEF PublishRaises, Inv, Types
<1>4. Types'
  BY <1>1, <1>2, <1>3, ElementsEmpty DEF Inv, Types
<1>5. ReplayFromFile' /\ ReplayCovers' /\ NothingInHand' /\ KeptInFile'
  BY <1>1, <1>2, <1>3
  DEF Inv, ReplayFromFile, ReplayCovers, NothingInHand, Replaying, KeptInFile, OnTopic
<1> QED
  BY <1>4, <1>5 DEF Inv

\* Whatever append() leaves in the file, a failure it had in hand is in it or is counted.
LEMMA Spooling ==
  ASSUME Inv, pc = "publish", spool' \in Seq(Lines), NoteSpooled(spool'),
         UNCHANGED <<topic, owed>>
  PROVE  /\ lost' \subseteq Records /\ spooled' \subseteq Windows
         /\ \A r \in owed : OnTopic(r)' \/ r \in Elements(spool') \/ r \in lost'
<1>1. Elements(failed) \subseteq Records /\ owed \subseteq Records
  BY ElementsOf DEF Inv, Types
<1>2. lost' = lost \union (((Elements(spool) \union Elements(failed)) \ Elements(spool')) \intersect Records)
  BY DEF NoteSpooled
<1>3. \A r \in Records : r.window \in Windows
  BY RecordFields
<1>4. spooled' \subseteq Windows
  BY <1>1, <1>3 DEF NoteSpooled, Inv, Types
<1> QED
  BY <1>1, <1>2, <1>4 DEF Inv, Types, KeptInFile, OnTopic

LEMMA FinishPublishStep ==
  ASSUME Inv, FinishPublish
  PROVE  Inv'
<1>1. /\ pc = "publish" /\ pc' = "idle" /\ todo' = <<>> /\ failed' = <<>>
      /\ NoteSpooled(spool')
      /\ UNCHANGED <<now, upstream, topic, late, dedupe, batch, stopping, owed>>
  BY DEF FinishPublish, EndCycle, worldVars, brokerVars
<1>2. faults' \in Nat
  BY FaultType DEF FinishPublish, Inv, Types
<1>3. spool' \in Seq(Lines)
  <2>1. \/ spool' = spool
        \/ spool' = Newest(Written(failed))
        \/ spool' \in PartlyWritten
    BY DEF FinishPublish
  <2>2. Newest(Written(failed)) \in Seq(Lines)
    BY WrittenType, NewestType DEF Inv, Types
  <2> QED
    BY <2>1, <2>2, PartlyWrittenType DEF Inv, Types
<1>4. /\ lost' \subseteq Records /\ spooled' \subseteq Windows
      /\ \A r \in owed : OnTopic(r)' \/ r \in Elements(spool') \/ r \in lost'
  BY <1>1, <1>3, Spooling
<1>5. Types'
  BY <1>1, <1>2, <1>3, <1>4, ElementsEmpty DEF Inv, Types
<1>6. ReplayFromFile' /\ ReplayCovers' /\ NothingInHand' /\ KeptInFile'
  BY <1>1, <1>4 DEF ReplayFromFile, ReplayCovers, NothingInHand, Replaying, KeptInFile
<1> QED
  BY <1>5, <1>6 DEF Inv

LEMMA EndType ==
  ASSUME Inv, ProcessEnds
  PROVE  /\ pc' = "down" /\ late' \in [Windows -> Seq(Marks)] /\ dedupe' \in Seq(Records)
         /\ batch' \in Seq(Records) /\ todo' \in Seq(Records) /\ failed' \in Seq(Records)
         /\ failed' = <<>>
<1>1. \A S : <<>> \in Seq(S)
  BY ElementsEmpty
<1> QED
  BY <1>1 DEF ProcessEnds

LEMMA CrashInAppendStep ==
  ASSUME Inv, CrashInAppend
  PROVE  Inv'
<1>1. /\ pc = "publish" /\ spool' \in PartlyWritten /\ NoteSpooled(spool') /\ ProcessEnds
      /\ UNCHANGED <<now, upstream, topic, stopping, owed>>
  BY DEF CrashInAppend, worldVars
<1>2. faults' \in Nat
  BY FaultType DEF CrashInAppend, Inv
<1>3. spool' \in Seq(Lines)
  BY <1>1, PartlyWrittenType DEF Inv
<1>4. /\ lost' \subseteq Records /\ spooled' \subseteq Windows
      /\ \A r \in owed : OnTopic(r)' \/ r \in Elements(spool') \/ r \in lost'
  BY <1>1, <1>3, Spooling
<1>5. Types'
  BY <1>1, <1>2, <1>3, <1>4, EndType DEF Inv, Types
<1>6. ReplayFromFile' /\ ReplayCovers' /\ NothingInHand' /\ KeptInFile'
  BY <1>1, <1>4, EndType DEF ReplayFromFile, ReplayCovers, NothingInHand, Replaying, KeptInFile
<1> QED
  BY <1>5, <1>6 DEF Inv

LEMMA EndStep ==
  ASSUME Inv, Crash \/ Shutdown
  PROVE  Inv'
<1>1. /\ ProcessEnds /\ UNCHANGED <<now, upstream, topic, spool, stopping, owed, spooled>>
      /\ lost' = IF pc = "publish" THEN lost \union Elements(failed) ELSE lost
  BY DEF Crash, Shutdown, worldVars, historyVars
<1>2. faults' \in Nat
  BY FaultType DEF Crash, Shutdown, Inv, Types
<1>3. lost' \subseteq Records
  BY <1>1, ElementsOf DEF Inv, Types
<1>4. Types'
  BY <1>1, <1>2, <1>3, EndType DEF Inv, Types
<1>5. ReplayFromFile' /\ ReplayCovers' /\ NothingInHand'
  BY <1>1, EndType DEF ReplayFromFile, ReplayCovers, NothingInHand, Replaying
<1>6. KeptInFile'
  BY <1>1, EndType DEF Inv, KeptInFile, OnTopic
<1> QED
  BY <1>4, <1>5, <1>6 DEF Inv

LEMMA RestartStep ==
  ASSUME Inv, Restart
  PROVE  Inv'
<1>1. Load \in Seq(Records) /\ Elements(Load) = Elements(spool) \intersect Records
  BY LoadRecords DEF Inv, Types
<1>2. /\ pc = "down" /\ failed = <<>> /\ stopping' = FALSE
      /\ UNCHANGED <<now, upstream, topic, late, spool, dedupe, batch, failed, owed, lost, spooled>>
  BY DEF Restart, Inv, NothingInHand, worldVars, brokerVars, historyVars
<1>3. (pc' = "idle" /\ todo' = <<>>) \/ (pc' = "boot" /\ todo' = Load)
  BY DEF Restart
<1>4. faults' \in Nat
  BY FaultType DEF Restart, Inv, Types
<1>5. todo' \in Seq(Records)
  BY <1>1, <1>3, ElementsEmpty
<1>6. Types'
  BY <1>2, <1>3, <1>4, <1>5 DEF Inv, Types
<1>7. ReplayFromFile' /\ ReplayCovers'
  BY <1>1, <1>2, <1>3, ElementsEmpty DEF ReplayFromFile, ReplayCovers, Replaying
<1>8. NothingInHand' /\ KeptInFile'
  BY <1>2, <1>3 DEF Inv, NothingInHand, KeptInFile, OnTopic
<1> QED
  BY <1>6, <1>7, <1>8 DEF Inv

-----------------------------------------------------------------------------
(***************************************************************************)
(* Whatever happens to the feed, the broker, the disk and the process      *)
(* (ingest_grid.py: _run_cycle, replay_spool, publish, DiskSpool), the     *)
(* invariant above holds.                                                  *)
(***************************************************************************)
THEOREM Invariance == Spec => []Inv
<1>1. Inv /\ [Next]_vars => Inv'
  <2> SUFFICES ASSUME Inv, [Next]_vars PROVE Inv'
    OBVIOUS
  <2>1. CASE UpstreamRevises \/ UpstreamAdvances \/ RequestStop \/ UNCHANGED vars
    BY <2>1, UpstreamStep
  <2>2. CASE LateCopy
    BY <2>2, LateStep
  <2>3. CASE Fetch
    BY <2>3, FetchStep
  <2>4. CASE ReplayOne
    BY <2>4, ReplayOneStep
  <2>5. CASE FinishReplay \/ ReplayRaises
    BY <2>5, ReplayEnds
  <2>6. CASE PublishOne
    BY <2>6, PublishOneStep
  <2>7. CASE PublishRaises
    BY <2>7, PublishRaisesStep
  <2>8. CASE FinishPublish
    BY <2>8, FinishPublishStep
  <2>9. CASE Crash \/ Shutdown
    BY <2>9, EndStep
  <2>10. CASE CrashInAppend
    BY <2>10, CrashInAppendStep
  <2>11. CASE Restart
    BY <2>11, RestartStep
  <2> QED
    BY <2>1, <2>2, <2>3, <2>4, <2>5, <2>6, <2>7, <2>8, <2>9, <2>10, <2>11 DEF Next, Worker
<1> QED
  BY <1>1, Initially, PTL DEF Spec

(***************************************************************************)
(* Every variable keeps its type (ingest_grid.py: TelemetrySpool, publish, *)
(* replay_spool): the topic and the copies in flight carry marks of        *)
(* records only, and a cycle hands on nothing that load() could not parse. *)
(***************************************************************************)
THEOREM TypeCorrect == Spec => []TypeOK
<1>1. Inv => TypeOK
  <2> SUFFICES ASSUME Inv PROVE TypeOK
    OBVIOUS
  <2>1. ASSUME NEW f \in [Windows -> Seq(Marks)], NEW w \in Windows, NEW i \in DOMAIN f[w]
        PROVE  [window |-> w, rev |-> f[w][i]] \in Records
    <3>1. f[w] \in Seq(Marks)
      OBVIOUS
    <3>2. f[w][i] \in Marks
      BY <3>1, LenProperties, ElementOfSeq
    <3> QED
      BY <3>2 DEF Records, Marks
  <2> QED
    BY <2>1 DEF Inv, Types, TypeOK
<1> QED
  BY <1>1, Invariance, PTL

(***************************************************************************)
(* FR-ING-8, FR-ING-9: what publish() gave up on (ingest_grid.py:          *)
(* publish, replay_spool, TelemetrySpool.append) is never silently         *)
(* dropped: it is on the topic, in the file, in the failures about to be   *)
(* written, or one of the counted accidents took it.                       *)
(***************************************************************************)
THEOREM Kept == Spec => []GaveUpIsKept
<1>1. Inv => GaveUpIsKept
  BY DEF Inv, KeptInFile, GaveUpIsKept, InMemory, OnTopic
<1> QED
  BY <1>1, Invariance, PTL

-----------------------------------------------------------------------------
(***************************************************************************)
(* Suppression.  A window is owing while a record of it waits in the file, *)
(* in the replay's hand or among the failures of publish(), and for good   *)
(* once one was dropped.  Only an owing window has copies in flight, and   *)
(* of any other the dedupe cache says what its topic says.                 *)
(***************************************************************************)
Pending == Elements(failed) \union IF Replaying THEN Elements(todo)
                                   ELSE Elements(spool) \intersect Records

Owing(w) == \E r \in Pending \union lost : r.window = w

ShownLast(r) == /\ late[r.window] = <<>> /\ topic[r.window] # <<>>
                /\ Said(LastOf(topic[r.window])) = Content(r)

LateIsOwed == \A w \in Windows : late[w] = <<>> \/ Owing(w)

DedupeJustified == \A r \in Elements(dedupe) : ShownLast(r) \/ Owing(r.window)

Mirror == LateIsOwed /\ DedupeJustified

LEMMA RememberElements ==
  ASSUME Types, NEW r \in Records, Remember(r)
  PROVE  \A q \in Elements(dedupe') : q = r \/ (q \in Elements(dedupe) /\ q.window # r.window)
<1> DEFINE updated == [i \in DOMAIN dedupe |-> IF dedupe[i].window = r.window THEN r ELSE dedupe[i]]
           known == \E i \in DOMAIN dedupe : dedupe[i].window = r.window
           new == IF known THEN updated ELSE Append(dedupe, r)
           Ok(q) == q = r \/ (q \in Elements(dedupe) /\ q.window # r.window)
<1>1. \A q \in Elements(updated) : Ok(q)
  BY DEF Elements
<1>2. ~known => \A q \in Elements(Append(dedupe, r)) : Ok(q)
  <2>1. Elements(Append(dedupe, r)) = Elements(dedupe) \union {r}
    BY ElementsAppend DEF Types
  <2> QED
    BY <2>1 DEF Elements
<1>3. updated \in Seq(Records)
  <2>1. /\ Len(dedupe) \in Nat /\ DOMAIN dedupe = 1 .. Len(dedupe)
        /\ \A i \in 1 .. Len(dedupe) : dedupe[i] \in Records
    BY LenProperties, ElementOfSeq DEF Types
  <2>2. updated \in [1 .. Len(dedupe) -> Records]
    BY <2>1
  <2> QED
    BY <2>1, <2>2, SeqDef
<1>4. new \in Seq(Records) /\ \A q \in Elements(new) : Ok(q)
  <2>1. Append(dedupe, r) \in Seq(Records)
    BY ElementsAppend DEF Types
  <2> HIDE DEF updated, known, Ok
  <2> QED
    BY <1>1, <1>2, <1>3, <2>1
<1>5. dedupe' = IF Len(new) > DedupeMax THEN Tail(new) ELSE new
  BY DEF Remember
<1> HIDE DEF new
<1>6. Elements(dedupe') \subseteq Elements(new)
  <2>1. CASE Len(new) > DedupeMax
    <3>1. new # <<>>
      BY <1>4, <2>1, WorkerAssumption, EmptySeq
    <3> QED
      BY <1>4, <1>5, <2>1, <3>1, ElementsTail
  <2>2. CASE ~(Len(new) > DedupeMax)
    BY <1>5, <2>2
  <2> QED
    BY <2>1, <2>2
<1> QED
  BY <1>4, <1>6

LEMMA LastExtended ==
  ASSUME NEW s \in Seq(Marks), NEW m \in Marks
  PROVE  Extend(s, m) # <<>> /\ LastOf(Extend(s, m)) = m
<1>1. CASE s # <<>> /\ LastOf(s) = m
  BY <1>1 DEF Extend
<1>2. CASE ~(s # <<>> /\ LastOf(s) = m)
  <2>1. Extend(s, m) = Append(s, m)
    BY <1>2 DEF Extend
  <2>2. /\ Append(s, m) \in Seq(Marks) /\ Len(Append(s, m)) = Len(s) + 1
        /\ Append(s, m)[Len(s) + 1] = m /\ Len(s) \in Nat
    BY AppendProperties, LenProperties
  <2>3. Append(s, m) # <<>>
    BY <2>2, EmptySeq
  <2> QED
    BY <2>1, <2>2, <2>3 DEF LastOf
<1> QED
  BY <1>1, <1>2

\* Nothing is sent, and no owing window stops owing.
LEMMA MirrorKept ==
  ASSUME Inv, Mirror, UNCHANGED <<topic, late>>, Elements(dedupe') \subseteq Elements(dedupe),
         \A w \in Windows : Owing(w) => Owing(w)'
  PROVE  Mirror'
<1>1. \A r \in Elements(dedupe) : r.window \in Windows
  BY ElementsOf, RecordFields DEF Inv, Types
<1>2. LateIsOwed'
  BY DEF Mirror, LateIsOwed
<1>3. DedupeJustified'
  <2> SUFFICES ASSUME NEW r \in Elements(dedupe')
               PROVE  ShownLast(r)' \/ Owing(r.window)'
    BY DEF DedupeJustified
  <2>1. ShownLast(r) \/ Owing(r.window)
    BY DEF Mirror, DedupeJustified
  <2>2. ShownLast(r) => ShownLast(r)'
    BY DEF ShownLast
  <2> QED
    BY <1>1, <2>1, <2>2
<1> QED
  BY <1>2, <1>3 DEF Mirror

\* A send that is acknowledged settles its window, one that is not leaves it owing.
LEMMA MirrorSend ==
  ASSUME Inv, Mirror, NEW h \in Records,
         \/ Acknowledged(h) /\ Remember(h)
         \/ Unanswered(h) /\ UNCHANGED dedupe /\ Owing(h.window)',
         \A w \in Windows : w # h.window /\ Owing(w) => Owing(w)'
  PROVE  Mirror'
<1> DEFINE v == h.window
<1>1. v \in Windows /\ h.rev \in Marks
  BY RecordFields
<1>2. \A r \in Elements(dedupe) : r \in Records /\ r.window \in Windows
  BY ElementsOf, RecordFields DEF Inv, Types
<1>3. \A w \in Windows \ {v} : topic'[w] = topic[w] /\ late'[w] = late[w]
  BY <1>1 DEF Acknowledged, Unanswered, CopyLeft, Inv, Types
<1>4. \A r \in Elements(dedupe) :
        r.window # v => ShownLast(r)' \/ Owing(r.window)'
  <2> SUFFICES ASSUME NEW r \in Elements(dedupe), r.window # v
               PROVE  ShownLast(r)' \/ Owing(r.window)'
    OBVIOUS
  <2>1. ShownLast(r) \/ Owing(r.window)
    BY DEF Mirror, DedupeJustified
  <2>2. ShownLast(r) => ShownLast(r)'
    BY <1>2, <1>3 DEF ShownLast
  <2> QED
    BY <1>2, <2>1, <2>2
<1>5. \A w \in Windows \ {v} : late'[w] = <<>> \/ Owing(w)'
  BY <1>3 DEF Mirror, LateIsOwed
<1>6. CASE Acknowledged(h) /\ Remember(h)
  <2>1. late[v] = <<>> /\ late' = late /\ topic' = [topic EXCEPT ![v] = Extend(topic[v], h.rev)]
    BY <1>6 DEF Acknowledged
  <2>2. topic'[v] # <<>> /\ LastOf(topic'[v]) = h.rev
    BY <1>1, <2>1, LastExtended DEF Inv, Types
  <2>3. ShownLast(h)'
    BY <2>1, <2>2 DEF ShownLast, Content
  <2>4. \A q \in Elements(dedupe') : q = h \/ (q \in Elements(dedupe) /\ q.window # v)
    BY <1>6, RememberElements DEF Inv
  <2>5. DedupeJustified'
    BY <1>4, <2>3, <2>4 DEF DedupeJustified
  <2>6. LateIsOwed'
    BY <1>5, <2>1 DEF LateIsOwed
  <2> QED
    BY <2>5, <2>6 DEF Mirror
<1>7. CASE Unanswered(h) /\ UNCHANGED dedupe /\ Owing(h.window)'
  <2>1. DedupeJustified'
    BY <1>4, <1>7 DEF DedupeJustified
  <2>2. LateIsOwed'
    BY <1>5, <1>7 DEF LateIsOwed
  <2> QED
    BY <2>1, <2>2 DEF Mirror
<1> QED
  BY <1>6, <1>7

LEMMA MirrorInitially == Init => Mirror
<1> SUFFICES ASSUME Init PROVE Mirror
  OBVIOUS
<1>1. Elements(dedupe) = {} /\ \A w \in Windows : late[w] = <<>>
  BY ElementsEmpty DEF Init
<1> QED
  BY <1>1 DEF Mirror, LateIsOwed, DedupeJustified

LEMMA MirrorLate ==
  ASSUME Inv, Mirror, LateCopy
  PROVE  Mirror'
<1>1. PICK w \in Windows :
        /\ late[w] # <<>>
        /\ late' = [late EXCEPT ![w] = Tail(late[w])]
        /\ topic' \in {topic, [topic EXCEPT ![w] = Extend(topic[w], Head(late[w]))]}
  BY DEF LateCopy
<1>2. \A x \in Windows \ {w} : topic'[x] = topic[x] /\ late'[x] = late[x]
  BY <1>1 DEF Inv, Types
<1>3. UNCHANGED <<spool, dedupe, pc, todo, failed, lost>>
  BY DEF LateCopy, historyVars
<1>4. \A x \in Windows : Owing(x) <=> Owing(x)'
  BY <1>3 DEF Owing, Pending, Replaying
<1>5. Owing(w)'
  BY <1>1, <1>4 DEF Mirror, LateIsOwed
<1>6. LateIsOwed'
  BY <1>2, <1>4, <1>5 DEF Mirror, LateIsOwed
<1>7. DedupeJustified'
  <2> SUFFICES ASSUME NEW r \in Elements(dedupe), r.window # w
               PROVE  ShownLast(r)' \/ Owing(r.window)'
    BY <1>3, <1>5 DEF DedupeJustified
  <2>1. r.window \in Windows
    BY ElementsOf, RecordFields DEF Inv, Types
  <2>2. ShownLast(r) => ShownLast(r)'
    BY <1>2, <2>1 DEF ShownLast
  <2> QED
    BY <1>4, <2>1, <2>2 DEF Mirror, DedupeJustified
<1> QED
  BY <1>6, <1>7 DEF Mirror

LEMMA MirrorReplay ==
  ASSUME Inv, Mirror, ReplayOne
  PROVE  Mirror'
<1>1. PICK h \in Records : h = Head(todo) /\ Elements(todo) = {h} \union Elements(Tail(todo))
  BY ElementsTail DEF ReplayOne, Inv, Types
<1>2. /\ Replaying /\ Replaying' /\ todo' = Tail(todo) /\ lost' = lost
      /\ \/ Acknowledged(h) /\ Remember(h) /\ UNCHANGED failed
         \/ GivenUp(h) /\ failed' = Append(failed, h) /\ UNCHANGED dedupe
  BY <1>1 DEF ReplayOne, Replaying, historyVars
<1>3. Elements(Append(failed, h)) = Elements(failed) \union {h}
  BY ElementsAppend DEF Inv, Types
<1>4. \A w \in Windows : w # h.window /\ Owing(w) => Owing(w)'
  <2>1. Pending \ {h} \subseteq Pending'
    BY <1>1, <1>2, <1>3 DEF Pending
  <2> QED
    BY <1>2, <2>1 DEF Owing
<1>5. GivenUp(h) /\ failed' = Append(failed, h) => Owing(h.window)'
  BY <1>3 DEF Owing, Pending
<1> QED
  BY <1>2, <1>4, <1>5, Unanswers, MirrorSend DEF Inv

LEMMA MirrorPublish ==
  ASSUME Inv, Mirror, PublishOne
  PROVE  Mirror'
<1>1. PICK h \in Records : h = Head(todo)
  BY ElementsTail DEF PublishOne, Inv, Types
<1>2. /\ ~Replaying /\ ~Replaying' /\ spool' = spool /\ lost' = lost
      /\ \/ UNCHANGED <<topic, late, dedupe, failed>>
         \/ Acknowledged(h) /\ Remember(h) /\ UNCHANGED failed
         \/ GivenUp(h) /\ failed' = Append(failed, h) /\ UNCHANGED dedupe
  BY <1>1 DEF PublishOne, Replaying, brokerVars
<1>3. Elements(Append(failed, h)) = Elements(failed) \union {h}
  BY ElementsAppend DEF Inv, Types
<1>4. \A w \in Windows : Owing(w) => Owing(w)'
  <2>1. Pending \subseteq Pending'
    BY <1>2, <1>3 DEF Pending
  <2> QED
    BY <1>2, <2>1 DEF Owing
<1>5. GivenUp(h) /\ failed' = Append(failed, h) => Owing(h.window)'
  BY <1>3 DEF Owing, Pending
<1>6. CASE UNCHANGED <<topic, late, dedupe, failed>>
  BY <1>4, <1>6, MirrorKept
<1> QED
  BY <1>2, <1>4, <1>5, <1>6, Unanswers, MirrorSend DEF Inv

\* Starting a replay, ending one, and writing the file: what was pending is pending still,
\* or was dropped; so is the record of which an exception left a copy.
LEMMA MirrorFile ==
  ASSUME Inv, Mirror,
         Fetch \/ FinishReplay \/ ReplayRaises \/ PublishRaises \/ FinishPublish \/ Restart
  PROVE  Mirror'
<1>1. /\ Load \in Seq(Records) /\ Elements(Load) = Elements(spool) \intersect Records
      /\ Elements(failed) \subseteq Records /\ Elements(todo) \subseteq Records
  BY LoadRecords, ElementsOf DEF Inv, Types
<1>2. UNCHANGED <<topic, dedupe>>
  BY DEF Fetch, FinishReplay, ReplayRaises, PublishRaises, FinishPublish, Restart, brokerVars,
         Raised, RaisedLeavingCopy
<1>3. Pending \subseteq Pending' \union lost' /\ lost \subseteq lost'
  <2>1. CASE Fetch
    <3>1. /\ failed = <<>> /\ failed' = <<>> /\ ~Replaying /\ spool' = spool /\ lost' = lost
          /\ Replaying' => todo' = Load
      BY <2>1 DEF Fetch, Inv, NothingInHand, Replaying, historyVars
    <3> QED
      BY <1>1, <3>1 DEF Pending
  <2>2. CASE FinishReplay \/ ReplayRaises
    <3>1. /\ Replaying /\ ~Replaying' /\ lost' = lost
          /\ spool' = spool \/ (todo = <<>> /\ spool' = failed)
      BY <2>2 DEF FinishReplay, ReplayRaises, AfterReplay, Replaying, historyVars
    <3>2. Elements(todo) \union Elements(failed) \subseteq Elements(spool)
      BY <3>1 DEF Inv, ReplayFromFile
    <3> QED
      BY <1>1, <3>1, <3>2, ElementsEmpty DEF Pending
  <2>3. CASE PublishRaises
    <3>1. /\ ~Replaying /\ ~Replaying' /\ spool' = spool
          /\ lost \union Elements(failed) \subseteq lost'
      BY <2>3 DEF PublishRaises, EndCycle, Replaying
    <3> QED
      BY <3>1 DEF Pending
  <2>4. CASE FinishPublish
    <3>1. /\ ~Replaying /\ ~Replaying'
          /\ lost' = lost \union (((Elements(spool) \union Elements(failed)) \ Elements(spool'))
                                    \intersect Records)
      BY <2>4 DEF FinishPublish, EndCycle, Replaying, NoteSpooled
    <3> QED
      BY <1>1, <3>1 DEF Pending
  <2>5. CASE Restart
    <3>1. /\ ~Replaying /\ failed = <<>> /\ failed' = failed /\ spool' = spool /\ lost' = lost
          /\ Replaying' => todo' = Load
      BY <2>5 DEF Restart, Inv, NothingInHand, Replaying, historyVars
    <3> QED
      BY <1>1, <3>1, ElementsEmpty DEF Pending
  <2> QED
    BY <2>1, <2>2, <2>3, <2>4, <2>5
<1>4. \A w \in Windows : Owing(w) => Owing(w)'
  BY <1>3 DEF Owing
<1>5. CASE late' = late
  BY <1>2, <1>4, <1>5, MirrorKept
<1>6. CASE late' # late
  <2>1. /\ ReplayRaises \/ PublishRaises
        /\ todo # <<>> /\ RaisedLeavingCopy(Head(todo))
    BY <1>6 DEF Fetch, FinishReplay, ReplayRaises, PublishRaises, FinishPublish, Restart,
                brokerVars, Raised
  <2>2. PICK h \in Records : h = Head(todo) /\ h \in Elements(todo)
    BY <2>1, ElementsTail DEF Inv, Types
  <2>3. Owing(h.window)'
    <3>1. CASE ReplayRaises
      <4>1. Replaying /\ ~Replaying' /\ spool' = spool
        BY <3>1 DEF ReplayRaises, AfterReplay, Replaying
      <4>2. h \in Elements(spool)
        BY <2>2, <4>1 DEF Inv, ReplayFromFile
      <4> QED
        BY <2>2, <4>1, <4>2 DEF Owing, Pending
    <3>2. CASE PublishRaises
      <4>1. h \in lost'
        BY <1>6, <2>2, <3>2 DEF PublishRaises, Raised, brokerVars
      <4> QED
        BY <4>1 DEF Owing
    <3> QED
      BY <2>1, <3>1, <3>2
  <2>4. Unanswered(h)
    BY <2>1, <2>2, Unanswers DEF Inv
  <2> QED
    BY <1>2, <1>4, <2>2, <2>3, <2>4, MirrorSend
<1> QED
  BY <1>5, <1>6

LEMMA MirrorElsewhere ==
  ASSUME Inv, Mirror, UpstreamRevises \/ UpstreamAdvances \/ RequestStop \/ UNCHANGED vars
  PROVE  Mirror'
<1>1. UNCHANGED <<topic, late, spool, dedupe, pc, todo, failed, lost>>
  BY DEF UpstreamRevises, UpstreamAdvances, RequestStop, vars, brokerVars, worldVars, historyVars
<1>2. \A w \in Windows : Owing(w) => Owing(w)'
  BY <1>1 DEF Owing, Pending, Replaying
<1> QED
  BY <1>1, <1>2, MirrorKept

LEMMA MirrorEnd ==
  ASSUME Crash \/ CrashInAppend \/ Shutdown
  PROVE  Mirror'
<1>1. dedupe' = <<>> /\ late' = [w \in Windows |-> <<>>]
  BY DEF Crash, CrashInAppend, Shutdown, ProcessEnds
<1> QED
  BY <1>1, ElementsEmpty DEF Mirror, LateIsOwed, DedupeJustified

(***************************************************************************)
(* FR-ING-7 (ingest_grid.py: publish, replay_spool, _trim_dedupe): a       *)
(* window is suppressed only when the topic shows the content it was       *)
(* suppressed for, or when another record of it is still to be replayed or *)
(* was counted as dropped: also the one an exception took out of publish() *)
(* after an attempt had left a copy.                                       *)
(***************************************************************************)
THEOREM Suppression == Spec => []DedupeMirrorsTopic
<1>1. Inv /\ Mirror /\ [Next]_vars => Mirror'
  BY MirrorLate, MirrorReplay, MirrorPublish, MirrorFile, MirrorElsewhere, MirrorEnd
  DEF Next, Worker
<1>2. Inv /\ Mirror => DedupeMirrorsTopic
  <2> SUFFICES ASSUME Inv, Mirror, NEW i \in DOMAIN dedupe
               PROVE  LET w == dedupe[i].window IN
                      \/ OnTheWay(w) # <<>> /\ Said(LastOf(OnTheWay(w))) = Content(dedupe[i])
                      \/ \E r \in Elements(spool) \union InMemory : r.window = w
                      \/ \E r \in lost : r.window = w
    BY DEF DedupeMirrorsTopic
  <2>1. PICK r : r = dedupe[i] /\ r \in Elements(dedupe)
    BY DEF Elements
  <2>2. r.window \in Windows
    BY <2>1, ElementsOf, RecordFields DEF Inv, Types
  <2>3. CASE ShownLast(r)
    <3>1. OnTheWay(r.window) = topic[r.window]
      BY <2>2, <2>3, ConcatEmptySeq DEF ShownLast, OnTheWay, Inv, Types
    <3> QED
      BY <2>1, <2>3, <3>1 DEF ShownLast
  <2>4. CASE Owing(r.window)
    BY <2>1, <2>4 DEF Owing, Pending, InMemory
  <2> QED
    BY <2>1, <2>3, <2>4 DEF Mirror, DedupeJustified
<1> QED
  BY <1>1, <1>2, MirrorInitially, Invariance, PTL DEF Spec

-----------------------------------------------------------------------------
(***************************************************************************)
(* Order.  Of a window that was never spooled, what is in flight is not    *)
(* older than what is on the topic, what the worker has in hand is not     *)
(* older than either, it has one record of it, and upstream is ahead of    *)
(* all of them.                                                            *)
(***************************************************************************)
SentOf(w) == Elements(topic[w]) \union Elements(late[w])

InOrder == \A w \in Windows \ spooled :
  /\ Ordered(topic[w]) /\ Ordered(late[w])
  /\ \A m \in Elements(topic[w]), n \in Elements(late[w]) : Revision(m) <= Revision(n)

NotAhead == \A w \in Windows \ spooled : \A m \in SentOf(w) : Revision(m) <= upstream[w]

IsNewest(r) == /\ Revision(r.rev) <= upstream[r.window]
               /\ \A m \in SentOf(r.window) : Revision(m) <= Revision(r.rev)

InHandIsNewest == \A r \in Elements(todo) \union Elements(batch) :
                    r.window \in spooled \/ IsNewest(r)

OncePer(s) == \A i, j \in DOMAIN s : i # j => s[i].window # s[j].window

OncePerWindow == OncePer(batch) /\ (pc = "publish" => OncePer(todo))

SpoolNoted == \A r \in Elements(spool) \intersect Records : r.window \in spooled

BatchWaits == pc # "replay" => batch = <<>>

InTurn == /\ InOrder /\ NotAhead /\ InHandIsNewest
          /\ OncePerWindow /\ SpoolNoted /\ BatchWaits

LEMMA RevisionType ==
  ASSUME NEW m \in Marks
  PROVE  Revision(m) \in Revs /\ Revision(m) \in Nat
BY WorkerAssumption DEF Marks, Revs, Revision

LEMMA OrderedTail ==
  ASSUME NEW s \in Seq(Marks), s # <<>>, Ordered(s)
  PROVE  /\ Ordered(Tail(s))
         /\ \A m \in Elements(Tail(s)) : Revision(Head(s)) <= Revision(m)
<1>1. /\ Tail(s) \in Seq(Marks) /\ Len(Tail(s)) = Len(s) - 1
      /\ \A i \in 1 .. Len(Tail(s)) : Tail(s)[i] = s[i + 1]
  BY HeadTailProperties
<1>2. Len(s) \in Nat \ {0} /\ Head(s) = s[1] /\ DOMAIN s = 1 .. Len(s)
  BY EmptySeq
<1>3. DOMAIN Tail(s) = 1 .. Len(s) - 1
  BY <1>1, LenProperties
<1>4. \A i \in 1 .. Len(s) - 1 : i + 1 \in DOMAIN s /\ 1 \in DOMAIN s /\ 1 < i + 1
  BY <1>2
<1>5. \A i, j \in 1 .. Len(s) - 1 : i < j => i + 1 < j + 1
  BY <1>2
<1>6. Ordered(Tail(s))
  BY <1>1, <1>3, <1>4, <1>5 DEF Ordered
<1>7. \A i \in 1 .. Len(s) - 1 : Revision(Head(s)) <= Revision(Tail(s)[i])
  BY <1>1, <1>2, <1>4 DEF Ordered
<1>8. Elements(Tail(s)) = {Tail(s)[i] : i \in 1 .. Len(s) - 1}
  BY <1>3 DEF Elements
<1> QED
  BY <1>6, <1>7, <1>8

LEMMA OrderedAppend ==
  ASSUME NEW s \in Seq(Marks), NEW n \in Marks, Ordered(s),
         \A m \in Elements(s) : Revision(m) <= Revision(n)
  PROVE  Ordered(Append(s, n)) /\ Ordered(Extend(s, n))
<1>1. /\ Append(s, n) \in Seq(Marks) /\ Len(Append(s, n)) = Len(s) + 1
      /\ \A i \in 1 .. Len(s) : Append(s, n)[i] = s[i]
      /\ Append(s, n)[Len(s) + 1] = n
  BY AppendProperties
<1>2. Len(s) \in Nat /\ DOMAIN s = 1 .. Len(s) /\ DOMAIN Append(s, n) = 1 .. Len(s) + 1
  BY <1>1, LenProperties
<1>3. \A i \in 1 .. Len(s) : Revision(s[i]) <= Revision(n)
  BY <1>2 DEF Elements
<1>4. Ordered(Append(s, n))
  <2> SUFFICES ASSUME NEW i \in 1 .. Len(s) + 1, NEW j \in 1 .. Len(s) + 1, i < j
               PROVE  Revision(Append(s, n)[i]) <= Revision(Append(s, n)[j])
    BY <1>2 DEF Ordered
  <2>1. i \in 1 .. Len(s)
    BY <1>2
  <2>2. CASE j = Len(s) + 1
    BY <1>1, <1>3, <2>1, <2>2
  <2>3. CASE j # Len(s) + 1
    <3>1. j \in 1 .. Len(s)
      BY <1>2, <2>3
    <3> QED
      BY <1>1, <1>2, <2>1, <3>1 DEF Ordered
  <2> QED
    BY <2>2, <2>3
<1> QED
  BY <1>4 DEF Extend

LEMMA OrderedEmpty == Ordered(<<>>)
BY DEF Ordered

LEMMA OncePerTail ==
  ASSUME NEW s \in Seq(Records), s # <<>>, OncePer(s)
  PROVE  /\ OncePer(Tail(s))
         /\ \A r \in Elements(Tail(s)) : r.window # Head(s).window
<1>1. /\ Tail(s) \in Seq(Records) /\ Len(Tail(s)) = Len(s) - 1
      /\ \A i \in 1 .. Len(Tail(s)) : Tail(s)[i] = s[i + 1]
  BY HeadTailProperties
<1>2. Len(s) \in Nat \ {0} /\ Head(s) = s[1] /\ DOMAIN s = 1 .. Len(s)
  BY EmptySeq
<1>3. DOMAIN Tail(s) = 1 .. Len(s) - 1
  BY <1>1, LenProperties
<1>4. \A i \in 1 .. Len(s) - 1 : i + 1 \in DOMAIN s /\ 1 \in DOMAIN s /\ 1 # i + 1
  BY <1>2
<1>5. \A i, j \in 1 .. Len(s) - 1 : i # j => i + 1 # j + 1
  BY <1>2
<1>6. OncePer(Tail(s))
  BY <1>1, <1>3, <1>4, <1>5 DEF OncePer
<1>7. \A i \in 1 .. Len(s) - 1 : Tail(s)[i].window # Head(s).window
  BY <1>1, <1>2, <1>4 DEF OncePer
<1>8. Elements(Tail(s)) = {Tail(s)[i] : i \in 1 .. Len(s) - 1}
  BY <1>3 DEF Elements
<1> QED
  BY <1>6, <1>7, <1>8

LEMMA FetchedFacts ==
  ASSUME Types, NEW i \in Windows, NEW g \in Windows
  PROVE  /\ OncePer(Fetched(i, g))
         /\ \A r \in Elements(Fetched(i, g)) :
              r.window \in Windows /\ Revision(r.rev) = upstream[r.window]
<1> DEFINE n == Cardinality(FeedAt(i))
           Of(w) == [window |-> w, rev |-> IF w \in FeedAt(g) THEN upstream[w] ELSE -upstream[w]]
<1>1. Fetched(i, g) = [k \in 1 .. n |-> Of(i + k - 1)]
  BY DEF Fetched
<1>2. \A r \in Elements(Fetched(i, g)) : r \in Records
  BY FetchedType, ElementsOf
<1>3. \A k \in 1 .. n : Fetched(i, g)[k] = Of(i + k - 1)
  BY <1>1
<1>4. DOMAIN Fetched(i, g) = 1 .. n
  BY <1>1
<1>5. i \in Int
  BY DEF Windows
<1> HIDE DEF n
<1>6. OncePer(Fetched(i, g))
  BY <1>3, <1>4, <1>5 DEF OncePer
<1>7. ASSUME NEW r \in Elements(Fetched(i, g))
      PROVE  r.window \in Windows /\ Revision(r.rev) = upstream[r.window]
  <2>1. PICK k \in 1 .. n : r = Of(i + k - 1)
    BY <1>3, <1>4 DEF Elements
  <2>2. r.window \in Windows
    BY <1>2, RecordFields
  <2>3. r.window = i + k - 1 /\ (r.rev = upstream[r.window] \/ r.rev = -upstream[r.window])
    BY <2>1
  <2>4. upstream[r.window] \in Revs
    BY <2>2 DEF Types
  <2> QED
    BY <2>2, <2>3, <2>4 DEF Revision, Revs
<1> QED
  BY <1>6, <1>7

\* What the file gets: nothing but what it had and what was appended.
LEMMA ElementsConcat ==
  ASSUME NEW S, NEW s \in Seq(S), NEW t \in Seq(S)
  PROVE  Elements(s \o t) \subseteq Elements(s) \union Elements(t)
<1>1. /\ s \o t \in Seq(S) /\ Len(s \o t) = Len(s) + Len(t)
      /\ \A i \in 1 .. Len(s) + Len(t) : (s \o t)[i] = IF i <= Len(s) THEN s[i] ELSE t[i - Len(s)]
  BY ConcatProperties
<1>2. /\ Len(s) \in Nat /\ Len(t) \in Nat
      /\ DOMAIN s = 1 .. Len(s) /\ DOMAIN t = 1 .. Len(t)
      /\ DOMAIN (s \o t) = 1 .. Len(s) + Len(t)
  BY <1>1, LenProperties
<1>3. ASSUME NEW i \in 1 .. Len(s) + Len(t)
      PROVE  (s \o t)[i] \in Elements(s) \union Elements(t)
  <2>1. CASE i <= Len(s)
    <3>1. i \in 1 .. Len(s)
      BY <1>2, <2>1
    <3> QED
      BY <1>1, <1>2, <2>1, <3>1 DEF Elements
  <2>2. CASE ~(i <= Len(s))
    <3>1. i - Len(s) \in 1 .. Len(t)
      BY <1>2, <2>2
    <3> QED
      BY <1>1, <1>2, <2>2, <3>1 DEF Elements
  <2> QED
    BY <2>1, <2>2
<1>4. Elements(s \o t) = {(s \o t)[i] : i \in 1 .. Len(s) + Len(t)}
  BY <1>2 DEF Elements
<1> QED
  BY <1>3, <1>4

LEMMA ElementsSub ==
  ASSUME NEW S, NEW s \in Seq(S), NEW m \in Nat \ {0}, NEW n \in Nat, n <= Len(s)
  PROVE  Elements(SubSeq(s, m, n)) \subseteq Elements(s)
<1>1. /\ Len(s) \in Nat /\ DOMAIN s = 1 .. Len(s)
      /\ \A i \in m .. n : s[i] \in S
  BY LenProperties, ElementOfSeq
<1>2. /\ SubSeq(s, m, n) \in Seq(S)
      /\ Len(SubSeq(s, m, n)) = IF m <= n THEN n - m + 1 ELSE 0
      /\ \A i \in 1 .. n - m + 1 : SubSeq(s, m, n)[i] = s[m + i - 1]
  BY <1>1, SubSeqProperties
<1>3. DOMAIN SubSeq(s, m, n) = 1 .. IF m <= n THEN n - m + 1 ELSE 0
  BY <1>2, LenProperties
<1>4. ASSUME NEW i \in DOMAIN SubSeq(s, m, n)
      PROVE  SubSeq(s, m, n)[i] \in Elements(s)
  <2>1. m + i - 1 \in 1 .. Len(s) /\ i \in 1 .. n - m + 1
    BY <1>1, <1>3
  <2> QED
    BY <1>1, <1>2, <2>1 DEF Elements
<1> QED
  BY <1>4 DEF Elements

LEMMA NoRecord ==
  Torn \notin Records /\ Corrupt \notin Records
BY DEF Torn, Corrupt, Records, Windows

LEMMA WrittenElements ==
  ASSUME Types, NEW records \in Seq(Records)
  PROVE  Elements(Written(records)) \intersect Records \subseteq Elements(spool) \union Elements(records)
<1>1. records \in Seq(Lines) /\ spool \in Seq(Lines)
  BY LinesAre, Widen DEF Types
<1>2. CASE records # <<>> /\ spool # <<>> /\ LastOf(spool) = Torn
  <2> DEFINE closed == [spool EXCEPT ![Len(spool)] = Corrupt]
  <2>1. Len(spool) \in 1 .. Len(spool)
    BY <1>1, <1>2, EmptySeq
  <2>2. closed \in Seq(Lines)
    BY <1>1, <2>1, LinesAre, ExceptSeq
  <2>3. Tail(records) \in Seq(Lines) /\ Elements(Tail(records)) \subseteq Elements(records)
    BY <1>1, <1>2, ElementsTail
  <2>4. Elements(closed) \subseteq Elements(spool) \union {Corrupt}
    BY DEF Elements
  <2>5. Written(records) = closed \o Tail(records)
    BY <1>2 DEF Written
  <2> HIDE DEF closed
  <2>6. Elements(Written(records)) \subseteq Elements(closed) \union Elements(Tail(records))
    BY <2>2, <2>3, <2>5, ElementsConcat
  <2> QED
    BY <2>3, <2>4, <2>6, NoRecord
<1>3. CASE ~(records # <<>> /\ spool # <<>> /\ LastOf(spool) = Torn)
  <2>1. Written(records) = spool \o records
    BY <1>3 DEF Written
  <2> QED
    BY <1>1, <2>1, ElementsConcat
<1> QED
  BY <1>2, <1>3

LEMMA NewestElements ==
  ASSUME NEW lines \in Seq(Lines)
  PROVE  Elements(Newest(lines)) \subseteq Elements(lines)
<1>1. Len(lines) \in Nat /\ SpoolMax \in Nat \ {0}
  BY WorkerAssumption, LenProperties
<1>2. CASE Len(lines) <= SpoolMax
  BY <1>2 DEF Newest
<1>3. CASE ~(Len(lines) <= SpoolMax)
  <2>1. Len(lines) - SpoolMax + 1 \in Nat \ {0} /\ Len(lines) <= Len(lines)
    BY <1>1, <1>3
  <2>2. Newest(lines) = SubSeq(lines, Len(lines) - SpoolMax + 1, Len(lines))
    BY <1>3 DEF Newest
  <2> QED
    BY <1>1, <2>1, <2>2, ElementsSub
<1> QED
  BY <1>2, <1>3

LEMMA PartlyWrittenElements ==
  ASSUME Types, NEW lines \in PartlyWritten
  PROVE  Elements(lines) \intersect Records \subseteq Elements(spool) \union Elements(failed)
<1>1. PICK k \in 0 .. Len(failed) :
        LET whole == Written(SubSeq(failed, 1, k)) IN lines = whole \/ lines = Fragment(whole)
  BY DEF PartlyWritten
<1> DEFINE some == SubSeq(failed, 1, k)
           whole == Written(some)
<1>2. some \in Seq(Records) /\ Elements(some) \subseteq Elements(failed)
  <2>1. k \in Nat /\ k <= Len(failed) /\ failed \in Seq(Records)
    BY LenProperties DEF Types
  <2> QED
    BY <2>1, PrefixType, ElementsSub
<1> HIDE DEF some
<1>3. whole \in Seq(Lines) /\ Elements(whole) \intersect Records \subseteq Elements(spool) \union Elements(some)
  BY <1>2, WrittenType, WrittenElements
<1>4. lines = whole \/ lines = Fragment(whole)
  BY <1>1 DEF some
<1> HIDE DEF whole
<1>5. Elements(Fragment(whole)) \subseteq Elements(whole) \union {Torn}
  BY <1>3, LinesAre, ElementsAppend DEF Fragment
<1> QED
  BY <1>2, <1>3, <1>4, <1>5, NoRecord

\* A record that is not older than what was sent of its window keeps the order.
LEMMA SendInOrder ==
  ASSUME Inv, InTurn, NEW h \in Records, Acknowledged(h) \/ Unanswered(h),
         h.window \in spooled \/ IsNewest(h), UNCHANGED <<upstream, spooled>>
  PROVE  /\ InOrder' /\ NotAhead'
         /\ \A w \in Windows : w # h.window => SentOf(w)' = SentOf(w)
<1> DEFINE v == h.window
<1>1. v \in Windows /\ h.rev \in Marks
  BY RecordFields
<1>2. topic[v] \in Seq(Marks) /\ late[v] \in Seq(Marks)
  BY <1>1 DEF Inv, Types
<1>3. /\ \A w \in Windows : w # v => topic'[w] = topic[w] /\ late'[w] = late[w]
      /\ \/ late[v] = <<>> /\ late'[v] = <<>> /\ topic'[v] = Extend(topic[v], h.rev)
         \/ topic'[v] = topic[v] /\ late'[v] = late[v]
         \/ topic'[v] = topic[v] /\ late'[v] = Append(late[v], h.rev)
  BY <1>1 DEF Acknowledged, Unanswered, CopyLeft, Inv, Types
<1>4. \A w \in Windows : w # v => SentOf(w)' = SentOf(w)
  BY <1>3 DEF SentOf
<1>5. ASSUME v \notin spooled
      PROVE  /\ Ordered(topic'[v]) /\ Ordered(late'[v])
             /\ \A m \in Elements(topic'[v]), n \in Elements(late'[v]) : Revision(m) <= Revision(n)
             /\ SentOf(v)' \subseteq SentOf(v) \union {h.rev}
  <2>1. /\ Ordered(topic[v]) /\ Ordered(late[v])
        /\ \A m \in Elements(topic[v]), n \in Elements(late[v]) : Revision(m) <= Revision(n)
    BY <1>1, <1>5 DEF InTurn, InOrder
  <2>2. \A m \in Elements(topic[v]) \union Elements(late[v]) : Revision(m) <= Revision(h.rev)
    BY <1>5 DEF IsNewest, SentOf
  <2>3. Ordered(Extend(topic[v], h.rev)) /\ Ordered(Append(late[v], h.rev))
    BY <1>1, <1>2, <2>1, <2>2, OrderedAppend
  <2>4. /\ Elements(Extend(topic[v], h.rev)) = Elements(topic[v]) \union {h.rev}
        /\ Elements(Append(late[v], h.rev)) = Elements(late[v]) \union {h.rev}
    <3>1. Elements(Extend(topic[v], h.rev)) = Elements(topic[v]) \union {h.rev}
      BY <1>1, <1>2, ExtendElements
    <3>2. Elements(Append(late[v], h.rev)) = Elements(late[v]) \union {h.rev}
      BY <1>1, <1>2, ElementsAppend
    <3> QED
      BY <3>1, <3>2
  <2>5. CASE late'[v] = <<>> /\ topic'[v] = Extend(topic[v], h.rev)
    BY <2>3, <2>4, <2>5, OrderedEmpty, ElementsEmpty DEF SentOf
  <2>6. CASE topic'[v] = topic[v] /\ late'[v] = late[v]
    BY <2>1, <2>6 DEF SentOf
  <2>7. CASE topic'[v] = topic[v] /\ late'[v] = Append(late[v], h.rev)
    BY <2>1, <2>2, <2>3, <2>4, <2>7 DEF SentOf
  <2> QED
    BY <1>3, <2>5, <2>6, <2>7
<1>6. InOrder'
  <2> SUFFICES ASSUME NEW w \in Windows, w \notin spooled
               PROVE  /\ Ordered(topic'[w]) /\ Ordered(late'[w])
                      /\ \A m \in Elements(topic'[w]), n \in Elements(late'[w]) :
                           Revision(m) <= Revision(n)
    BY DEF InOrder
  <2>1. CASE w = v
    BY <1>5, <2>1
  <2>2. CASE w # v
    BY <1>3, <2>2 DEF InTurn, InOrder
  <2> QED
    BY <2>1, <2>2
<1>7. NotAhead'
  <2> SUFFICES ASSUME NEW w \in Windows, w \notin spooled, NEW m \in SentOf(w)'
               PROVE  Revision(m) <= upstream[w]
    BY DEF NotAhead
  <2>1. CASE w = v
    BY <1>5, <2>1 DEF IsNewest, InTurn, NotAhead
  <2>2. CASE w # v
    BY <1>4, <2>2 DEF InTurn, NotAhead
  <2> QED
    BY <2>1, <2>2
<1> QED
  BY <1>4, <1>6, <1>7

LEMMA TurnReplay ==
  ASSUME Inv, InTurn, ReplayOne
  PROVE  InTurn'
<1>1. PICK h \in Records : h = Head(todo) /\ Elements(todo) = {h} \union Elements(Tail(todo))
  BY ElementsTail DEF ReplayOne, Inv, Types
<1>2. /\ Replaying /\ todo' = Tail(todo)
      /\ (Acknowledged(h) \/ GivenUp(h))
      /\ UNCHANGED <<upstream, spool, pc, batch, spooled>>
  BY <1>1 DEF ReplayOne, worldVars, historyVars
<1>3. \A r \in Elements(todo) : r \in Records /\ r.window \in spooled
  BY <1>2, ElementsOf DEF Inv, Types, ReplayFromFile, InTurn, SpoolNoted
<1>4. /\ InOrder' /\ NotAhead'
      /\ \A w \in Windows : w # h.window => SentOf(w)' = SentOf(w)
  BY <1>1, <1>2, <1>3, Unanswers, SendInOrder DEF Inv
<1>5. InHandIsNewest'
  <2> SUFFICES ASSUME NEW r \in Elements(batch), r.window \notin spooled
               PROVE  IsNewest(r)'
    BY <1>1, <1>2, <1>3 DEF InHandIsNewest
  <2>1. r.window \in Windows
    BY ElementsOf, RecordFields DEF Inv, Types
  <2>2. SentOf(r.window)' = SentOf(r.window)
    BY <1>1, <1>3, <1>4, <2>1
  <2> QED
    BY <1>2, <2>2 DEF InTurn, InHandIsNewest, IsNewest
<1>6. OncePerWindow' /\ SpoolNoted' /\ BatchWaits'
  BY <1>2 DEF InTurn, OncePerWindow, SpoolNoted, BatchWaits, Replaying
<1> QED
  BY <1>4, <1>5, <1>6 DEF InTurn

LEMMA TurnPublish ==
  ASSUME Inv, InTurn, PublishOne
  PROVE  InTurn'
<1>1. PICK h \in Records : h = Head(todo) /\ Elements(todo) = {h} \union Elements(Tail(todo))
  BY ElementsTail DEF PublishOne, Inv, Types
<1>2. /\ pc = "publish" /\ todo # <<>> /\ todo' = Tail(todo)
      /\ \/ UNCHANGED <<topic, late>>
         \/ Acknowledged(h)
         \/ GivenUp(h)
      /\ UNCHANGED <<upstream, spool, pc, batch, spooled>>
  BY <1>1 DEF PublishOne, worldVars, brokerVars
<1>3. /\ batch = <<>> /\ OncePer(Tail(todo))
      /\ \A r \in Elements(Tail(todo)) : r.window # h.window
  BY <1>1, <1>2, OncePerTail DEF Inv, Types, InTurn, BatchWaits, OncePerWindow
<1>4. /\ InOrder' /\ NotAhead'
      /\ \A w \in Windows : w # h.window => SentOf(w)' = SentOf(w)
  <2>1. CASE UNCHANGED <<topic, late>>
    BY <1>2, <2>1 DEF InTurn, InOrder, NotAhead, SentOf
  <2>2. CASE Acknowledged(h) \/ GivenUp(h)
    <3>1. h.window \in spooled \/ IsNewest(h)
      BY <1>1 DEF InTurn, InHandIsNewest
    <3> QED
      BY <1>2, <2>2, <3>1, Unanswers, SendInOrder DEF Inv
  <2> QED
    BY <1>2, <2>1, <2>2
<1>5. InHandIsNewest'
  <2> SUFFICES ASSUME NEW r \in Elements(Tail(todo)), r.window \notin spooled
               PROVE  IsNewest(r)'
    BY <1>2, <1>3, ElementsEmpty DEF InHandIsNewest
  <2>1. r \in Records /\ r.window \in Windows /\ IsNewest(r)
    BY <1>1, ElementsOf, RecordFields DEF Inv, Types, InTurn, InHandIsNewest
  <2>2. SentOf(r.window)' = SentOf(r.window)
    BY <1>3, <1>4, <2>1
  <2> QED
    BY <1>2, <2>1, <2>2 DEF IsNewest
<1>6. OncePerWindow' /\ SpoolNoted' /\ BatchWaits'
  BY <1>2, <1>3 DEF InTurn, OncePerWindow, SpoolNoted, BatchWaits
<1> QED
  BY <1>4, <1>5, <1>6 DEF InTurn

LEMMA TurnLate ==
  ASSUME Inv, InTurn, LateCopy
  PROVE  InTurn'
<1>1. PICK v \in Windows :
        /\ late[v] # <<>>
        /\ late' = [late EXCEPT ![v] = Tail(late[v])]
        /\ topic' \in {topic, [topic EXCEPT ![v] = Extend(topic[v], Head(late[v]))]}
  BY DEF LateCopy
<1>2. /\ late'[v] = Tail(late[v]) /\ topic'[v] \in {topic[v], Extend(topic[v], Head(late[v]))}
      /\ \A w \in Windows : w # v => topic'[w] = topic[w] /\ late'[w] = late[w]
  BY <1>1 DEF Inv, Types
<1>3. /\ topic[v] \in Seq(Marks) /\ late[v] \in Seq(Marks) /\ Head(late[v]) \in Marks
      /\ Elements(late[v]) = {Head(late[v])} \union Elements(Tail(late[v]))
  BY <1>1, ElementsTail DEF Inv, Types
<1>4. Elements(Extend(topic[v], Head(late[v]))) = Elements(topic[v]) \union {Head(late[v])}
  BY <1>3, ExtendElements
<1>5. \A w \in Windows : SentOf(w)' \subseteq SentOf(w)
  BY <1>2, <1>3, <1>4 DEF SentOf
<1>6. UNCHANGED <<upstream, spool, pc, batch, todo, spooled>>
  BY DEF LateCopy, worldVars, historyVars
<1>7. InOrder'
  <2> SUFFICES ASSUME NEW w \in Windows, w \notin spooled
               PROVE  /\ Ordered(topic'[w]) /\ Ordered(late'[w])
                      /\ \A m \in Elements(topic'[w]), n \in Elements(late'[w]) :
                           Revision(m) <= Revision(n)
    BY <1>6 DEF InOrder
  <2>1. /\ Ordered(topic[w]) /\ Ordered(late[w])
        /\ \A m \in Elements(topic[w]), n \in Elements(late[w]) : Revision(m) <= Revision(n)
    BY DEF InTurn, InOrder
  <2>2. CASE w = v
    <3>1. /\ Ordered(Tail(late[v]))
          /\ \A n \in Elements(Tail(late[v])) : Revision(Head(late[v])) <= Revision(n)
      BY <1>1, <1>3, <2>1, <2>2, OrderedTail
    <3>2. Ordered(Extend(topic[v], Head(late[v])))
      BY <1>3, <2>1, <2>2, OrderedAppend
    <3> QED
      BY <1>2, <1>3, <1>4, <2>1, <2>2, <3>1, <3>2
  <2>3. CASE w # v
    BY <1>2, <2>1, <2>3
  <2> QED
    BY <2>2, <2>3
<1>8. NotAhead'
  BY <1>5, <1>6 DEF InTurn, NotAhead
<1>9. InHandIsNewest'
  <2> SUFFICES ASSUME NEW r \in Elements(todo) \union Elements(batch), r.window \notin spooled
               PROVE  IsNewest(r)'
    BY <1>6 DEF InHandIsNewest
  <2>1. r.window \in Windows /\ IsNewest(r)
    BY ElementsOf, RecordFields DEF Inv, Types, InTurn, InHandIsNewest
  <2> QED
    BY <1>5, <1>6, <2>1 DEF IsNewest
<1>10. OncePerWindow' /\ SpoolNoted' /\ BatchWaits'
  BY <1>6 DEF InTurn, OncePerWindow, SpoolNoted, BatchWaits
<1> QED
  BY <1>7, <1>8, <1>9, <1>10 DEF InTurn

\* Nothing is sent, upstream does not go back, and what comes to hand is newest.
LEMMA OrderKept ==
  ASSUME Inv, InTurn, topic' = topic, spooled \subseteq spooled',
         \A w \in Windows : /\ upstream[w] <= upstream'[w] /\ upstream'[w] \in Revs
                            /\ late'[w] = late[w] \/ late'[w] = <<>>,
         \A r \in Elements(todo') \union Elements(batch') :
           r \in Records /\ (r.window \in spooled \/ IsNewest(r))
  PROVE  InOrder' /\ NotAhead' /\ InHandIsNewest'
<1>1. \A w \in Windows : SentOf(w)' \subseteq SentOf(w)
  BY ElementsEmpty DEF SentOf
<1>2. \A w \in Windows : SentOf(w) \subseteq Marks
  BY ElementsOf DEF SentOf, Inv, Types
<1>3. \A m \in Marks : Revision(m) \in Int
  BY RevisionType
<1>4. \A w \in Windows : upstream[w] \in Int /\ upstream'[w] \in Int /\ upstream[w] <= upstream'[w]
  BY DEF Inv, Types, Revs
<1>5. InOrder'
  <2> SUFFICES ASSUME NEW w \in Windows, w \notin spooled
               PROVE  /\ Ordered(topic'[w]) /\ Ordered(late'[w])
                      /\ \A m \in Elements(topic'[w]), n \in Elements(late'[w]) :
                           Revision(m) <= Revision(n)
    BY DEF InOrder
  <2> QED
    BY OrderedEmpty, ElementsEmpty DEF InTurn, InOrder
<1>6. NotAhead'
  <2> SUFFICES ASSUME NEW w \in Windows, w \notin spooled, NEW m \in SentOf(w)
               PROVE  Revision(m) <= upstream'[w]
    BY <1>1 DEF NotAhead
  <2>1. Revision(m) <= upstream[w] /\ Revision(m) \in Int
    BY <1>2, <1>3 DEF InTurn, NotAhead
  <2> QED
    BY <1>4, <2>1
<1>7. InHandIsNewest'
  <2> SUFFICES ASSUME NEW r \in Elements(todo') \union Elements(batch'), r.window \notin spooled
               PROVE  IsNewest(r)'
    BY DEF InHandIsNewest
  <2>1. r.window \in Windows /\ Revision(r.rev) \in Int /\ IsNewest(r)
    BY <1>3, RecordFields
  <2> QED
    BY <1>1, <1>4, <2>1 DEF IsNewest
<1> QED
  BY <1>5, <1>6, <1>7

LEMMA InHandTyped ==
  ASSUME Inv, InTurn
  PROVE  /\ \A w \in Windows : upstream[w] \in Revs /\ upstream[w] <= upstream[w]
         /\ \A r \in Elements(todo) \union Elements(batch) :
              r \in Records /\ (r.window \in spooled \/ IsNewest(r))
BY ElementsOf DEF Inv, Types, Revs, InTurn, InHandIsNewest

LEMMA TurnElsewhere ==
  ASSUME Inv, InTurn, UpstreamRevises \/ UpstreamAdvances \/ RequestStop \/ UNCHANGED vars
  PROVE  InTurn'
<1>1. UNCHANGED <<topic, late, spool, pc, batch, todo, spooled>>
  BY DEF UpstreamRevises, UpstreamAdvances, RequestStop, vars, brokerVars, worldVars, historyVars
<1>2. \A w \in Windows : upstream[w] <= upstream'[w] /\ upstream'[w] \in Revs
  <2>1. CASE UpstreamRevises
    <3>1. PICK v \in Feed : upstream[v] < MaxRev /\ upstream' = [upstream EXCEPT ![v] = upstream[v] + 1]
      BY <2>1 DEF UpstreamRevises
    <3> QED
      BY <3>1, WorkerAssumption DEF Feed, FeedAt, Inv, Types, Revs
  <2>2. CASE UNCHANGED upstream
    BY <2>2, InHandTyped
  <2> QED
    BY <2>1, <2>2 DEF UpstreamAdvances, RequestStop, vars, worldVars
<1>3. InOrder' /\ NotAhead' /\ InHandIsNewest'
  BY <1>1, <1>2, InHandTyped, OrderKept
<1>4. OncePerWindow' /\ SpoolNoted' /\ BatchWaits'
  BY <1>1 DEF InTurn, OncePerWindow, SpoolNoted, BatchWaits
<1> QED
  BY <1>3, <1>4 DEF InTurn

LEMMA OncePerEmpty == OncePer(<<>>)
BY DEF OncePer

\* The process ends, a cycle ends, or a restarted process replays: nothing new is fetched.
LEMMA TurnEnds ==
  ASSUME Inv, InTurn, topic' = topic, upstream' = upstream, spooled \subseteq spooled',
         \A w \in Windows : late'[w] = late[w] \/ late'[w] = <<>>,
         pc' # "publish" /\ pc' # "replay", batch' = <<>>,
         \A r \in Elements(todo') : r \in Records /\ r.window \in spooled,
         SpoolNoted'
  PROVE  InTurn'
<1>1. Elements(batch') = {} /\ OncePer(batch')
  BY ElementsEmpty, OncePerEmpty
<1>2. InOrder' /\ NotAhead' /\ InHandIsNewest'
  BY <1>1, InHandTyped, OrderKept
<1>3. OncePerWindow' /\ BatchWaits'
  BY <1>1 DEF OncePerWindow, BatchWaits
<1> QED
  BY <1>2, <1>3 DEF InTurn

LEMMA TurnFetch ==
  ASSUME Inv, InTurn, Fetch
  PROVE  InTurn'
<1>1. Load \in Seq(Records) /\ Elements(Load) = Elements(spool) \intersect Records
  BY LoadRecords DEF Inv, Types
<1>2. PICK i \in Windows, g \in Windows :
        \/ pc' = "replay" /\ todo' = Load /\ batch' = Fetched(i, g)
        \/ pc' = "publish" /\ todo' = Fetched(i, g) /\ batch' = batch
  BY DEF Fetch
<1>3. batch = <<>> /\ UNCHANGED <<upstream, topic, late, spool, spooled>>
  BY DEF Fetch, InTurn, BatchWaits, brokerVars, historyVars
<1>4. /\ OncePer(Fetched(i, g))
      /\ \A r \in Elements(Fetched(i, g)) :
           /\ r \in Records
           /\ r.window \in Windows /\ Revision(r.rev) = upstream[r.window]
  BY FetchedFacts, FetchedType, ElementsOf DEF Inv
<1>5. \A r \in Elements(Fetched(i, g)) : r.window \in spooled \/ IsNewest(r)
  <2> SUFFICES ASSUME NEW r \in Elements(Fetched(i, g)), r.window \notin spooled
               PROVE  IsNewest(r)
    OBVIOUS
  <2>1. \A m \in SentOf(r.window) : Revision(m) <= upstream[r.window]
    BY <1>4 DEF InTurn, NotAhead
  <2>2. upstream[r.window] <= upstream[r.window]
    BY <1>4, InHandTyped
  <2> QED
    BY <1>4, <2>1, <2>2 DEF IsNewest
<1>6. \A r \in Elements(Load) : r \in Records /\ r.window \in spooled
  BY <1>1 DEF InTurn, SpoolNoted
<1>7. \A r \in Elements(todo') \union Elements(batch') :
        r \in Records /\ (r.window \in spooled \/ IsNewest(r))
  BY <1>2, <1>3, <1>4, <1>5, <1>6, ElementsEmpty
<1>8. InOrder' /\ NotAhead' /\ InHandIsNewest'
  BY <1>3, <1>7, InHandTyped, OrderKept
<1>9. OncePerWindow' /\ BatchWaits'
  BY <1>2, <1>3, <1>4, OncePerEmpty DEF OncePerWindow, BatchWaits
<1>10. SpoolNoted'
  BY <1>3 DEF InTurn, SpoolNoted
<1> QED
  BY <1>8, <1>9, <1>10 DEF InTurn

LEMMA TurnReplayEnds ==
  ASSUME Inv, InTurn, FinishReplay \/ ReplayRaises
  PROVE  InTurn'
<1>1. /\ Replaying /\ todo' = batch /\ batch' = <<>>
      /\ pc' \in {"idle", "publish"}
      /\ UNCHANGED <<upstream, topic, spooled>>
  BY DEF FinishReplay, ReplayRaises, Raised, RaisedLeavingCopy, Replaying, AfterReplay,
         worldVars, brokerVars, historyVars
<1>2. spool' = spool \/ spool' = failed
  BY DEF FinishReplay, ReplayRaises
<1>3. SpoolNoted'
  <2>1. Elements(failed) \subseteq Elements(spool)
    BY <1>1 DEF Inv, ReplayFromFile
  <2> QED
    BY <1>1, <1>2, <2>1 DEF InTurn, SpoolNoted
<1>4. InOrder' /\ NotAhead' /\ InHandIsNewest'
  <2>1. CASE late' = late
    BY <1>1, <2>1, ElementsEmpty, InHandTyped, OrderKept
  <2>2. CASE late' # late
    <3> DEFINE h == Head(todo)
    <3>1. todo # <<>> /\ RaisedLeavingCopy(h)
      BY <2>2 DEF FinishReplay, ReplayRaises, Raised, brokerVars
    <3>2. h \in Records /\ h \in Elements(todo)
      BY <3>1, ElementsTail DEF Inv, Types
    <3>3. h.window \in spooled
      BY <1>1, <3>2 DEF Inv, ReplayFromFile, InTurn, SpoolNoted
    <3>4. /\ InOrder' /\ NotAhead'
          /\ \A w \in Windows : w # h.window => SentOf(w)' = SentOf(w)
      BY <1>1, <3>1, <3>2, <3>3, Unanswers, SendInOrder DEF Inv
    <3>5. InHandIsNewest'
      <4> SUFFICES ASSUME NEW r \in Elements(batch), r.window \notin spooled
                   PROVE  IsNewest(r)'
        BY <1>1, ElementsEmpty DEF InHandIsNewest
      <4>1. r.window \in Windows /\ IsNewest(r)
        BY ElementsOf, RecordFields DEF Inv, Types, InTurn, InHandIsNewest
      <4>2. SentOf(r.window)' = SentOf(r.window)
        BY <3>3, <3>4, <4>1
      <4> QED
        BY <1>1, <4>1, <4>2 DEF IsNewest
    <3> QED
      BY <3>4, <3>5
  <2> QED
    BY <2>1, <2>2
<1>5. OncePerWindow' /\ BatchWaits'
  BY <1>1, OncePerEmpty DEF InTurn, OncePerWindow, BatchWaits
<1> QED
  BY <1>3, <1>4, <1>5 DEF InTurn

\* Every record append() leaves in the file is noted as spooled.
LEMMA NotedWhenWritten ==
  ASSUME Inv, InTurn, NoteSpooled(spool'),
         Elements(spool') \intersect Records \subseteq Elements(spool) \union Elements(failed)
  PROVE  SpoolNoted' /\ spooled \subseteq spooled'
BY DEF NoteSpooled, InTurn, SpoolNoted

LEMMA TurnCycleEnds ==
  ASSUME Inv, InTurn,
         PublishRaises \/ FinishPublish \/ CrashInAppend \/ Crash \/ Shutdown \/ Restart
  PROVE  InTurn'
<1>1. CASE PublishRaises
  <2>1. /\ pc = "publish" /\ pc' = "idle" /\ todo' = <<>>
        /\ UNCHANGED <<upstream, spool, batch, spooled>>
        /\ todo # <<>> /\ (Raised \/ RaisedLeavingCopy(Head(todo)))
    BY <1>1 DEF PublishRaises, EndCycle, worldVars
  <2>2. SpoolNoted' /\ batch' = <<>>
    BY <2>1 DEF InTurn, SpoolNoted, BatchWaits
  <2>3. Head(todo) \in Records /\ Head(todo) \in Elements(todo)
    BY <2>1, ElementsTail DEF Inv, Types
  <2>4. Head(todo).window \in spooled \/ IsNewest(Head(todo))
    BY <2>3 DEF InTurn, InHandIsNewest
  <2>5. InOrder' /\ NotAhead'
    BY <2>1, <2>3, <2>4, Unanswers, SendInOrder DEF Inv
  <2>6. InHandIsNewest' /\ OncePerWindow' /\ BatchWaits'
    BY <2>1, <2>2, ElementsEmpty, OncePerEmpty DEF InHandIsNewest, OncePerWindow, BatchWaits
  <2> QED
    BY <2>2, <2>5, <2>6 DEF InTurn
<1>2. CASE FinishPublish
  <2>1. /\ pc = "publish" /\ pc' = "idle" /\ todo' = <<>> /\ NoteSpooled(spool')
        /\ UNCHANGED <<upstream, topic, late, batch>>
        /\ \/ spool' = spool
           \/ spool' = Newest(Written(failed))
           \/ spool' \in PartlyWritten
    BY <1>2 DEF FinishPublish, EndCycle, worldVars, brokerVars
  <2>2. Elements(Newest(Written(failed))) \intersect Records \subseteq Elements(spool) \union Elements(failed)
    <3>1. failed \in Seq(Records)
      BY DEF Inv, Types
    <3>2. /\ Written(failed) \in Seq(Lines)
          /\ Elements(Written(failed)) \intersect Records \subseteq Elements(spool) \union Elements(failed)
      BY <3>1, WrittenType, WrittenElements DEF Inv
    <3> QED
      BY <3>2, NewestElements
  <2>3. Elements(spool') \intersect Records \subseteq Elements(spool) \union Elements(failed)
    <3>1. CASE spool' \in PartlyWritten
      BY <3>1, PartlyWrittenElements DEF Inv
    <3> QED
      BY <2>1, <2>2, <3>1
  <2>4. SpoolNoted' /\ spooled \subseteq spooled' /\ batch' = <<>>
    BY <2>1, <2>3, NotedWhenWritten DEF InTurn, BatchWaits
  <2> QED
    BY <2>1, <2>4, ElementsEmpty, TurnEnds
<1>3. CASE CrashInAppend
  <2>1. /\ pc' = "down" /\ todo' = <<>> /\ batch' = <<>> /\ NoteSpooled(spool')
        /\ late' = [w \in Windows |-> <<>>] /\ spool' \in PartlyWritten
        /\ UNCHANGED <<upstream, topic>>
    BY <1>3 DEF CrashInAppend, ProcessEnds, worldVars
  <2>2. Elements(spool') \intersect Records \subseteq Elements(spool) \union Elements(failed)
    BY <2>1, PartlyWrittenElements DEF Inv
  <2>3. SpoolNoted' /\ spooled \subseteq spooled'
    BY <2>1, <2>2, NotedWhenWritten
  <2> QED
    BY <2>1, <2>3, ElementsEmpty, TurnEnds
<1>4. CASE Crash \/ Shutdown
  <2>1. /\ pc' = "down" /\ todo' = <<>> /\ batch' = <<>>
        /\ late' = [w \in Windows |-> <<>>]
        /\ UNCHANGED <<upstream, topic, spool, spooled>>
    BY <1>4 DEF Crash, Shutdown, ProcessEnds, worldVars, historyVars
  <2>2. SpoolNoted'
    BY <2>1 DEF InTurn, SpoolNoted
  <2> QED
    BY <2>1, <2>2, ElementsEmpty, TurnEnds
<1>5. CASE Restart
  <2>1. Load \in Seq(Records) /\ Elements(Load) = Elements(spool) \intersect Records
    BY LoadRecords DEF Inv, Types
  <2>2. /\ pc' \in {"idle", "boot"} /\ todo' \in {<<>>, Load} /\ pc = "down"
        /\ UNCHANGED <<upstream, topic, late, spool, batch, spooled>>
    BY <1>5 DEF Restart, worldVars, brokerVars, historyVars
  <2>3. SpoolNoted' /\ batch' = <<>>
    BY <2>2 DEF InTurn, SpoolNoted, BatchWaits
  <2>4. \A r \in Elements(todo') : r \in Records /\ r.window \in spooled
    BY <2>1, <2>2, ElementsEmpty DEF InTurn, SpoolNoted
  <2> QED
    BY <2>2, <2>3, <2>4, TurnEnds
<1> QED
  BY <1>1, <1>2, <1>3, <1>4, <1>5

LEMMA TurnInitially == Init => InTurn
<1> SUFFICES ASSUME Init PROVE InTurn
  OBVIOUS
<1>1. \A w \in Windows : topic[w] = <<>> /\ late[w] = <<>>
  BY DEF Init
<1>2. Elements(todo) = {} /\ Elements(batch) = {} /\ Elements(spool) = {} /\ batch = <<>>
      /\ pc = "idle"
  BY ElementsEmpty DEF Init
<1>3. InOrder /\ NotAhead
  BY <1>1, OrderedEmpty, ElementsEmpty DEF InOrder, NotAhead, SentOf
<1> QED
  BY <1>2, <1>3, OncePerEmpty DEF InTurn, InHandIsNewest, OncePerWindow, SpoolNoted, BatchWaits

(***************************************************************************)
(* ingest_grid.py:905-909, "late copies only duplicate": a window that was *)
(* never spooled shows its revisions in order on the topic, whatever was   *)
(* retried, given up, delivered late or lost to a crash.                   *)
(***************************************************************************)
THEOREM LateCopies == Spec => []LateCopiesStayOrdered
<1>1. Inv /\ InTurn /\ [Next]_vars => InTurn'
  BY TurnReplay, TurnPublish, TurnLate, TurnElsewhere, TurnFetch, TurnReplayEnds, TurnCycleEnds
  DEF Next, Worker
<1>2. InTurn => LateCopiesStayOrdered
  BY DEF InTurn, InOrder, LateCopiesStayOrdered
<1> QED
  BY <1>1, <1>2, TurnInitially, Invariance, PTL DEF Spec
=============================================================================
