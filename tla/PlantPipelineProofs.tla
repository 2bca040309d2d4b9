-------------------------- MODULE PlantPipelineProofs --------------------------
(***************************************************************************)
(* Theorems about PlantPipeline, for every set of plants and windows, any  *)
(* finite set of drop files, any number of readings and drops, every bound *)
(* of the spool, and every choice of faults.                               *)
(***************************************************************************)
EXTENDS PlantPipeline, SequenceTheorems, FiniteSetTheorems, TLAPS

(***************************************************************************)
(* What is in a sequence.                                                  *)
(***************************************************************************)
LEMMA ElementsOf ==
  ASSUME NEW S, NEW s \in Seq(S)
  PROVE  /\ Elements(s) = {s[i] : i \in 1 .. Len(s)}
         /\ Elements(s) \subseteq S /\ Len(s) \in Nat
BY LenProperties, ElementOfSeq DEF Elements

LEMMA ElementsAppend ==
  ASSUME NEW S, NEW s \in Seq(S), NEW e \in S
  PROVE  Append(s, e) \in Seq(S) /\ Elements(Append(s, e)) = Elements(s) \union {e}
<1>1. /\ Append(s, e) \in Seq(S) /\ Len(Append(s, e)) = Len(s) + 1
      /\ \A i \in 1 .. Len(s) : Append(s, e)[i] = s[i]
      /\ Append(s, e)[Len(s) + 1] = e
  BY AppendProperties
<1>2. Len(s) \in Nat
  BY LenProperties
<1>3. /\ Elements(s) = {s[i] : i \in 1 .. Len(s)}
      /\ Elements(Append(s, e)) = {Append(s, e)[i] : i \in 1 .. Len(s) + 1}
  BY <1>1, ElementsOf
<1> HIDE DEF Elements
<1>4. 1 .. Len(s) + 1 = (1 .. Len(s)) \union {Len(s) + 1}
  BY <1>2
<1> QED
  BY <1>1, <1>3, <1>4

LEMMA ElementsTail ==
  ASSUME NEW S, NEW s \in Seq(S), s # <<>>
  PROVE  /\ Head(s) \in S /\ Tail(s) \in Seq(S)
         /\ Elements(s) = {Head(s)} \union Elements(Tail(s))
<1>1. /\ Head(s) \in S /\ Tail(s) \in Seq(S) /\ Len(Tail(s)) = Len(s) - 1
      /\ \A i \in 1 .. Len(Tail(s)) : Tail(s)[i] = s[i + 1]
  BY HeadTailProperties
<1>2. Len(s) \in Nat \ {0} /\ Head(s) = s[1]
  BY EmptySeq
<1>3. /\ Elements(s) = {s[i] : i \in 1 .. Len(s)}
      /\ Elements(Tail(s)) = {Tail(s)[i] : i \in 1 .. Len(s) - 1}
  BY <1>1, ElementsOf
<1>4. Elements(Tail(s)) = {s[i + 1] : i \in 1 .. Len(s) - 1}
  BY <1>1, <1>3
<1>5. \A i \in 1 .. Len(s) : i = 1 \/ (i - 1 \in 1 .. Len(s) - 1 /\ (i - 1) + 1 = i)
  BY <1>2
<1>6. \A i \in 1 .. Len(s) - 1 : i + 1 \in 1 .. Len(s)
  BY <1>2
<1> HIDE DEF Elements
<1>7. Elements(s) \subseteq {Head(s)} \union Elements(Tail(s))
  <2> SUFFICES ASSUME NEW i \in 1 .. Len(s), i # 1
               PROVE  s[i] \in Elements(Tail(s))
    BY <1>2, <1>3
  <2>1. s[(i - 1) + 1] \in Elements(Tail(s))
    BY <1>4, <1>5
  <2> QED
    BY <1>5, <2>1
<1>8. Elements(Tail(s)) \subseteq Elements(s)
  BY <1>3, <1>4, <1>6
<1>9. Head(s) \in Elements(s)
  BY <1>2, <1>3
<1> QED
  BY <1>1, <1>7, <1>8, <1>9

LEMMA ElementsEmpty ==
  Elements(<<>>) = {} /\ \A S : <<>> \in Seq(S)
BY DEF Elements

LEMMA Widen ==
  ASSUME NEW S, NEW T, S \subseteq T, NEW s \in Seq(S)
  PROVE  s \in Seq(T)
BY SeqMonotonic

(***************************************************************************)
(* What load() returns: the readings of the file and nothing else.         *)
(***************************************************************************)
Lines == Readings \union {Torn, Corrupt}

Keeps(g, n) == IF n = 0 THEN <<>>
               ELSE IF IsReading(spool[n]) THEN Append(g[n - 1], spool[n]) ELSE g[n - 1]

Loads(g, k) == g = [n \in 0 .. k |-> Keeps(g, n)]

LEMMA SmallestNat ==
  ASSUME NEW Bad, Bad \subseteq Nat, Bad # {}
  PROVE  \E k \in Bad : \A m \in Nat : m < k => m \notin Bad
<1>1. PICK k \in Bad : \A m \in Bad : <<m, k>> \notin OpToRel(<, Nat)
  BY NatLessThanWellFounded, WFMin
<1>2. \A m \in Bad : ~(m < k)
  BY <1>1 DEF OpToRel
<1> QED
  BY <1>2

LEMMA LoadsExists ==
  ASSUME NEW k \in Nat
  PROVE  \E g : Loads(g, k)
<1> DEFINE Bad == {m \in Nat : ~\E g : Loads(g, m)}
<1> SUFFICES ASSUME Bad # {} PROVE FALSE
  OBVIOUS
<1>1. PICK m \in Bad : \A i \in Nat : i < m => i \notin Bad
  <2> HIDE DEF Bad
  <2>1. Bad \subseteq Nat
    BY DEF Bad
  <2> QED
    BY <2>1, SmallestNat
<1>2. CASE m = 0
  <2> DEFINE f == [n \in 0 .. 0 |-> <<>>]
  <2>1. Loads(f, 0)
    BY DEF Loads, Keeps
  <2> QED
    BY <1>1, <1>2, <2>1
<1>3. CASE m # 0
  <2>1. PICK g : Loads(g, m - 1)
    BY <1>1, <1>3
  <2> DEFINE f == [n \in 0 .. m |-> IF n = m THEN Keeps(g, m) ELSE g[n]]
  <2>2. ASSUME NEW n \in 0 .. m
        PROVE  f[n] = Keeps(f, n)
    <3>1. n # 0 => f[n - 1] = g[n - 1]
      BY <1>3
    <3>2. n # m => g[n] = Keeps(g, n)
      <4>1. n # m => n \in 0 .. m - 1
        BY <1>1, <1>3
      <4> QED
        BY <2>1, <4>1 DEF Loads
    <3> QED
      BY <1>3, <3>1, <3>2 DEF Keeps
  <2>3. Loads(f, m)
    BY <2>2 DEF Loads
  <2> QED
    BY <1>1, <2>3
<1> QED
  BY <1>2, <1>3

LEMMA LoadReadings ==
  ASSUME spool \in Seq(Lines)
  PROVE  Load \in Seq(Readings) /\ Elements(Load) = Elements(spool) \intersect Readings
<1> DEFINE kept == CHOOSE g : Loads(g, Len(spool))
<1>1. Len(spool) \in Nat
  BY LenProperties
<1>2. Loads(kept, Len(spool))
  BY <1>1, LoadsExists
<1>3. Load = kept[Len(spool)]
  BY DEF Load, Loads, Keeps
<1> HIDE DEF kept
<1> DEFINE Right(n) == /\ kept[n] \in Seq(Readings)
                       /\ Elements(kept[n]) = {spool[i] : i \in 1 .. n} \intersect Readings
           Bad == {n \in 0 .. Len(spool) : ~Right(n)}
<1>4. CASE Bad = {}
  <2>1. Right(Len(spool))
    BY <1>1, <1>4
  <2> QED
    BY <1>3, <2>1, ElementsOf
<1>5. CASE Bad # {}
  <2>1. PICK n \in Bad : \A m \in Nat : m < n => m \notin Bad
    <3>1. Bad \subseteq Nat
      OBVIOUS
    <3> HIDE DEF Bad
    <3> QED
      BY <1>5, <3>1, SmallestNat
  <2>2. n \in 0 .. Len(spool) /\ ~Right(n) /\ kept[n] = Keeps(kept, n)
    BY <1>2, <2>1 DEF Loads
  <2>3. CASE n = 0
    BY <2>2, <2>3, ElementsEmpty DEF Keeps
  <2>4. CASE n # 0
    <3>0. n - 1 \in Nat /\ n - 1 < n /\ n - 1 \in 0 .. Len(spool)
      BY <1>1, <2>2, <2>4
    <3>1. Right(n - 1)
      BY <2>1, <3>0
    <3>2. {spool[i] : i \in 1 .. n} = {spool[i] : i \in 1 .. n - 1} \union {spool[n]}
      <4>1. 1 .. n = (1 .. n - 1) \union {n}
        BY <1>1, <2>2, <2>4
      <4> QED
        BY <4>1
    <3>3. CASE spool[n] \in Readings
      <4>1. kept[n] = Append(kept[n - 1], spool[n])
        BY <2>2, <2>4, <3>3 DEF Keeps, IsReading
      <4>2. kept[n] \in Seq(Readings) /\ Elements(kept[n]) = Elements(kept[n - 1]) \union {spool[n]}
        BY <3>1, <3>3, <4>1, ElementsAppend
      <4> QED
        BY <2>2, <3>1, <3>2, <3>3, <4>2
    <3>4. CASE spool[n] \notin Readings
      <4>1. kept[n] = kept[n - 1]
        BY <2>2, <2>4, <3>4 DEF Keeps, IsReading
      <4> QED
        BY <2>2, <3>1, <3>2, <3>4, <4>1
    <3> QED
      BY <3>3, <3>4
  <2> QED
    BY <2>3, <2>4
<1> QED
  BY <1>4, <1>5

-----------------------------------------------------------------------------
(***************************************************************************)
(* The inductive invariant.  A replay works on a copy of the file, which   *)
(* it rewrites only when it is through: until then everything it has in    *)
(* hand is also in the file, and nothing the file holds is forgotten.      *)
(***************************************************************************)
Entries == Readings \union {Poison, Null}

BridgeTypes ==
  /\ drops \in [Files -> Readings \union {None}]
  /\ written \in [Keys -> 0 .. MaxRev]
  /\ bridge \in {"idle", "replay", "fetch", "publish", "down"}
  /\ spool \in Seq(Lines)
  /\ lastHash \in [Keys -> 0 .. MaxRev]
  /\ todo \in Seq(Readings) /\ failed \in Seq(Readings)
  /\ batch \subseteq Readings
  /\ log \in Seq(Entries) /\ late \in Seq(Readings)
  /\ owed \subseteq Readings /\ lost \subseteq Readings
  /\ faults \in 0 .. MaxFaults

ConsumerTypes ==
  /\ committed \in 0 .. Len(log) /\ position \in 0 .. Len(log) /\ handled \in 0 .. position
  /\ dirty \in BOOLEAN
  /\ consumer \in {"poll", "batch", "stop", "down"}
  /\ ledger \in [Keys -> 1 .. MaxRev \union {None}]
  /\ missed \subseteq 1 .. Len(log)

Replaying == bridge = "replay"

ReplayFromFile == Replaying => Elements(todo) \union Elements(failed) \subseteq Elements(spool)

ReplayCovers == Replaying => Elements(spool) \intersect Readings
                               \subseteq Elements(log) \union Elements(todo) \union Elements(failed)

NothingInHand == bridge \notin {"replay", "publish"} => failed = <<>>

KeptInFile == \A r \in owed : \/ r \in Elements(log) \union Elements(spool) \union lost
                              \/ bridge = "publish" /\ r \in Elements(failed)

Inv == /\ BridgeTypes /\ ConsumerTypes
       /\ ReplayFromFile /\ ReplayCovers /\ NothingInHand /\ KeptInFile

LEMMA TypesAre == TypeOK <=> BridgeTypes /\ ConsumerTypes
BY DEF TypeOK, BridgeTypes, ConsumerTypes, Lines, Entries

LEMMA ReadingFields ==
  ASSUME NEW r \in Readings
  PROVE  r.key \in Keys /\ r.rev \in 1 .. MaxRev /\ r.rev \in 0 .. MaxRev
BY PlantAssumption DEF Readings

LEMMA FaultType ==
  ASSUME BridgeTypes, NEW kind, Fault(kind)
  PROVE  faults' \in 0 .. MaxFaults
BY PlantAssumption DEF BridgeTypes, Fault

(***************************************************************************)
(* The topic only grows.                                                   *)
(***************************************************************************)
LEMMA LogGrows ==
  ASSUME NEW s \in Seq(Entries), NEW e \in Entries
  PROVE  /\ Append(s, e) \in Seq(Entries) /\ Extend(s, e) \in Seq(Entries)
         /\ Len(s) <= Len(Append(s, e)) /\ Len(s) <= Len(Extend(s, e))
         /\ Elements(Append(s, e)) = Elements(s) \union {e}
         /\ Elements(Extend(s, e)) = Elements(s) \union {e}
<1>1. /\ Append(s, e) \in Seq(Entries) /\ Len(Append(s, e)) = Len(s) + 1 /\ Len(s) \in Nat
      /\ Elements(Append(s, e)) = Elements(s) \union {e}
  BY AppendProperties, LenProperties, ElementsAppend
<1>2. CASE s # <<>> /\ LastOf(s) = e
  <2>1. Len(s) \in 1 .. Len(s)
    BY <1>2, EmptySeq
  <2>2. e \in Elements(s)
    BY <1>2, <2>1, ElementsOf DEF LastOf
  <2> QED
    BY <1>1, <1>2, <2>2 DEF Extend
<1>3. CASE ~(s # <<>> /\ LastOf(s) = e)
  BY <1>1, <1>3 DEF Extend
<1> QED
  BY <1>2, <1>3

LEMMA ConsumerWaits ==
  ASSUME ConsumerTypes, BridgeTypes, UNCHANGED consumerVars,
         log' \in Seq(Entries), Len(log) <= Len(log')
  PROVE  ConsumerTypes'
<1>1. Len(log) \in Nat /\ Len(log') \in Nat
  BY LenProperties DEF BridgeTypes
<1> QED
  BY <1>1 DEF ConsumerTypes, consumerVars

LEMMA SendOutcome ==
  ASSUME BridgeTypes, NEW r \in Readings, Acknowledged(r) \/ GivenUp(r)
  PROVE  /\ log' \in Seq(Entries) /\ Len(log) <= Len(log') /\ Elements(log) \subseteq Elements(log')
         /\ late' \in Seq(Readings) /\ faults' \in 0 .. MaxFaults
         /\ Acknowledged(r) => r \in Elements(log')
<1>1. r \in Entries /\ log \in Seq(Entries) /\ Len(log) \in Nat
  BY LenProperties DEF Entries, BridgeTypes
<1>2. CASE Acknowledged(r)
  <2>1. log' = Extend(log, r) /\ UNCHANGED <<late, faults>>
    BY <1>2 DEF Acknowledged
  <2> QED
    BY <1>1, <2>1, LogGrows DEF BridgeTypes
<1>3. CASE GivenUp(r) /\ ~Acknowledged(r)
  <2>1. log' = log /\ faults' \in 0 .. MaxFaults /\ late' \in {late, Append(late, r)}
    BY <1>3, FaultType DEF GivenUp
  <2>2. Append(late, r) \in Seq(Readings)
    BY ElementsAppend DEF BridgeTypes
  <2>3. late' \in Seq(Readings)
    BY <2>1, <2>2 DEF BridgeTypes
  <2>4. Len(log) <= Len(log') /\ Elements(log) \subseteq Elements(log')
    BY <1>1, <2>1
  <2> QED
    BY <1>1, <1>3, <2>1, <2>3, <2>4
<1> QED
  BY <1>2, <1>3

(***************************************************************************)
(* What the spool file may hold.                                           *)
(***************************************************************************)
LEMMA LinesAre ==
  /\ Torn \in Lines /\ Corrupt \in Lines /\ Readings \subseteq Lines
  /\ \A s \in Seq(Readings) : s \in Seq(Lines)
<1>1. Readings \subseteq Lines
  BY DEF Lines
<1> QED
  BY <1>1, Widen DEF Lines

LEMMA WrittenType ==
  ASSUME NEW lines \in Seq(Lines), NEW records \in Seq(Lines)
  PROVE  Written(lines, records) \in Seq(Lines)
<1>1. CASE records # <<>> /\ lines # <<>> /\ LastOf(lines) = Torn
  <2>1. Len(lines) \in 1 .. Len(lines)
    BY <1>1, EmptySeq
  <2>2. [lines EXCEPT ![Len(lines)] = Corrupt] \in Seq(Lines)
    BY <2>1, LinesAre, ExceptSeq
  <2>3. Tail(records) \in Seq(Lines)
    BY <1>1, HeadTailProperties
  <2> QED
    BY <1>1, <2>2, <2>3, ConcatProperties DEF Written
<1>2. CASE ~(records # <<>> /\ lines # <<>> /\ LastOf(lines) = Torn)
  BY <1>2, ConcatProperties DEF Written
<1> QED
  BY <1>1, <1>2

LEMMA CutType ==
  ASSUME NEW lines \in Seq(Lines), NEW records \in Seq(Lines)
  PROVE  Cut(lines, records) \subseteq Seq(Lines)
<1> SUFFICES ASSUME NEW k \in 0 .. Len(records)
             PROVE  LET whole == Written(lines, SubSeq(records, 1, k)) IN
                    whole \in Seq(Lines) /\ Fragment(whole) \in Seq(Lines)
  BY DEF Cut
<1> DEFINE whole == Written(lines, SubSeq(records, 1, k))
<1>1. whole \in Seq(Lines)
  <2>1. Len(records) \in Nat /\ \A i \in 1 .. Len(records) : records[i] \in Lines
    BY LenProperties, ElementOfSeq
  <2>2. k \in Int /\ \A i \in 1 .. k : records[i] \in Lines
    BY <2>1
  <2>3. SubSeq(records, 1, k) \in Seq(Lines)
    BY <2>2, SubSeqProperties
  <2> QED
    BY <2>3, WrittenType
<1> HIDE DEF whole
<1>2. Fragment(whole) \in Seq(Lines)
  BY <1>1, LinesAre, ElementsAppend DEF Fragment
<1> QED
  BY <1>1, <1>2 DEF whole

LEMMA NewestType ==
  ASSUME NEW lines \in Seq(Lines), Len(lines) > SpoolMax
  PROVE  Newest(lines) \in Seq(Lines)
<1>1. /\ Len(lines) \in Nat /\ SpoolMax \in Nat
      /\ \A i \in 1 .. Len(lines) : lines[i] \in Lines
  BY PlantAssumption, LenProperties, ElementOfSeq
<1>2. /\ Len(lines) - SpoolMax + 1 \in Int /\ Len(lines) \in Int
      /\ \A i \in Len(lines) - SpoolMax + 1 .. Len(lines) : lines[i] \in Lines
  BY <1>1
<1> QED
  BY <1>2, SubSeqProperties DEF Newest

LEMMA FileTypes ==
  ASSUME BridgeTypes
  PROVE  /\ Trimmed \in Seq(Lines)
         /\ CutAppend \subseteq Seq(Lines) /\ CutReplace \subseteq Seq(Lines)
<1>1. spool \in Seq(Lines) /\ failed \in Seq(Lines) /\ <<>> \in Seq(Lines)
  BY LinesAre, ElementsEmpty DEF BridgeTypes
<1>2. Appended \in Seq(Lines)
  BY <1>1, WrittenType DEF Appended
<1>3. Len(Appended) > SpoolMax => Newest(Appended) \in Seq(Lines)
  BY <1>2, NewestType
<1>4. /\ Cut(spool, failed) \subseteq Seq(Lines) /\ Cut(<<>>, failed) \subseteq Seq(Lines)
      /\ Len(Appended) > SpoolMax => Cut(<<>>, Newest(Appended)) \subseteq Seq(Lines)
  BY <1>1, <1>3, CutType
<1> QED
  BY <1>1, <1>2, <1>3, <1>4 DEF Trimmed, CutAppend, CutReplace

(***************************************************************************)
(* Among the drops of a plant one is read first, however the files are     *)
(* named and whatever windows they hold: a finite set has it.              *)
(***************************************************************************)
Precedes(f, g) == \/ drops[f].key[2] > drops[g].key[2]
                  \/ drops[f].key[2] = drops[g].key[2] /\ f <= g

LEMMA SmallestSubset ==
  ASSUME NEW S, NEW Bad, Bad \subseteq FiniteSubsetsOf(S), Bad # {}
  PROVE  \E U \in Bad : \A V \in Bad : V \subseteq U => V = U
<1>1. PICK U \in Bad : \A V \in Bad : <<V, U>> \notin StrictSubsetOrdering(S)
  BY FS_StrictSubsetOrderingWellFounded, WFMin
<1>2. ASSUME NEW V \in Bad, V \subseteq U, V # U
      PROVE  FALSE
  <2>1. V \in SUBSET S /\ U \in SUBSET S
    BY DEF FiniteSubsetsOf
  <2> QED
    BY <1>1, <1>2, <2>1 DEF StrictSubsetOrdering
<1> QED
  BY <1>2

LEMMA SomeIsFirst ==
  ASSUME BridgeTypes, NEW D \in SUBSET Files, D # {}, \A f \in D : drops[f] \in Readings
  PROVE  \E f \in D : \A g \in D : Precedes(f, g)
<1> DEFINE First(S) == \E f \in S : \A g \in S : Precedes(f, g)
           Bad == {S \in SUBSET D : S # {} /\ ~First(S)}
<1>1. \A f \in D : f \in Nat /\ drops[f].key[2] \in Nat
  <2>1. \A f \in D : drops[f].key \in Keys /\ f \in Nat
    BY ReadingFields, PlantAssumption
  <2> QED
    BY <2>1, PlantAssumption DEF Keys
<1>2. IsFiniteSet(D)
  BY FS_Subset, PlantAssumption
<1> SUFFICES ASSUME Bad # {} PROVE FALSE
  OBVIOUS
<1>3. PICK S \in Bad : \A T \in Bad : T \subseteq S => T = S
  <2>1. Bad \subseteq FiniteSubsetsOf(D)
    BY <1>2, FS_Subset DEF FiniteSubsetsOf
  <2> HIDE DEF Bad
  <2> QED
    BY <2>1, SmallestSubset
<1>4. S \subseteq D /\ S # {} /\ ~First(S)
  OBVIOUS
<1>5. PICK x \in S : TRUE
  BY <1>4
<1>6. Precedes(x, x)
  BY <1>1, <1>4 DEF Precedes
<1>7. CASE S = {x}
  BY <1>4, <1>6, <1>7
<1>8. CASE S # {x}
  <2>1. S \ {x} \in SUBSET D /\ S \ {x} # {} /\ S \ {x} # S /\ S \ {x} \subseteq S
    BY <1>4, <1>5, <1>8
  <2>2. First(S \ {x})
    <3>1. S \ {x} \notin Bad
      BY <1>3, <2>1
    <3> QED
      BY <2>1, <3>1
  <2>3. PICK y \in S \ {x} : \A g \in S \ {x} : Precedes(y, g)
    BY <2>2
  <2>4. CASE Precedes(y, x)
    BY <1>4, <2>3, <2>4
  <2>5. CASE ~Precedes(y, x)
    <3>1. \A g \in S \ {x} : Precedes(x, g)
      BY <1>1, <1>4, <2>3, <2>5 DEF Precedes
    <3> QED
      BY <1>4, <1>6, <3>1
  <2> QED
    BY <2>4, <2>5
<1> QED
  BY <1>7, <1>8

LEMMA FetchedType ==
  ASSUME BridgeTypes, NEW seen \in SUBSET Files
  PROVE  Fetched(seen) \subseteq Readings
<1> SUFFICES ASSUME NEW p \in Plants, DropsOf(p, seen) # {}
             PROVE  drops[ReadFirst(DropsOf(p, seen))] \in Readings
  BY DEF Fetched
<1> DEFINE D == DropsOf(p, seen)
<1>1. D \in SUBSET Files /\ D # {} /\ \A f \in D : drops[f] \in Readings
  BY DEF DropsOf, BridgeTypes
<1> HIDE DEF D
<1>2. \E f \in D : \A g \in D : Precedes(f, g)
  BY <1>1, SomeIsFirst
<1>3. ReadFirst(D) \in D
  BY <1>2 DEF ReadFirst, Precedes
<1> QED
  BY <1>1, <1>3 DEF D

-----------------------------------------------------------------------------
(***************************************************************************)
(* The steps of the AS400, the broker and the consumer.                    *)
(***************************************************************************)
LEMMA Initially == Init => Inv
<1> SUFFICES ASSUME Init PROVE Inv
  OBVIOUS
<1>1. (\A S : <<>> \in Seq(S)) /\ Len(<<>>) = 0 /\ 0 \in 0 .. MaxRev /\ 0 \in 0 .. MaxFaults
  BY ElementsEmpty, PlantAssumption
<1>2. BridgeTypes
  BY <1>1 DEF Init, BridgeTypes
<1>3. ConsumerTypes
  <2>1. 0 \in 0 .. Len(log)
    BY <1>1 DEF Init
  <2>2. /\ committed = 0 /\ position = 0 /\ handled = 0 /\ dirty = FALSE /\ consumer = "poll"
        /\ ledger \in [Keys -> 1 .. MaxRev \union {None}] /\ missed = {}
    BY DEF Init
  <2>3. handled \in 0 .. position
    BY <2>2
  <2> QED
    BY <2>1, <2>2, <2>3 DEF ConsumerTypes
<1> QED
  BY <1>2, <1>3 DEF Init, Inv, Replaying, ReplayFromFile, ReplayCovers, NothingInHand, KeptInFile

\* The rest of the invariant looks at nothing but these variables, and the topic only grows.
LEMMA TopicGrows ==
  ASSUME Inv, UNCHANGED <<spool, bridge, todo, failed, owed, lost>>,
         Elements(log) \subseteq Elements(log')
  PROVE  ReplayFromFile' /\ ReplayCovers' /\ NothingInHand' /\ KeptInFile'
BY DEF Inv, Replaying, ReplayFromFile, ReplayCovers, NothingInHand, KeptInFile

LEMMA DropStep ==
  ASSUME Inv, Drop
  PROVE  Inv'
<1>1. PICK f \in Files, k \in Keys :
        /\ written[k] < MaxRev
        /\ written' = [written EXCEPT ![k] = written[k] + 1]
        /\ drops' = [drops EXCEPT ![f] = [key |-> k, rev |-> written[k] + 1]]
  BY DEF Drop
<1>2. UNCHANGED <<bridgeVars, brokerVars, consumerVars, owed, lost, faults>>
  BY DEF Drop
<1>3. written[k] + 1 \in 1 .. MaxRev /\ written[k] + 1 \in 0 .. MaxRev
  BY <1>1, PlantAssumption DEF Inv, BridgeTypes
<1>4. [key |-> k, rev |-> written[k] + 1] \in Readings
  BY <1>3 DEF Readings
<1>5. BridgeTypes'
  BY <1>1, <1>2, <1>3, <1>4 DEF Inv, BridgeTypes, bridgeVars, brokerVars
<1>6. ConsumerTypes'
  BY <1>2 DEF Inv, ConsumerTypes, consumerVars, brokerVars
<1> QED
  BY <1>2, <1>5, <1>6, TopicGrows DEF Inv, bridgeVars, brokerVars

LEMMA BrokerStep ==
  ASSUME Inv, AppendForeign \/ LateCopy
  PROVE  Inv'
<1>1. /\ UNCHANGED <<sourceVars, bridgeVars, consumerVars, owed, lost>>
      /\ faults' \in 0 .. MaxFaults
  BY FaultType DEF AppendForeign, LateCopy, Inv, BridgeTypes
<1>2. /\ late' \in Seq(Readings)
      /\ \/ log' = log
         \/ \E e \in Entries : log' = Append(log, e) \/ log' = Extend(log, e)
  <2>1. CASE AppendForeign
    BY <2>1 DEF AppendForeign, Entries, Inv, BridgeTypes
  <2>2. CASE LateCopy
    <3>1. /\ late # <<>> /\ late' = Tail(late)
          /\ log' = log \/ log' = Extend(log, Head(late))
      BY <2>2 DEF LateCopy
    <3>2. Head(late) \in Readings /\ Tail(late) \in Seq(Readings)
      BY <3>1, ElementsTail DEF Inv, BridgeTypes
    <3> QED
      BY <3>1, <3>2 DEF Entries
  <2> QED
    BY <2>1, <2>2
<1>3. log' \in Seq(Entries) /\ Len(log) <= Len(log') /\ Elements(log) \subseteq Elements(log')
  <2>1. log \in Seq(Entries) /\ Len(log) \in Nat
    BY LenProperties DEF Inv, BridgeTypes
  <2>2. CASE log' = log
    BY <2>1, <2>2
  <2>3. ASSUME NEW e \in Entries, log' = Append(log, e) \/ log' = Extend(log, e)
        PROVE  log' \in Seq(Entries) /\ Len(log) <= Len(log') /\ Elements(log) \subseteq Elements(log')
    BY <2>1, <2>3, LogGrows
  <2> QED
    BY <1>2, <2>2, <2>3
<1>4. BridgeTypes'
  BY <1>1, <1>2, <1>3 DEF Inv, BridgeTypes, sourceVars, bridgeVars
<1>5. ConsumerTypes'
  BY <1>1, <1>3, ConsumerWaits DEF Inv
<1> QED
  BY <1>1, <1>3, <1>4, <1>5, TopicGrows DEF Inv, bridgeVars

LEMMA ConsumerStep ==
  ASSUME Inv, Consumer \/ ConsumerCrashes
  PROVE  Inv'
<1>1. UNCHANGED <<sourceVars, bridgeVars, brokerVars, owed, lost>>
  BY DEF Consumer, ConsumerCrashes, Poll, Accept, Reject, AbortOnNull, WriteFails, FinishBatch,
         CommitFails, Shutdown, ConsumerRestarts
<1>2. faults' \in 0 .. MaxFaults
  <2>1. \/ UNCHANGED faults
        \/ \E kind \in {"db", "commit", "consumer"} : Fault(kind)
    BY DEF Consumer, ConsumerCrashes, Poll, Accept, Reject, AbortOnNull, WriteFails, FinishBatch,
           CommitFails, Shutdown, ConsumerRestarts
  <2> QED
    BY <2>1, FaultType DEF Inv, BridgeTypes
<1>3. BridgeTypes'
  BY <1>1, <1>2 DEF Inv, BridgeTypes, sourceVars, bridgeVars, brokerVars
<1>4. Len(log) \in Nat
  BY LenProperties DEF Inv, BridgeTypes
<1>5. ConsumerTypes'
  <2>1. CASE Poll
    BY <1>1, <1>4, <2>1 DEF Poll, Inv, ConsumerTypes, brokerVars
  <2>2. CASE Accept \/ WriteFails
    <3>1. Turn /\ Entry \in Readings
      BY <2>2 DEF Accept, WriteFails
    <3>2. Entry.key \in Keys /\ Entry.rev \in 1 .. MaxRev
      BY <3>1, ReadingFields
    <3>3. handled + 1 \in 0 .. position /\ handled + 1 \in 1 .. Len(log)
      BY <1>4, <3>1 DEF Turn, Inv, ConsumerTypes
    <3>4. [ledger EXCEPT ![Entry.key] = Entry.rev] \in [Keys -> 1 .. MaxRev \union {None}]
      BY <3>2 DEF Inv, ConsumerTypes
    <3>5. /\ handled' = handled + 1 /\ log' = log
          /\ UNCHANGED <<committed, position, consumer>>
          /\ ledger' = ledger \/ ledger' = [ledger EXCEPT ![Entry.key] = Entry.rev]
          /\ missed' = missed \/ missed' = missed \union {handled + 1}
          /\ dirty' \in {dirty, TRUE}
      BY <1>1, <2>2 DEF Accept, WriteFails, brokerVars
    <3> QED
      BY <3>3, <3>4, <3>5 DEF Inv, ConsumerTypes
  <2>3. CASE Reject
    BY <1>1, <1>4, <2>3 DEF Reject, Turn, Inv, ConsumerTypes, brokerVars
  <2>4. CASE AbortOnNull
    BY <1>1, <1>4, <2>4 DEF AbortOnNull, Turn, Inv, ConsumerTypes, brokerVars
  <2>5. CASE FinishBatch
    BY <1>1, <1>4, <2>5 DEF FinishBatch, Inv, ConsumerTypes, brokerVars
  <2>6. CASE CommitFails
    BY <1>1, <1>4, <2>6 DEF CommitFails, Inv, ConsumerTypes, brokerVars
  <2>7. CASE Shutdown
    BY <1>1, <1>4, <2>7 DEF Shutdown, Inv, ConsumerTypes, brokerVars
  <2>8. CASE ConsumerRestarts
    <3>1. /\ position' = committed /\ handled' = committed /\ dirty' = FALSE /\ consumer' = "poll"
          /\ UNCHANGED <<log, committed, ledger, missed>>
      BY <1>1, <2>8 DEF ConsumerRestarts, brokerVars
    <3>2. committed \in 0 .. Len(log) /\ committed \in 0 .. committed
      BY <1>4 DEF Inv, ConsumerTypes
    <3> QED
      BY <3>1, <3>2 DEF Inv, ConsumerTypes
  <2>9. CASE ConsumerCrashes
    BY <1>1, <1>4, <2>9 DEF ConsumerCrashes, Inv, ConsumerTypes, brokerVars
  <2> QED
    BY <2>1, <2>2, <2>3, <2>4, <2>5, <2>6, <2>7, <2>8, <2>9 DEF Consumer
<1> QED
  BY <1>1, <1>3, <1>5, TopicGrows DEF Inv, bridgeVars, brokerVars

-----------------------------------------------------------------------------
(***************************************************************************)
(* The steps of the bridge.                                                *)
(***************************************************************************)
LEMMA CycleStep ==
  ASSUME Inv, StartCycle \/ Fetch \/ BridgeRestarts
  PROVE  Inv'
<1>1. Load \in Seq(Readings) /\ Elements(Load) = Elements(spool) \intersect Readings
  BY LoadReadings DEF Inv, BridgeTypes
<1>2. /\ UNCHANGED <<sourceVars, spool, lastHash, failed, brokerVars, consumerVars, owed, lost>>
      /\ bridge \in {"idle", "fetch", "down"} /\ failed = <<>>
      /\ \/ bridge' = "replay" /\ todo' = Load
         \/ bridge' \in {"idle", "fetch", "publish"} /\ todo' = todo
  BY DEF StartCycle, Fetch, BridgeRestarts, Inv, NothingInHand
<1>3. faults' \in 0 .. MaxFaults
  BY FaultType DEF StartCycle, Fetch, BridgeRestarts, Inv, BridgeTypes
<1>4. batch' \subseteq Readings
  <2>1. CASE Fetch
    <3>1. \A seen \in SUBSET Files : Fetched(seen) \subseteq Readings
      BY FetchedType DEF Inv
    <3>2. batch' = batch \/ \E seen \in SUBSET Files : batch' = Fetched(seen)
      BY <2>1 DEF Fetch
    <3> QED
      BY <3>1, <3>2 DEF Inv, BridgeTypes
  <2>2. CASE StartCycle \/ BridgeRestarts
    BY <2>2 DEF StartCycle, BridgeRestarts, Inv, BridgeTypes
  <2> QED
    BY <2>1, <2>2
<1>5. BridgeTypes'
  BY <1>1, <1>2, <1>3, <1>4 DEF Inv, BridgeTypes, sourceVars, brokerVars
<1>6. ConsumerTypes'
  BY <1>2 DEF Inv, ConsumerTypes, consumerVars, brokerVars
<1>7. ReplayFromFile' /\ ReplayCovers'
  BY <1>1, <1>2, ElementsEmpty DEF ReplayFromFile, ReplayCovers, Replaying, brokerVars
<1>8. NothingInHand' /\ KeptInFile'
  BY <1>2 DEF NothingInHand, KeptInFile, Inv, brokerVars
<1> QED
  BY <1>5, <1>6, <1>7, <1>8 DEF Inv

LEMMA ReplayOneStep ==
  ASSUME Inv, ReplayOne
  PROVE  Inv'
<1>1. PICK h \in Readings : /\ h = Head(todo) /\ Tail(todo) \in Seq(Readings)
                            /\ Elements(todo) = {h} \union Elements(Tail(todo))
  BY ElementsTail DEF ReplayOne, Inv, BridgeTypes
<1>2. /\ Replaying /\ todo' = Tail(todo)
      /\ \/ Acknowledged(h) /\ Remember(h) /\ UNCHANGED failed
         \/ GivenUp(h) /\ failed' = Append(failed, h) /\ UNCHANGED lastHash
      /\ UNCHANGED <<sourceVars, bridge, spool, batch, consumerVars, owed, lost>>
  BY <1>1 DEF ReplayOne, Replaying
<1>3. /\ log' \in Seq(Entries) /\ Len(log) <= Len(log') /\ Elements(log) \subseteq Elements(log')
      /\ late' \in Seq(Readings) /\ faults' \in 0 .. MaxFaults
      /\ Acknowledged(h) => h \in Elements(log')
  BY <1>2, SendOutcome DEF Inv
<1>4. /\ Append(failed, h) \in Seq(Readings)
      /\ Elements(Append(failed, h)) = Elements(failed) \union {h}
  BY ElementsAppend DEF Inv, BridgeTypes
<1>5. lastHash' \in [Keys -> 0 .. MaxRev]
  BY <1>2, ReadingFields DEF Remember, Inv, BridgeTypes
<1>6. /\ failed' \in Seq(Readings)
      /\ \/ Elements(failed') = Elements(failed) /\ h \in Elements(log')
         \/ Elements(failed') = Elements(failed) \union {h}
  BY <1>2, <1>3, <1>4 DEF Inv, BridgeTypes
<1>7. BridgeTypes'
  BY <1>1, <1>2, <1>3, <1>5, <1>6 DEF Inv, BridgeTypes, sourceVars
<1>8. ConsumerTypes'
  BY <1>2, <1>3, ConsumerWaits DEF Inv
<1>9. ReplayFromFile'
  BY <1>1, <1>2, <1>6 DEF Inv, ReplayFromFile, Replaying
<1>10. ReplayCovers'
  BY <1>1, <1>2, <1>3, <1>6 DEF Inv, ReplayCovers, Replaying
<1>11. NothingInHand' /\ KeptInFile'
  BY <1>2, <1>3 DEF Inv, NothingInHand, KeptInFile, Replaying
<1> QED
  BY <1>7, <1>8, <1>9, <1>10, <1>11 DEF Inv

\* Rewriting the file after a replay, however far it gets: what it held is on the topic, or
\* in the file again, or counted as lost.
LEMMA Replaced ==
  ASSUME Inv, Replaying, todo = <<>>, UNCHANGED <<log, owed>>,
         \/ spool' = failed /\ UNCHANGED lost
         \/ \E lines \in CutReplace : Spools(lines, Elements(failed))
  PROVE  /\ spool' \in Seq(Lines) /\ lost' \subseteq Readings
         /\ \A r \in owed : r \in Elements(log') \union Elements(spool') \union lost'
<1>1. spool' \in Seq(Lines) /\ lost' \subseteq Readings
  <2>1. failed \in Seq(Lines) /\ CutReplace \subseteq Seq(Lines)
    BY FileTypes, LinesAre DEF Inv, BridgeTypes
  <2> QED
    BY <2>1 DEF Spools, Inv, BridgeTypes
<1>2. lost \subseteq lost' /\ Elements(failed) \intersect Readings \subseteq Elements(spool') \union lost'
  BY DEF Spools
<1>3. Elements(spool) \intersect Readings \subseteq Elements(log) \union Elements(failed)
  BY ElementsEmpty DEF Inv, ReplayCovers
<1>4. \A r \in owed : r \in Readings /\ r \in Elements(log) \union Elements(spool) \union lost
  BY DEF Inv, BridgeTypes, KeptInFile, Replaying
<1> QED
  BY <1>1, <1>2, <1>3, <1>4

\* Appending to the file, and trimming it, likewise.
LEMMA AppendedOrLost ==
  ASSUME Inv, bridge = "publish", UNCHANGED <<log, owed>>,
         NEW lines \in Seq(Lines), Spools(lines, Elements(spool) \union Elements(failed))
  PROVE  /\ spool' \in Seq(Lines) /\ lost' \subseteq Readings
         /\ \A r \in owed : r \in Elements(log') \union Elements(spool') \union lost'
<1>1. owed \subseteq Readings
  BY DEF Inv, BridgeTypes
<1> QED
  BY <1>1 DEF Spools, Inv, BridgeTypes, KeptInFile

LEMMA FinishReplayStep ==
  ASSUME Inv, FinishReplay
  PROVE  Inv'
<1>1. /\ Replaying /\ todo = <<>> /\ failed' = <<>> /\ bridge' = "fetch"
      /\ UNCHANGED <<sourceVars, lastHash, todo, batch, brokerVars, consumerVars, owed>>
      /\ \/ spool' = failed /\ UNCHANGED lost
         \/ \E lines \in CutReplace : Spools(lines, Elements(failed))
  BY DEF FinishReplay, Replaying
<1>2. faults' \in 0 .. MaxFaults
  BY FaultType DEF FinishReplay, Inv, BridgeTypes
<1>3. /\ spool' \in Seq(Lines) /\ lost' \subseteq Readings
      /\ \A r \in owed : r \in Elements(log') \union Elements(spool') \union lost'
  BY <1>1, Replaced DEF brokerVars
<1>4. BridgeTypes'
  BY <1>1, <1>2, <1>3, ElementsEmpty DEF Inv, BridgeTypes, sourceVars, brokerVars
<1>5. ConsumerTypes'
  BY <1>1 DEF Inv, ConsumerTypes, consumerVars, brokerVars
<1>6. ReplayFromFile' /\ ReplayCovers' /\ NothingInHand' /\ KeptInFile'
  BY <1>1, <1>3 DEF ReplayFromFile, ReplayCovers, Replaying, NothingInHand, KeptInFile
<1> QED
  BY <1>4, <1>5, <1>6 DEF Inv

LEMMA PublishOneStep ==
  ASSUME Inv, PublishOne
  PROVE  Inv'
<1>1. PICK r \in batch :
        /\ batch' = batch \ {r}
        /\ \/ UNCHANGED <<brokerVars, lastHash, failed, owed, faults>>
           \/ Acknowledged(r) /\ Remember(r) /\ UNCHANGED <<failed, owed>>
           \/ /\ GivenUp(r) /\ failed' = Append(failed, r)
              /\ owed' = owed \union {r} /\ UNCHANGED lastHash
  BY DEF PublishOne
<1>2. bridge = "publish" /\ UNCHANGED <<sourceVars, bridge, spool, todo, consumerVars, lost>>
  BY DEF PublishOne
<1>3. r \in Readings
  BY DEF Inv, BridgeTypes
<1>4. /\ log' \in Seq(Entries) /\ Len(log) <= Len(log') /\ Elements(log) \subseteq Elements(log')
      /\ late' \in Seq(Readings) /\ faults' \in 0 .. MaxFaults
  <2>1. CASE UNCHANGED <<brokerVars, faults>>
    <3>1. Len(log) \in Nat
      BY LenProperties DEF Inv, BridgeTypes
    <3> QED
      BY <2>1, <3>1 DEF Inv, BridgeTypes, brokerVars
  <2>2. CASE Acknowledged(r) \/ GivenUp(r)
    BY <1>3, <2>2, SendOutcome DEF Inv
  <2> QED
    BY <1>1, <2>1, <2>2
<1>5. /\ Append(failed, r) \in Seq(Readings)
      /\ Elements(Append(failed, r)) = Elements(failed) \union {r}
  BY <1>3, ElementsAppend DEF Inv, BridgeTypes
<1>6. lastHash' \in [Keys -> 0 .. MaxRev]
  BY <1>1, <1>3, ReadingFields DEF Remember, Inv, BridgeTypes
<1>7. /\ failed' \in Seq(Readings) /\ owed' \subseteq Readings
      /\ Elements(failed) \subseteq Elements(failed')
      /\ owed' \subseteq owed \union Elements(failed')
  BY <1>1, <1>3, <1>5 DEF Inv, BridgeTypes
<1>8. BridgeTypes'
  BY <1>1, <1>2, <1>4, <1>6, <1>7 DEF Inv, BridgeTypes, sourceVars
<1>9. ConsumerTypes'
  BY <1>2, <1>4, ConsumerWaits DEF Inv
<1>10. ReplayFromFile' /\ ReplayCovers' /\ NothingInHand'
  BY <1>2 DEF ReplayFromFile, ReplayCovers, NothingInHand, Replaying
<1>11. KeptInFile'
  BY <1>2, <1>4, <1>7 DEF Inv, KeptInFile
<1> QED
  BY <1>8, <1>9, <1>10, <1>11 DEF Inv

LEMMA FinishPublishStep ==
  ASSUME Inv, FinishPublish
  PROVE  Inv'
<1>1. /\ bridge = "publish" /\ failed' = <<>> /\ bridge' = "idle"
      /\ UNCHANGED <<sourceVars, lastHash, todo, batch, brokerVars, consumerVars, owed>>
      /\ \/ failed = <<>> /\ UNCHANGED <<spool, lost>>
         \/ \E lines \in {Trimmed} \union CutAppend :
              Spools(lines, Elements(spool) \union Elements(failed))
  BY DEF FinishPublish
<1>2. faults' \in 0 .. MaxFaults
  BY FaultType DEF FinishPublish, Inv, BridgeTypes
<1>3. /\ spool' \in Seq(Lines) /\ lost' \subseteq Readings
      /\ \A r \in owed : r \in Elements(log') \union Elements(spool') \union lost'
  <2>1. CASE failed = <<>> /\ UNCHANGED <<spool, lost>>
    BY <1>1, <2>1, ElementsEmpty DEF Inv, BridgeTypes, KeptInFile, brokerVars
  <2>2. ASSUME NEW lines \in {Trimmed} \union CutAppend,
               Spools(lines, Elements(spool) \union Elements(failed))
        PROVE  /\ spool' \in Seq(Lines) /\ lost' \subseteq Readings
               /\ \A r \in owed : r \in Elements(log') \union Elements(spool') \union lost'
    <3>1. lines \in Seq(Lines)
      BY FileTypes DEF Inv
    <3> QED
      BY <1>1, <2>2, <3>1, AppendedOrLost DEF brokerVars
  <2> QED
    BY <1>1, <2>1, <2>2
<1>4. BridgeTypes'
  BY <1>1, <1>2, <1>3, ElementsEmpty DEF Inv, BridgeTypes, sourceVars, brokerVars
<1>5. ConsumerTypes'
  BY <1>1 DEF Inv, ConsumerTypes, consumerVars, brokerVars
<1>6. ReplayFromFile' /\ ReplayCovers' /\ NothingInHand' /\ KeptInFile'
  BY <1>1, <1>3 DEF ReplayFromFile, ReplayCovers, Replaying, NothingInHand, KeptInFile
<1> QED
  BY <1>4, <1>5, <1>6 DEF Inv

LEMMA CrashStep ==
  ASSUME Inv, BridgeCrashes
  PROVE  Inv'
<1>1. /\ BridgeEnds /\ UNCHANGED <<sourceVars, log, consumerVars, owed>>
      /\ \/ /\ lost' = IF bridge = "publish" THEN lost \union Elements(failed) ELSE lost
            /\ UNCHANGED spool
         \/ /\ Replaying /\ todo = <<>>
            /\ \E lines \in CutReplace : Spools(lines, Elements(failed))
         \/ /\ bridge = "publish"
            /\ \E lines \in CutAppend : Spools(lines, Elements(spool) \union Elements(failed))
  BY DEF BridgeCrashes, Replaying
<1>2. faults' \in 0 .. MaxFaults
  BY FaultType DEF BridgeCrashes, Inv
<1>3. /\ spool' \in Seq(Lines) /\ lost' \subseteq Readings
      /\ \A r \in owed : r \in Elements(log') \union Elements(spool') \union lost'
  <2>1. CASE /\ lost' = IF bridge = "publish" THEN lost \union Elements(failed) ELSE lost
             /\ UNCHANGED spool
    <3>1. Elements(failed) \subseteq Readings
      BY ElementsOf DEF Inv, BridgeTypes
    <3> QED
      BY <1>1, <2>1, <3>1 DEF Inv, BridgeTypes, KeptInFile
  <2>2. CASE Replaying /\ todo = <<>> /\ \E lines \in CutReplace : Spools(lines, Elements(failed))
    BY <1>1, <2>2, Replaced
  <2>3. CASE /\ bridge = "publish"
             /\ \E lines \in CutAppend : Spools(lines, Elements(spool) \union Elements(failed))
    <3>1. CutAppend \subseteq Seq(Lines)
      BY FileTypes DEF Inv
    <3> QED
      BY <1>1, <2>3, <3>1, AppendedOrLost
  <2> QED
    BY <1>1, <2>1, <2>2, <2>3
<1>4. BridgeTypes'
  <2>1. (\A S : <<>> \in Seq(S)) /\ 0 \in 0 .. MaxRev
    BY ElementsEmpty, PlantAssumption
  <2> QED
    BY <1>1, <1>2, <1>3, <2>1 DEF BridgeEnds, Inv, BridgeTypes, sourceVars
<1>5. ConsumerTypes'
  BY <1>1 DEF Inv, ConsumerTypes, consumerVars
<1>6. ReplayFromFile' /\ ReplayCovers' /\ NothingInHand' /\ KeptInFile'
  BY <1>1, <1>3 DEF BridgeEnds, ReplayFromFile, ReplayCovers, Replaying, NothingInHand, KeptInFile
<1> QED
  BY <1>4, <1>5, <1>6 DEF Inv

-----------------------------------------------------------------------------
(***************************************************************************)
(* Whatever happens to the AS400, the broker, the disks and the two        *)
(* processes (bridge.py: run_once, _replay_spool, PlantSpool; consumer.py: *)
(* run, _handle), the invariant above holds.                               *)
(***************************************************************************)
THEOREM Invariance == Spec => []Inv
<1>1. Inv /\ [Next]_vars => Inv'
  <2> SUFFICES ASSUME Inv, [Next]_vars PROVE Inv'
    OBVIOUS
  <2>1. CASE Drop
    BY <2>1, DropStep
  <2>2. CASE AppendForeign \/ LateCopy
    BY <2>2, BrokerStep
  <2>3. CASE StartCycle \/ Fetch \/ BridgeRestarts
    BY <2>3, CycleStep
  <2>4. CASE ReplayOne
    BY <2>4, ReplayOneStep
  <2>5. CASE FinishReplay
    BY <2>5, FinishReplayStep
  <2>6. CASE PublishOne
    BY <2>6, PublishOneStep
  <2>7. CASE FinishPublish
    BY <2>7, FinishPublishStep
  <2>8. CASE BridgeCrashes
    BY <2>8, CrashStep
  <2>9. CASE Consumer \/ ConsumerCrashes
    BY <2>9, ConsumerStep
  <2>10. CASE UNCHANGED vars
    <3>1. BridgeTypes' /\ ConsumerTypes'
      BY <2>10 DEF Inv, BridgeTypes, ConsumerTypes, vars, sourceVars, bridgeVars, brokerVars,
                   consumerVars
    <3> QED
      BY <2>10, <3>1, TopicGrows DEF Inv, vars, bridgeVars, brokerVars
  <2> QED
    BY <2>1, <2>2, <2>3, <2>4, <2>5, <2>6, <2>7, <2>8, <2>9, <2>10 DEF Next, Bridge
<1> QED
  BY <1>1, Initially, PTL DEF Spec

(***************************************************************************)
(* Every variable of the bridge, the topic and the consumer keeps its type *)
(* (bridge.py, sources.py: fetch; consumer.py): no cycle hands on a line   *)
(* that does not parse, and offsets never pass the end of the topic.       *)
(***************************************************************************)
THEOREM TypeCorrect == Spec => []TypeOK
<1>1. Inv => TypeOK
  BY TypesAre DEF Inv
<1> QED
  BY <1>1, Invariance, PTL

(***************************************************************************)
(* bridge.py:42, "so a Kafka outage does not lose plant windows": whatever *)
(* write, rewrite or trim of the spool is cut short, a reading the bridge  *)
(* could not publish is on the topic, in the file, about to be written to  *)
(* it, or was counted when it was dropped.                                 *)
(***************************************************************************)
THEOREM Kept == Spec => []GivenUpIsKept
<1>1. Inv => GivenUpIsKept
  BY DEF Inv, KeptInFile, GivenUpIsKept, InMemory
<1> QED
  BY <1>1, Invariance, PTL

-----------------------------------------------------------------------------
(***************************************************************************)
(* Suppression.  A key is owing while a reading of it waits in the file,   *)
(* in the replay's hand or among the failures of a cycle, and for good     *)
(* once one was dropped.  Only an owing key has copies in flight, and of   *)
(* any other the last entry on the topic is the one remembered.            *)
(***************************************************************************)
Pending == Elements(failed) \union IF Replaying THEN Elements(todo)
                                   ELSE Elements(spool) \intersect Readings

Owing(k) == \E r \in Pending \union lost : r.key = k

LastIn(s, k, n) == \E i \in DOMAIN s : /\ s[i].key = k /\ s[i].rev = n
                                       /\ \A j \in DOMAIN s : j > i => s[j].key # k

Settled(k) == LastIn(log, k, lastHash[k]) /\ \A r \in Elements(late) : r.key # k

LateIsOwed == \A r \in Elements(late) : Owing(r.key)

HashJustified == \A k \in Keys : lastHash[k] = 0 \/ Settled(k) \/ Owing(k)

Mirror == LateIsOwed /\ HashJustified

LEMMA LastAppended ==
  ASSUME NEW s \in Seq(Entries), NEW e \in Entries, NEW t, t = Append(s, e) \/ t = Extend(s, e)
  PROVE  /\ t = Extend(s, e) => LastIn(t, e.key, e.rev)
         /\ \A k, n : e.key # k /\ LastIn(s, k, n) => LastIn(t, k, n)
<1>1. /\ Len(s) \in Nat /\ DOMAIN s = 1 .. Len(s)
      /\ Append(s, e) \in Seq(Entries) /\ Len(Append(s, e)) = Len(s) + 1
      /\ \A i \in 1 .. Len(s) : Append(s, e)[i] = s[i]
      /\ Append(s, e)[Len(s) + 1] = e
  BY AppendProperties, LenProperties
<1>2. DOMAIN Append(s, e) = 1 .. Len(s) + 1
  BY <1>1, LenProperties
<1>3. CASE t = s /\ s # <<>> /\ LastOf(s) = e
  <2>1. Len(s) \in 1 .. Len(s) /\ \A j \in 1 .. Len(s) : ~(j > Len(s))
    <3>1. Len(s) # 0
      BY <1>3, EmptySeq
    <3> QED
      BY <1>1, <3>1
  <2>2. LastIn(s, e.key, e.rev)
    BY <1>1, <1>3, <2>1 DEF LastIn, LastOf
  <2> QED
    BY <1>3, <2>2
<1>4. CASE t = Append(s, e)
  <2>1. LastIn(t, e.key, e.rev)
    <3>1. Len(s) + 1 \in 1 .. Len(s) + 1 /\ \A j \in 1 .. Len(s) + 1 : ~(j > Len(s) + 1)
      BY <1>1
    <3> QED
      BY <1>1, <1>2, <1>4, <3>1 DEF LastIn
  <2>2. ASSUME NEW k, NEW n, e.key # k, LastIn(s, k, n)
        PROVE  LastIn(t, k, n)
    <3>1. PICK i \in 1 .. Len(s) : /\ s[i].key = k /\ s[i].rev = n
                                   /\ \A j \in 1 .. Len(s) : j > i => s[j].key # k
      BY <1>1, <2>2 DEF LastIn
    <3>2. i \in 1 .. Len(s) + 1 /\ t[i].key = k /\ t[i].rev = n
      BY <1>1, <1>4, <3>1
    <3>3. ASSUME NEW j \in 1 .. Len(s) + 1, j > i
          PROVE  t[j].key # k
      <4>1. j = Len(s) + 1 \/ j \in 1 .. Len(s)
        BY <1>1
      <4> QED
        BY <1>1, <1>4, <2>2, <3>1, <3>3, <4>1
    <3> QED
      BY <1>2, <1>4, <3>2, <3>3 DEF LastIn
  <2> QED
    BY <2>1, <2>2
<1> QED
  BY <1>3, <1>4 DEF Extend

LEMMA MirrorInitially == Init => Mirror
BY ElementsEmpty DEF Init, Mirror, LateIsOwed, HashJustified

\* Nothing is sent, and no owing key stops owing.
LEMMA MirrorKept ==
  ASSUME Inv, Mirror, UNCHANGED <<brokerVars, lastHash>>, \A k \in Keys : Owing(k) => Owing(k)'
  PROVE  Mirror'
<1>1. \A r \in Elements(late) : r.key \in Keys
  BY ElementsOf, ReadingFields DEF Inv, BridgeTypes
<1>2. \A k \in Keys : Settled(k) => Settled(k)'
  BY DEF Settled, brokerVars
<1> QED
  BY <1>1, <1>2 DEF Mirror, LateIsOwed, HashJustified, brokerVars

LEMMA MirrorElsewhere ==
  ASSUME Inv, Mirror, Drop \/ Consumer \/ ConsumerCrashes \/ UNCHANGED vars
  PROVE  Mirror'
<1>1. UNCHANGED <<bridgeVars, brokerVars, lost>>
  BY DEF Drop, Consumer, ConsumerCrashes, Poll, Accept, Reject, AbortOnNull, WriteFails,
         FinishBatch, CommitFails, Shutdown, ConsumerRestarts, vars
<1>2. \A k \in Keys : Owing(k) => Owing(k)'
  BY <1>1 DEF Owing, Pending, Replaying, bridgeVars
<1> QED
  BY <1>1, <1>2, MirrorKept DEF bridgeVars

LEMMA MirrorBroker ==
  ASSUME Inv, Mirror, AppendForeign \/ LateCopy
  PROVE  Mirror'
<1>1. /\ UNCHANGED <<bridgeVars, lost>>
      /\ \A k \in Keys : Owing(k) <=> Owing(k)'
  <2>1. UNCHANGED <<bridgeVars, lost>>
    BY DEF AppendForeign, LateCopy
  <2> QED
    BY <2>1 DEF Owing, Pending, Replaying, bridgeVars
<1>2. log \in Seq(Entries) /\ \A r \in Elements(late) : r \in Readings /\ r.key \in Keys
  BY ElementsOf, ReadingFields DEF Inv, BridgeTypes
<1>3. PICK e \in Entries :
        /\ log' \in {log, Append(log, e), Extend(log, e)}
        /\ Elements(late') \subseteq Elements(late)
        /\ e.key \in Keys => Owing(e.key)
  <2>1. CASE AppendForeign
    <3>1. PICK e \in {Poison, Null} : log' = Append(log, e) /\ late' = late
      BY <2>1 DEF AppendForeign
    <3>2. e \in Entries /\ e.key \notin Keys
      BY NoneIsNothing DEF Entries, Poison, Null
    <3> QED
      BY <3>1, <3>2
  <2>2. CASE LateCopy
    <3>1. /\ late # <<>> /\ late' = Tail(late)
          /\ log' = log \/ log' = Extend(log, Head(late))
      BY <2>2 DEF LateCopy
    <3>2. Head(late) \in Elements(late) /\ Elements(Tail(late)) \subseteq Elements(late)
      BY <3>1, ElementsTail DEF Inv, BridgeTypes
    <3>3. Head(late) \in Entries /\ Owing(Head(late).key)
      BY <1>2, <3>2 DEF Entries, Mirror, LateIsOwed
    <3> QED
      BY <3>1, <3>2, <3>3
  <2> QED
    BY <2>1, <2>2
<1>4. LateIsOwed'
  BY <1>1, <1>2, <1>3 DEF Mirror, LateIsOwed
<1>5. HashJustified'
  <2> SUFFICES ASSUME NEW k \in Keys, Settled(k), ~Owing(k)
               PROVE  Settled(k)'
    BY <1>1 DEF Mirror, HashJustified, bridgeVars
  <2>1. e.key # k
    BY <1>3
  <2>2. lastHash' = lastHash
    BY <1>1 DEF bridgeVars
  <2>3. LastIn(log', k, lastHash[k])
    BY <1>2, <1>3, <2>1, LastAppended DEF Settled
  <2> QED
    BY <1>3, <2>2, <2>3 DEF Settled
<1> QED
  BY <1>4, <1>5 DEF Mirror

\* A send that is acknowledged settles its key, one that is given up leaves it owing.
LEMMA MirrorSend ==
  ASSUME Inv, Mirror, NEW h \in Readings,
         \/ Acknowledged(h) /\ Remember(h)
         \/ GivenUp(h) /\ UNCHANGED lastHash /\ Owing(h.key)',
         \A k \in Keys : k # h.key /\ Owing(k) => Owing(k)'
  PROVE  Mirror'
<1>1. h.key \in Keys /\ h \in Entries /\ log \in Seq(Entries) /\ late \in Seq(Readings)
  BY ReadingFields DEF Entries, Inv, BridgeTypes
<1>2. \A r \in Elements(late) : r.key \in Keys
  BY ElementsOf, ReadingFields DEF Inv, BridgeTypes
<1>3. CASE Acknowledged(h) /\ Remember(h)
  <2>1. /\ late = <<>> /\ late' = <<>> /\ log' = Extend(log, h)
        /\ lastHash' = [lastHash EXCEPT ![h.key] = h.rev]
    BY <1>3 DEF Acknowledged, Remember
  <2>2. lastHash'[h.key] = h.rev /\ \A k \in Keys : k # h.key => lastHash'[k] = lastHash[k]
    BY <1>1, <2>1 DEF Inv, BridgeTypes
  <2>3. LateIsOwed'
    BY <2>1, ElementsEmpty DEF LateIsOwed
  <2>4. \A k \in Keys : k = h.key => Settled(k)'
    BY <1>1, <2>1, <2>2, LastAppended, ElementsEmpty DEF Settled
  <2>5. \A k \in Keys : k # h.key /\ Settled(k) => Settled(k)'
    BY <1>1, <2>1, <2>2, LastAppended, ElementsEmpty DEF Settled
  <2>6. HashJustified'
    BY <2>2, <2>4, <2>5 DEF Mirror, HashJustified
  <2> QED
    BY <2>3, <2>6 DEF Mirror
<1>4. CASE GivenUp(h) /\ UNCHANGED lastHash /\ Owing(h.key)'
  <2>1. log' = log /\ late' \in {late, Append(late, h)}
    BY <1>4 DEF GivenUp
  <2>2. Elements(late') \subseteq Elements(late) \union {h}
    BY <1>1, <2>1, ElementsAppend
  <2>3. LateIsOwed'
    BY <1>2, <1>4, <2>2 DEF Mirror, LateIsOwed
  <2>4. \A k \in Keys : k # h.key /\ Settled(k) => Settled(k)'
    BY <1>4, <2>1, <2>2 DEF Settled
  <2>5. HashJustified'
    BY <1>4, <2>4 DEF Mirror, HashJustified
  <2> QED
    BY <2>3, <2>5 DEF Mirror
<1> QED
  BY <1>3, <1>4

LEMMA MirrorReplay ==
  ASSUME Inv, Mirror, ReplayOne
  PROVE  Mirror'
<1>1. PICK h \in Readings : h = Head(todo) /\ Elements(todo) = {h} \union Elements(Tail(todo))
  BY ElementsTail DEF ReplayOne, Inv, BridgeTypes
<1>2. /\ Replaying /\ Replaying' /\ todo' = Tail(todo) /\ lost' = lost
      /\ \/ Acknowledged(h) /\ Remember(h) /\ UNCHANGED failed
         \/ GivenUp(h) /\ failed' = Append(failed, h) /\ UNCHANGED lastHash
  BY <1>1 DEF ReplayOne, Replaying
<1>3. Elements(Append(failed, h)) = Elements(failed) \union {h}
  BY ElementsAppend DEF Inv, BridgeTypes
<1>4. \A k \in Keys : k # h.key /\ Owing(k) => Owing(k)'
  <2>1. Pending \ {h} \subseteq Pending'
    BY <1>1, <1>2, <1>3 DEF Pending
  <2> QED
    BY <1>2, <2>1 DEF Owing
<1>5. GivenUp(h) /\ failed' = Append(failed, h) => Owing(h.key)'
  BY <1>3 DEF Owing, Pending
<1> QED
  BY <1>2, <1>4, <1>5, MirrorSend

LEMMA MirrorPublish ==
  ASSUME Inv, Mirror, PublishOne
  PROVE  Mirror'
<1>1. PICK h \in batch :
        \/ UNCHANGED <<brokerVars, lastHash, failed>>
        \/ Acknowledged(h) /\ Remember(h) /\ UNCHANGED failed
        \/ GivenUp(h) /\ failed' = Append(failed, h) /\ UNCHANGED lastHash
  BY DEF PublishOne
<1>2. /\ ~Replaying /\ ~Replaying' /\ spool' = spool /\ lost' = lost
      /\ h \in Readings
  BY DEF PublishOne, Replaying, Inv, BridgeTypes
<1>3. Elements(Append(failed, h)) = Elements(failed) \union {h}
  BY <1>2, ElementsAppend DEF Inv, BridgeTypes
<1>4. \A k \in Keys : Owing(k) => Owing(k)'
  <2>1. Pending \subseteq Pending'
    BY <1>1, <1>2, <1>3 DEF Pending
  <2> QED
    BY <1>2, <2>1 DEF Owing
<1>5. GivenUp(h) /\ failed' = Append(failed, h) => Owing(h.key)'
  BY <1>3 DEF Owing, Pending
<1>6. CASE UNCHANGED <<brokerVars, lastHash, failed>>
  BY <1>4, <1>6, MirrorKept
<1> QED
  BY <1>1, <1>2, <1>4, <1>5, <1>6, MirrorSend

\* Starting a replay, ending one, and writing the file: what was pending is pending still,
\* or was dropped.
LEMMA MirrorFile ==
  ASSUME Inv, Mirror, StartCycle \/ Fetch \/ BridgeRestarts \/ FinishReplay \/ FinishPublish
  PROVE  Mirror'
<1>1. /\ Load \in Seq(Readings) /\ Elements(Load) = Elements(spool) \intersect Readings
      /\ Elements(failed) \subseteq Readings
  BY LoadReadings, ElementsOf DEF Inv, BridgeTypes
<1>2. UNCHANGED <<brokerVars, lastHash>>
  BY DEF StartCycle, Fetch, BridgeRestarts, FinishReplay, FinishPublish
<1>3. Pending \subseteq Pending' \union lost' /\ lost \subseteq lost'
  <2>1. CASE StartCycle \/ Fetch \/ BridgeRestarts
    <3>1. /\ ~Replaying /\ failed = <<>> /\ UNCHANGED <<spool, failed, lost>>
          /\ Replaying' => todo' = Load
      BY <2>1 DEF StartCycle, Fetch, BridgeRestarts, Replaying, Inv, NothingInHand
    <3> QED
      BY <1>1, <3>1, ElementsEmpty DEF Pending
  <2>2. CASE FinishReplay
    <3>1. /\ Replaying /\ ~Replaying' /\ todo = <<>>
          /\ \/ spool' = failed /\ UNCHANGED lost
             \/ \E lines \in CutReplace : Spools(lines, Elements(failed))
      BY <2>2 DEF FinishReplay, Replaying
    <3> QED
      BY <1>1, <3>1, ElementsEmpty DEF Pending, Spools
  <2>3. CASE FinishPublish
    <3>1. /\ ~Replaying /\ ~Replaying'
          /\ \/ failed = <<>> /\ UNCHANGED <<spool, lost>>
             \/ \E lines : Spools(lines, Elements(spool) \union Elements(failed))
      BY <2>3 DEF FinishPublish, Replaying
    <3> QED
      BY <1>1, <3>1, ElementsEmpty DEF Pending, Spools
  <2> QED
    BY <2>1, <2>2, <2>3
<1>4. \A k \in Keys : Owing(k) => Owing(k)'
  BY <1>3 DEF Owing
<1> QED
  BY <1>2, <1>4, MirrorKept

LEMMA MirrorCrash ==
  ASSUME BridgeCrashes
  PROVE  Mirror'
<1>1. late' = <<>> /\ lastHash' = [k \in Keys |-> 0]
  BY DEF BridgeCrashes, BridgeEnds
<1> QED
  BY <1>1, ElementsEmpty DEF Mirror, LateIsOwed, HashJustified

LEMMA NothingLate ==
  ASSUME Inv, NEW k \in Keys, NEW n, LastIn(log, k, n), \A r \in Elements(late) : r.key # k
  PROVE  ComesLast(k, n)
<1>1. log \in Seq(Entries) /\ late \in Seq(Entries)
  BY Widen DEF Inv, BridgeTypes, Entries
<1>2. /\ Len(log) \in Nat /\ Len(late) \in Nat
      /\ DOMAIN log = 1 .. Len(log) /\ DOMAIN late = 1 .. Len(late)
  BY <1>1, LenProperties
<1>3. /\ OnTheWay \in Seq(Entries) /\ Len(OnTheWay) = Len(log) + Len(late)
      /\ \A i \in 1 .. Len(log) + Len(late) :
           OnTheWay[i] = IF i <= Len(log) THEN log[i] ELSE late[i - Len(log)]
  BY <1>1, ConcatProperties DEF OnTheWay
<1>4. DOMAIN OnTheWay = 1 .. Len(log) + Len(late)
  BY <1>3, LenProperties
<1>5. PICK i \in 1 .. Len(log) : /\ log[i].key = k /\ log[i].rev = n
                                 /\ \A j \in 1 .. Len(log) : j > i => log[j].key # k
  BY <1>2 DEF LastIn
<1>6. i \in 1 .. Len(log) + Len(late) /\ OnTheWay[i] = log[i]
  BY <1>2, <1>3, <1>5
<1>7. ASSUME NEW j \in 1 .. Len(log) + Len(late), j > i
      PROVE  OnTheWay[j].key # k
  <2>1. CASE j <= Len(log)
    BY <1>2, <1>3, <1>5, <1>7, <2>1
  <2>2. CASE ~(j <= Len(log))
    <3>1. j - Len(log) \in DOMAIN late
      BY <1>2, <2>2
    <3>2. late[j - Len(log)].key # k
      BY <3>1 DEF Elements
    <3> QED
      BY <1>3, <2>2, <3>2
  <2> QED
    BY <2>1, <2>2
<1> QED
  BY <1>4, <1>5, <1>6, <1>7 DEF ComesLast

(***************************************************************************)
(* bridge.py:242-244 skips a reading equal to the last one acknowledged:   *)
(* then the topic shows that reading last of its key, or another reading   *)
(* of the key is still to be sent, or was counted as dropped.              *)
(***************************************************************************)
THEOREM Suppression == Spec => []SuppressionIsJustified
<1>1. Inv /\ Mirror /\ [Next]_vars => Mirror'
  BY MirrorElsewhere, MirrorBroker, MirrorReplay, MirrorPublish, MirrorFile, MirrorCrash
  DEF Next, Bridge
<1>2. Inv /\ Mirror => SuppressionIsJustified
  <2> SUFFICES ASSUME Inv, Mirror, NEW k \in Keys
               PROVE  lastHash[k] = 0 \/ ComesLast(k, lastHash[k]) \/ Unsettled(k)
    BY DEF SuppressionIsJustified
  <2>1. Settled(k) => ComesLast(k, lastHash[k])
    BY NothingLate DEF Settled
  <2>2. Owing(k) => Unsettled(k)
    BY DEF Owing, Pending, Unsettled, InMemory
  <2> QED
    BY <2>1, <2>2 DEF Mirror, HashJustified
<1> QED
  BY <1>1, <1>2, MirrorInitially, Invariance, PTL DEF Spec
=============================================================================
