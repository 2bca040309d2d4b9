---------------------------- MODULE HotCacheProofs ----------------------------
(***************************************************************************)
(* Theorems about HotCache, for every set of readers, every finite set of  *)
(* windows, every bound and every choice of faults.                        *)
(***************************************************************************)
EXTENDS HotCache, FiniteSetTheorems, TLAPS

(***************************************************************************)
(* A finite set of numbers that is not empty has a greatest element.  The  *)
(* proof takes a smallest set that had none.                               *)
(***************************************************************************)
HasGreatest(S) == \E m \in S : \A n \in S : n <= m

LEMMA GreatestExists ==
  ASSUME NEW S, S \subseteq Nat, IsFiniteSet(S), S # {}
  PROVE  HasGreatest(S)
<1> DEFINE Bad == {U \in FiniteSubsetsOf(S) : U # {} /\ ~HasGreatest(U)}
<1> SUFFICES ASSUME Bad # {} PROVE FALSE
  BY DEF FiniteSubsetsOf
<1>1. PICK U \in Bad : \A V \in Bad : <<V, U>> \notin StrictSubsetOrdering(S)
  <2>1. IsWellFoundedOn(StrictSubsetOrdering(S), FiniteSubsetsOf(S))
    BY FS_StrictSubsetOrderingWellFounded
  <2> QED
    BY <2>1, WFMin
<1>2. U \subseteq S /\ IsFiniteSet(U) /\ U # {} /\ ~HasGreatest(U)
  BY <1>1 DEF FiniteSubsetsOf
<1>3. PICK x \in U : TRUE
  BY <1>2
<1> DEFINE V == U \ {x}
<1>4. V # {}
  BY <1>2, <1>3 DEF HasGreatest
<1>5. V \in FiniteSubsetsOf(S)
  BY <1>2, FS_RemoveElement DEF FiniteSubsetsOf
<1>6. <<V, U>> \in StrictSubsetOrdering(S)
  BY <1>2, <1>3 DEF StrictSubsetOrdering
<1>7. HasGreatest(V)
  BY <1>1, <1>4, <1>5, <1>6
<1>8. PICK m \in V : \A n \in V : n <= m
  BY <1>7 DEF HasGreatest
<1>9. m \in Nat /\ x \in Nat /\ \A n \in U : n \in Nat
  BY <1>2, <1>3
<1>10. \A n \in U : n = x \/ n <= m
  BY <1>8
<1> QED
  BY <1>2, <1>3, <1>8, <1>9, <1>10 DEF HasGreatest

LEMMA NewestHasRow ==
  ASSUME TypeOK, \E w \in Windows : HasRow(w)
  PROVE  Newest \in Windows /\ HasRow(Newest)
<1> DEFINE S == {w \in Windows : HasRow(w)}
<1>1. S \subseteq Nat /\ S # {} /\ IsFiniteSet(S)
  BY CacheAssumption, FS_Subset
<1>2. \E m \in S : \A n \in S : m >= n
  BY <1>1, GreatestExists DEF HasGreatest
<1>3. Newest \in S
  BY <1>2 DEF Newest, Max
<1> QED
  BY <1>3

-----------------------------------------------------------------------------
(***************************************************************************)
(* Type correctness, and what the two halves of set_latest_if_newer know   *)
(* of each other: a client is about to SET only what is newer than what    *)
(* its GET returned.                                                       *)
(***************************************************************************)
SetIsNewer ==
  \A c \in Clients : pc[c] = "set" =>
     seen[c] = None \/ (seen[c] # None /\ seen[c].window < held[c].window)

Inv == TypeOK /\ AnswersAreDurable /\ SetIsNewer

LEMMA EntryShape ==
  /\ None \notin Rows \union Drifted
  /\ \A e \in Rows \union Drifted : e.window \in Windows /\ e.window \in Nat /\ e.rev \in 0 .. MaxRev
<1>1. Rows \union Drifted \subseteq [window : Windows, rev : Nat]
  BY CacheAssumption DEF Rows, Drifted
<1>2. \A e \in Rows \union Drifted : e.window \in Windows /\ e.rev \in 0 .. MaxRev
  BY CacheAssumption DEF Rows, Drifted
<1> QED
  BY <1>1, <1>2, CacheAssumption

LEMMA InitInv ==
  ASSUME Init
  PROVE  Inv
<1>1. TypeOK
  BY CacheAssumption DEF Init, TypeOK, Clients
<1>2. AnswersAreDurable
  <2>1. cache # None => cache.window \in Windows /\ cache.rev = 0
    BY DEF Init, Drifted
  <2>2. \A w \in Windows : 0 <= ledger[w]
    BY DEF Init
  <2> QED
    BY <2>1, <2>2 DEF Init, AnswersAreDurable, Accepted
<1>3. SetIsNewer
  BY DEF Init, SetIsNewer
<1> QED
  BY <1>1, <1>2, <1>3 DEF Inv

LEMMA FaultType ==
  ASSUME TypeOK, NEW kind, Fault(kind) \/ UNCHANGED faults
  PROVE  faults' \in Nat
BY DEF TypeOK, Fault

\* A client that is done holds nothing and is about to do nothing.
LEMMA DoneKeeps ==
  ASSUME Inv, NEW c \in Clients, Done(c), UNCHANGED ledger, faults' \in Nat,
         cache' \in {cache, None, held[c]}
  PROVE  Inv'
<1>1. \A d \in Clients : /\ held'[d] = IF d = c THEN None ELSE held[d]
                         /\ seen'[d] = IF d = c THEN None ELSE seen[d]
                         /\ pc'[d] = IF d = c THEN "idle" ELSE pc[d]
  BY DEF Done, Goto, Hold, Inv, TypeOK
<1>2. TypeOK'
  BY <1>1 DEF Done, Goto, Hold, Inv, TypeOK
<1>3. AnswersAreDurable'
  BY <1>1 DEF Inv, AnswersAreDurable, Accepted
<1>4. SetIsNewer'
  BY <1>1 DEF Inv, SetIsNewer
<1> QED
  BY <1>2, <1>3, <1>4 DEF Inv

\* A client that takes a row of the ledger in hand goes on to the comparison.
LEMMA HoldKeeps ==
  ASSUME Inv, NEW c \in Clients, NEW row \in Rows, Hold(c, row), Goto(c, "check"),
         UNCHANGED <<cache, seen, faults>>, ledger' \in [Windows -> 0 .. MaxRev],
         \A w \in Windows : ledger[w] <= ledger'[w], row.rev <= ledger'[row.window]
  PROVE  Inv'
<1>1. \A d \in Clients : /\ held'[d] = IF d = c THEN row ELSE held[d]
                         /\ pc'[d] = IF d = c THEN "check" ELSE pc[d]
  BY DEF Goto, Hold, Inv, TypeOK
<1>2. TypeOK'
  BY <1>1, EntryShape DEF Goto, Hold, Inv, TypeOK
<1>3. ASSUME NEW e \in Rows \union Drifted, Accepted(e)
      PROVE  Accepted(e)'
  BY <1>3, EntryShape DEF Inv, TypeOK, Accepted
<1>4. AnswersAreDurable'
  BY <1>1, <1>3 DEF Inv, TypeOK, AnswersAreDurable, Accepted
<1>5. SetIsNewer'
  BY <1>1 DEF Inv, SetIsNewer
<1> QED
  BY <1>2, <1>4, <1>5 DEF Inv

\* A client that moves on to wherever nothing is held yet.
LEMMA GotoKeeps ==
  ASSUME Inv, NEW c \in Clients, NEW where \in {"evict", "query"}, Goto(c, where), held[c] = None,
         UNCHANGED <<ledger, held, seen>>, faults' \in Nat, cache' \in {cache, None}
  PROVE  Inv'
<1>1. \A d \in Clients : pc'[d] = IF d = c THEN where ELSE pc[d]
  BY DEF Goto, Inv, TypeOK
<1>2. TypeOK'
  BY <1>1 DEF Goto, Inv, TypeOK
<1>3. AnswersAreDurable' /\ SetIsNewer'
  BY <1>1 DEF Inv, AnswersAreDurable, Accepted, SetIsNewer
<1> QED
  BY <1>2, <1>3 DEF Inv

LEMMA CheckKeeps ==
  ASSUME Inv, NEW c \in Clients, Check(c)
  PROVE  Inv'
<1>1. PICK got \in {cache, None} :
        /\ Get(got)
        /\ IF got # None /\ got.window >= held[c].window
             THEN Done(c)
             ELSE Goto(c, "set") /\ seen' = [seen EXCEPT ![c] = got] /\ UNCHANGED held
  BY DEF Check
<1>2. faults' \in Nat
  BY <1>1, FaultType DEF Get, Inv
<1>3. CASE Done(c)
  BY <1>2, <1>3, DoneKeeps DEF Check
<1>4. CASE ~Done(c)
  <2>1. /\ Goto(c, "set") /\ seen' = [seen EXCEPT ![c] = got] /\ UNCHANGED held
        /\ got = None \/ ~(got.window >= held[c].window)
    BY <1>1, <1>4
  <2>2. \A d \in Clients : /\ pc'[d] = IF d = c THEN "set" ELSE pc[d]
                           /\ seen'[d] = IF d = c THEN got ELSE seen[d]
    BY <2>1 DEF Goto, Inv, TypeOK
  <2>3. held[c] \in Rows
    BY DEF Check, Inv, TypeOK
  <2>4. TypeOK'
    BY <1>2, <2>1, <2>2 DEF Check, Goto, Inv, TypeOK
  <2>5. AnswersAreDurable'
    BY <2>1 DEF Check, Inv, AnswersAreDurable, Accepted
  <2>6. got = None \/ got.window < held[c].window
    BY <2>1, <2>3, EntryShape DEF Inv, TypeOK
  <2>7. SetIsNewer'
    BY <2>1, <2>2, <2>6 DEF Inv, SetIsNewer
  <2> QED
    BY <2>4, <2>5, <2>7 DEF Inv
<1> QED
  BY <1>3, <1>4

LEMMA InvStep ==
  ASSUME Inv, [Next]_vars
  PROVE  Inv'
<1>1. CASE ConsumerWrites
  <2>1. PICK w \in Windows : /\ pc[Consumer] = "idle" /\ ledger[w] < MaxRev
                             /\ ledger' = [ledger EXCEPT ![w] = @ + 1]
                             /\ Hold(Consumer, [window |-> w, rev |-> ledger[w] + 1])
                             /\ Goto(Consumer, "check")
                             /\ UNCHANGED <<cache, seen, faults>>
    BY <1>1 DEF ConsumerWrites
  <2>2. ledger[w] \in Nat /\ ledger[w] + 1 \in 1 .. MaxRev
    BY <2>1, CacheAssumption DEF Inv, TypeOK
  <2>3. [window |-> w, rev |-> ledger[w] + 1] \in Rows
    BY <2>2 DEF Rows
  <2>4. ledger' \in [Windows -> 0 .. MaxRev] /\ \A v \in Windows : ledger[v] <= ledger'[v]
    BY <2>1, <2>2 DEF Inv, TypeOK
  <2> QED
    BY <2>1, <2>2, <2>3, <2>4, HoldKeeps DEF Clients, Inv, TypeOK
<1>2. ASSUME NEW r \in Readers, ReadMisses(r)
      PROVE  Inv'
  <2>1. r \in Clients /\ held[r] = None /\ faults' \in Nat
    BY <1>2, FaultType DEF ReadMisses, Get, Clients, Inv, TypeOK
  <2> QED
    BY <1>2, <2>1, GotoKeeps DEF ReadMisses
<1>3. ASSUME NEW c \in Clients, Evict(c)
      PROVE  Inv'
  <2>1. held[c] = None /\ faults' \in Nat
    BY <1>3, FaultType DEF Evict, Inv, TypeOK
  <2> QED
    BY <1>3, <2>1, GotoKeeps DEF Evict
<1>4. ASSUME NEW c \in Clients, Query(c)
      PROVE  Inv'
  <2>1. CASE \E w \in Windows : HasRow(w)
    <3>1. Newest \in Windows /\ HasRow(Newest)
      BY <2>1, NewestHasRow DEF Inv
    <3>2. Row(Newest) \in Rows /\ Row(Newest).rev <= ledger[Row(Newest).window]
      BY <3>1, CacheAssumption DEF Row, Rows, HasRow, Inv, TypeOK
    <3> QED
      BY <1>4, <2>1, <3>2, HoldKeeps DEF Query, Inv, TypeOK
  <2>2. CASE ~\E w \in Windows : HasRow(w)
    BY <1>4, <2>2, DoneKeeps DEF Query, Inv, TypeOK
  <2> QED
    BY <2>1, <2>2
<1>5. ASSUME NEW c \in Clients, Set(c) \/ Abandon(c)
      PROVE  Inv'
  <2>1. faults' \in Nat
    BY <1>5, FaultType DEF Set, Abandon, Inv
  <2> QED
    BY <1>5, <2>1, DoneKeeps DEF Set, Abandon
<1>6. CASE Expire
  BY <1>6 DEF Expire, Inv, TypeOK, AnswersAreDurable, Accepted, SetIsNewer
<1>7. CASE UNCHANGED vars
  BY <1>7 DEF vars, Inv, TypeOK, AnswersAreDurable, Accepted, SetIsNewer
<1> QED
  BY <1>1, <1>2, <1>3, <1>4, <1>5, <1>6, <1>7, CheckKeeps DEF Next, GoOn

THEOREM Invariance == Spec => []Inv
BY InitInv, InvStep, PTL DEF Spec

(***************************************************************************)
(* Every reachable state of the cache and its clients is well typed.       *)
(***************************************************************************)
THEOREM TypeCorrect == Spec => []TypeOK
BY Invariance, PTL DEF Inv

(***************************************************************************)
(* Whatever races, fails or expires, what is cached or about to be cached  *)
(* is a version of a row that the ledger has accepted (consumer.py,        *)
(* api.py: the cache is written after the durable write).                  *)
(***************************************************************************)
THEOREM Durable == Spec => []AnswersAreDurable
BY Invariance, PTL DEF Inv

-----------------------------------------------------------------------------
(***************************************************************************)
(* An older window replaces a newer one only when the newer one was not    *)
(* what the client's GET returned (cache.py, set_latest_if_newer).         *)
(***************************************************************************)
RaceOnly == Regresses => \E c \in Clients : pc[c] = "set" /\ cache' = held[c] /\ seen[c] # cache

LEMMA RaceStep ==
  ASSUME Inv, [Next]_vars
  PROVE  [RaceOnly]_vars
<1> SUFFICES ASSUME Regresses
             PROVE  \E c \in Clients : pc[c] = "set" /\ cache' = held[c] /\ seen[c] # cache
  BY DEF RaceOnly
<1>1. PICK c \in Clients : Set(c)
  <2>1. cache' # cache /\ cache' # None
    BY EntryShape DEF Regresses, Inv, TypeOK
  <2> QED
    BY <2>1 DEF Next, ConsumerWrites, ReadMisses, GoOn, Evict, Query, Check, Abandon, Expire, vars
<1> QED
  BY <1>1, EntryShape DEF Regresses, Set, Inv, TypeOK, SetIsNewer

THEOREM RegressByRace == Spec => RegressOnlyByRace
<1>1. Inv /\ [Next]_vars => [RaceOnly]_vars
  BY RaceStep
<1> QED
  BY <1>1, Invariance, PTL DEF Spec, RegressOnlyByRace, RaceOnly
=============================================================================
