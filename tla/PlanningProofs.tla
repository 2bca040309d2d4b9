---------------------------- MODULE PlanningProofs ----------------------------
(***************************************************************************)
(* A schedule with decisions is stored before it can be announced, and an  *)
(* undisturbed local plan is the best the ledger allows, for any planners, *)
(* ledgers, faults and bounds.                                             *)
(***************************************************************************)
EXTENDS Planning, FiniteSetTheorems, TLAPS

Steps == {"idle", "capacity", "solve", "persist", "publish", "done"}

\* The variables the argument reads are functions on the planners.
Shape == /\ pc \in [Planners -> Steps]
         /\ seen = [a \in Planners |-> seen[a]]
         /\ plan = [a \in Planners |-> plan[a]]

\* So is the copy of one that the producer may still deliver, and what the service is about
\* to publish: the topic alone is not inductive.
LateIsStored == \A r \in late : r.fits => r \in runs
NextIsStored == pc[Optimizer] = "publish" /\ plan[Optimizer].at # None => RunOf(Optimizer) \in runs

Inv == Shape /\ AnnouncedIsStored /\ LateIsStored /\ NextIsStored

LEMMA OptimizerPlans == Optimizer \in Planners
BY DEF Planners

\* A pass that ends leaves the service with nothing to publish, or the pass was another's.
LEMMA EndPassKeeps ==
  ASSUME Inv, NEW a \in Planners, EndPass(a), runs \subseteq runs'
  PROVE  Shape' /\ NextIsStored'
<1> USE OptimizerPlans
<1>1. Resting(a) \in {"idle", "done"}
  BY DEF Resting
<1>2. Shape'
  BY <1>1 DEF Inv, Shape, EndPass, Steps
<1>3. CASE a = Optimizer
  <2>1. pc'[Optimizer] # "publish"
    BY <1>1, <1>3 DEF Inv, Shape, EndPass
  <2> QED BY <1>2, <2>1 DEF NextIsStored
<1>4. CASE a # Optimizer
  <2>1. /\ pc'[Optimizer] = pc[Optimizer]
        /\ plan'[Optimizer] = plan[Optimizer]
        /\ seen'[Optimizer] = seen[Optimizer]
    BY <1>4 DEF Inv, Shape, EndPass
  <2> QED BY <1>2, <2>1 DEF Inv, NextIsStored, RunOf
<1> QED BY <1>3, <1>4

\* What build_plan returns is announced unstored only if it has no decisions.
LEMMA PlannedKeeps ==
  ASSUME Inv, NEW a \in Planners, NEW solver, NEW at, Planned(a, solver, at), UNCHANGED runs
  PROVE  Shape' /\ NextIsStored'
<1> USE OptimizerPlans
<1>1. CASE at = None /\ a # Optimizer
  BY <1>1, EndPassKeeps DEF Planned
<1>2. CASE ~(at = None /\ a # Optimizer)
  <2>1. /\ pc' = [pc EXCEPT ![a] = IF at = None THEN "publish" ELSE "persist"]
        /\ plan' = [plan EXCEPT ![a] = [solver |-> solver, at |-> at]]
        /\ seen' = seen
    BY <1>2 DEF Planned
  <2>2. Shape'
    BY <2>1 DEF Inv, Shape, Steps
  <2>3. CASE a = Optimizer
    <3>1. plan'[Optimizer].at = at
      BY <2>1, <2>3 DEF Inv, Shape
    <3>2. at # None => pc'[Optimizer] = "persist"
      BY <2>1, <2>3 DEF Inv, Shape
    <3> QED BY <2>2, <3>1, <3>2 DEF NextIsStored
  <2>4. CASE a # Optimizer
    BY <2>1, <2>2, <2>4 DEF Inv, Shape, NextIsStored, RunOf
  <2> QED BY <2>3, <2>4
<1> QED BY <1>1, <1>2

\* Where the topic and the copies stay and no run is removed, so does what was said of them.
LEMMA TopicKeeps ==
  ASSUME Inv, UNCHANGED topicVars, runs \subseteq runs'
  PROVE  AnnouncedIsStored' /\ LateIsStored'
BY DEF Inv, AnnouncedIsStored, LateIsStored, topicVars

LEMMA PassKeeps ==
  ASSUME Inv, UNCHANGED passVars, UNCHANGED runs
  PROVE  Shape' /\ NextIsStored'
BY DEF Inv, Shape, NextIsStored, RunOf, passVars

LEMMA InitInv == Init => Inv
<1> SUFFICES ASSUME Init PROVE Inv
  OBVIOUS
<1> USE OptimizerPlans
<1>1. Shape
  BY DEF Init, Shape, Steps
<1>2. AnnouncedIsStored /\ LateIsStored
  BY DEF Init, AnnouncedIsStored, LateIsStored
<1>3. NextIsStored
  BY DEF Init, NextIsStored
<1> QED BY <1>1, <1>2, <1>3 DEF Inv

\* Any step of an advisor.
AdvisorStep(o) == \/ ReadContext(o) \/ Advise(o)
                  \/ ReplyUnreadable(o) \/ AdvisorCrash(o) \/ AdviceFails(o)

\* Every action keeps the invariant.
LEMMA NextInv == Inv /\ [Next]_vars => Inv'
<1> SUFFICES ASSUME Inv, [Next]_vars PROVE Inv'
  OBVIOUS
<1> USE OptimizerPlans
<1>1. CASE GridWrite \/ PlantWrite
  <2>1. UNCHANGED <<passVars, storeVars, topicVars>>
    BY <1>1 DEF GridWrite, PlantWrite, Written
  <2> QED BY <2>1, PassKeeps, TopicKeeps DEF Inv, storeVars
<1>2. ASSUME NEW a \in Planners, LoadWindows(a) PROVE Inv'
  <2>1. UNCHANGED <<storeVars, topicVars, plan>>
    BY <1>2 DEF LoadWindows
  <2>2. PICK v \in {"solve", "capacity"} : pc' = [pc EXCEPT ![a] = v]
    BY <1>2 DEF LoadWindows
  <2>3. seen' = [seen EXCEPT ![a] = writes]
    BY <1>2 DEF LoadWindows
  <2>4. Shape' /\ NextIsStored'
    BY <2>1, <2>2, <2>3 DEF Inv, Shape, NextIsStored, RunOf, Steps, storeVars
  <2> QED BY <2>1, <2>4, TopicKeeps DEF Inv, storeVars
<1>3. ASSUME NEW a \in Planners, LoadCapacity(a) PROVE Inv'
  <2>1. UNCHANGED <<storeVars, topicVars, plan, seen>> /\ pc' = [pc EXCEPT ![a] = "solve"]
    BY <1>3 DEF LoadCapacity
  <2>2. Shape' /\ NextIsStored'
    BY <2>1 DEF Inv, Shape, NextIsStored, RunOf, Steps, storeVars
  <2> QED BY <2>1, <2>2, TopicKeeps DEF Inv, storeVars
<1>4. ASSUME NEW a \in Planners,
             TooFewWindows(a) \/ SolveLocally(a) \/ SolveRemotely(a) \/ RemoteEmpty(a)
      PROVE  Inv'
  <2>1. UNCHANGED <<storeVars, topicVars>>
    BY <1>4 DEF TooFewWindows, SolveLocally, SolveRemotely, RemoteEmpty
  <2>2. \E solver, at : Planned(a, solver, at)
    BY <1>4 DEF TooFewWindows, SolveLocally, SolveRemotely, RemoteEmpty
  <2>3. Shape' /\ NextIsStored'
    BY <2>1, <2>2, PlannedKeeps DEF storeVars
  <2> QED BY <2>1, <2>3, TopicKeeps DEF Inv, storeVars
<1>5. ASSUME NEW a \in Planners, Persist(a) PROVE Inv'
  <2>1. UNCHANGED topicVars /\ runs' = runs \union {RunOf(a)}
    BY <1>5 DEF Persist, Stored
  <2>2. CASE a = Optimizer
    <3>1. pc' = [pc EXCEPT ![a] = "publish"] /\ UNCHANGED <<seen, plan>>
      BY <1>5, <2>2 DEF Persist
    <3>2. RunOf(Optimizer)' = RunOf(Optimizer)
      BY <3>1 DEF RunOf
    <3>3. Shape' /\ NextIsStored'
      BY <2>1, <2>2, <3>1, <3>2 DEF Inv, Shape, NextIsStored, Steps
    <3> QED BY <2>1, <3>3, TopicKeeps DEF Inv
  <2>3. CASE a # Optimizer
    <3>1. EndPass(a)
      BY <1>5, <2>3 DEF Persist
    <3> QED BY <2>1, <3>1, EndPassKeeps, TopicKeeps DEF Inv
  <2> QED BY <2>2, <2>3
<1>6. ASSUME NEW a \in Planners, PersistFails(a) PROVE Inv'
  <2>1. UNCHANGED topicVars /\ EndPass(a) /\ runs \subseteq runs'
    BY <1>6 DEF PersistFails, Stored, storeVars
  <2> QED BY <2>1, EndPassKeeps, TopicKeeps DEF Inv
<1>7. ASSUME NEW a \in Planners, ReadFails(a) PROVE Inv'
  <2>1. UNCHANGED <<storeVars, topicVars>> /\ EndPass(a)
    BY <1>7 DEF ReadFails
  <2> QED BY <2>1, EndPassKeeps, TopicKeeps DEF Inv, storeVars
<1>8. CASE Publish
  <2>1. /\ pc[Optimizer] = "publish" /\ announced' = RunOf(Optimizer)
        /\ EndPass(Optimizer) /\ UNCHANGED <<storeVars, late>>
    BY <1>8 DEF Publish
  <2>2. AnnouncedIsStored'
    BY <2>1 DEF Inv, NextIsStored, AnnouncedIsStored, RunOf, storeVars
  <2> QED BY <2>1, <2>2, EndPassKeeps DEF Inv, LateIsStored, storeVars
<1>9. CASE PublishFails
  <2>1. /\ pc[Optimizer] = "publish" /\ late' \subseteq late \union {RunOf(Optimizer)}
        /\ EndPass(Optimizer) /\ UNCHANGED <<storeVars, announced>>
    BY <1>9 DEF PublishFails
  <2>2. RunOf(Optimizer).fits => RunOf(Optimizer) \in runs
    BY <2>1 DEF Inv, NextIsStored, RunOf
  <2> QED BY <2>1, <2>2, EndPassKeeps DEF Inv, LateIsStored, AnnouncedIsStored, storeVars
<1>10. CASE LateCopy
  <2>1. PICK r \in late : /\ late' = late \ {r}
                          /\ announced' = r \/ UNCHANGED announced
    BY <1>10 DEF LateCopy
  <2>2. UNCHANGED <<passVars, storeVars>>
    BY <1>10 DEF LateCopy
  <2>3. AnnouncedIsStored' /\ LateIsStored'
    BY <2>1, <2>2 DEF Inv, AnnouncedIsStored, LateIsStored, storeVars
  <2> QED BY <2>2, <2>3, PassKeeps DEF Inv, storeVars
<1>11. ASSUME NEW a \in Planners, PlannerCrash(a) PROVE Inv'
  <2>1. EndPass(a) /\ UNCHANGED <<storeVars, announced>> /\ late' \subseteq late
    BY <1>11 DEF PlannerCrash
  <2> QED BY <2>1, EndPassKeeps DEF Inv, LateIsStored, AnnouncedIsStored, storeVars
<1>12. ASSUME NEW o \in Advisors, AdvisorStep(o)
       PROVE  Inv'
  <2>1. UNCHANGED <<passVars, storeVars, topicVars>>
    BY <1>12
    DEF AdvisorStep, ReadContext, Advise, ReplyUnreadable, AdvisorCrash, AdviceFails, EndAsking
  <2> QED BY <2>1, PassKeeps, TopicKeeps DEF Inv, storeVars
<1>13. CASE UNCHANGED vars
  BY <1>13, PassKeeps, TopicKeeps DEF Inv, vars, storeVars
<1> QED
  BY <1>1, <1>2, <1>3, <1>4, <1>5, <1>6, <1>7, <1>8, <1>9, <1>10, <1>11, <1>12, <1>13
  DEF Next, Step, AdvisorStep

\* A schedule on the topic that tells the plant to run something is in the database, for any
\* number of planners and advisors and any faults (loop.py, run_once).
THEOREM AnnouncedStored == Spec => []AnnouncedIsStored
<1>1. Inv => AnnouncedIsStored
  BY DEF Inv
<1> QED BY <1>1, InitInv, NextInv, PTL DEF Spec

-----------------------------------------------------------------------------
(* Least and greatest.                                                     *)

\* Induction on a finite set is the choice of a smallest subset that would be a
\* counterexample.
LEMMA SmallestSubset ==
  ASSUME NEW S, NEW Bad, Bad \subseteq FiniteSubsetsOf(S), Bad # {}
  PROVE  \E U \in Bad : \A V \in Bad : V \subseteq U => V = U
<1>1. PICK U \in Bad : \A V \in Bad : <<V, U>> \notin StrictSubsetOrdering(S)
  BY FS_StrictSubsetOrderingWellFounded, WFMin
<1>2. ASSUME NEW V \in Bad, V \subseteq U, V # U
      PROVE  FALSE
  <2>1. <<V, U>> \in (SUBSET S) \X (SUBSET S)
    BY DEF FiniteSubsetsOf
  <2> QED BY <1>1, <1>2, <2>1 DEF StrictSubsetOrdering
<1> QED BY <1>2

LEMMA GreatestExists ==
  ASSUME NEW S, IsFiniteSet(S), S # {}, S \subseteq Nat
  PROVE  \E m \in S : \A n \in S : n <= m
<1> DEFINE Bad == {U \in FiniteSubsetsOf(S) : U # {} /\ ~\E m \in U : \A n \in U : n <= m}
<1>1. SUFFICES ASSUME Bad # {} PROVE FALSE
  <2>1. S \in FiniteSubsetsOf(S)
    BY DEF FiniteSubsetsOf
  <2> QED BY <2>1
<1>2. Bad \subseteq FiniteSubsetsOf(S)
  OBVIOUS
<1>3. PICK U \in Bad : \A V \in Bad : V \subseteq U => V = U
  <2> HIDE DEF Bad
  <2> QED BY <1>1, <1>2, SmallestSubset
<1>4. U \subseteq S /\ IsFiniteSet(U)
  BY DEF FiniteSubsetsOf
<1>5. PICK x \in U : TRUE
  OBVIOUS
<1>6. CASE U \ {x} = {}
  <2>1. \A n \in U : n <= x
    BY <1>4, <1>6
  <2> QED BY <2>1
<1>7. CASE U \ {x} # {}
  <2>1. U \ {x} \in FiniteSubsetsOf(S) /\ U \ {x} \notin Bad
    <3>1. U \ {x} \in FiniteSubsetsOf(S)
      BY <1>4, FS_RemoveElement DEF FiniteSubsetsOf
    <3>2. U \ {x} \subseteq U /\ U \ {x} # U
      BY <1>5
    <3> HIDE DEF Bad
    <3> QED BY <1>3, <3>1, <3>2
  <2>2. PICK m \in U \ {x} : \A n \in U \ {x} : n <= m
    BY <1>7, <2>1
  <2>3. m \in Nat /\ x \in Nat
    BY <1>4
  <2>4. CASE x <= m
    BY <2>2, <2>4
  <2>5. CASE m < x
    <3>1. \A n \in U : n <= x
      BY <1>4, <2>2, <2>3, <2>5
    <3> QED BY <3>1
  <2> QED BY <2>3, <2>4, <2>5
<1> QED BY <1>6, <1>7

LEMMA MaxIsGreatest ==
  ASSUME NEW S, IsFiniteSet(S), S # {}, S \subseteq Nat
  PROVE  Max(S) \in S /\ \A n \in S : n <= Max(S)
<1>1. \E m \in S : \A n \in S : m >= n
  <2>1. PICK m \in S : \A n \in S : n <= m
    BY GreatestExists
  <2> QED BY <2>1
<1>2. Max(S) \in S /\ \A n \in S : Max(S) >= n
  BY <1>1 DEF Max
<1> QED BY <1>2

LEMMA LeastExists ==
  ASSUME NEW S, S \subseteq Nat, S # {}
  PROVE  \E m \in S : \A n \in S : m <= n
<1>1. PICK m \in S : \A n \in S : <<n, m>> \notin OpToRel(<, Nat)
  BY NatLessThanWellFounded, WFMin
<1>2. ASSUME NEW n \in S PROVE m <= n
  <2>1. <<n, m>> \in Nat \X Nat
    OBVIOUS
  <2>2. ~(n < m)
    BY <1>1, <2>1 DEF OpToRel
  <2> QED BY <2>2
<1> QED BY <1>2

LEMMA MinOfTwo ==
  ASSUME NEW m \in Nat, NEW n \in Nat
  PROVE  Min({m, n}) = IF m <= n THEN m ELSE n
<1>1. \E x \in {m, n} : \A y \in {m, n} : x <= y
  OBVIOUS
<1>2. Min({m, n}) \in {m, n} /\ \A y \in {m, n} : Min({m, n}) <= y
  BY <1>1 DEF Min
<1> QED BY <1>2

LEMMA NothingRead == DOMAIN <<>> = {} /\ Cardinality(DOMAIN <<>>) = 0
<1>1. DOMAIN <<>> = {}
  OBVIOUS
<1> QED BY <1>1, FS_EmptySet

-----------------------------------------------------------------------------
(* Types.                                                                  *)

\* What a pass holds; until it has read the capacity it holds none.
PassTyped(a) ==
  /\ DOMAIN windows[a] \subseteq Windows
  /\ Cardinality(DOMAIN windows[a]) <= Horizon
  /\ \A w \in DOMAIN windows[a] : windows[a][w] \in Intensities
  /\ DOMAIN capacity[a] # {} => DOMAIN capacity[a] = DOMAIN windows[a]
  /\ pc[a] \in {"idle", "capacity", "done"} => DOMAIN capacity[a] = {}
  /\ plan[a] # None <=> pc[a] \in {"persist", "publish"}
  /\ pc[a] = "persist" => plan[a].at # None
  /\ pc[a] = "publish" => a = Optimizer

PlannersTyped ==
  /\ pc \in [Planners -> Steps]
  /\ windows = [a \in Planners |-> windows[a]]
  /\ capacity = [a \in Planners |-> capacity[a]]
  /\ seen \in [Planners -> 0 .. MaxWrites]
  /\ plan \in [Planners -> Plans \union {None}]
  /\ \A a \in Planners : PassTyped(a)

LedgerTyped  == /\ grid \in [Windows -> Intensities \union {None}]
                /\ plant \in [Plants \X Windows -> Capacities \union {None}]
                /\ writes \in 0 .. MaxWrites
StoreTyped   == runs \subseteq Runs /\ latest \in runs \union {None}
TopicTyped   == announced \in Runs \union {None} /\ late \subseteq Runs
AdvisorTyped == /\ asking \in [Advisors -> {"idle", "ask", "done"}]
                /\ context \in [Advisors -> Runs \union {None}]
                /\ advised \in Runs \union {None}

Typed == /\ LedgerTyped /\ PlannersTyped /\ StoreTyped /\ TopicTyped /\ AdvisorTyped
         /\ faults \in 0 .. MaxFaults

LEMMA TypedIsTypeOK == Typed => TypeOK
BY DEF Typed, LedgerTyped, PlannersTyped, PassTyped, StoreTyped, TopicTyped, AdvisorTyped,
       TypeOK, Steps

LEMMA InitTyped == Init => Typed
<1> SUFFICES ASSUME Init PROVE Typed
  OBVIOUS
<1> USE PlanningAssumption
<1>1. LedgerTyped
  <2>1. PICK b \in Backlogs : grid = b.grid /\ plant = b.plant
    BY DEF Init
  <2>2. b \in [grid  : [Windows -> Intensities \union {None}],
               plant : [Plants \X Windows -> Capacities \union {None}]]
    OBVIOUS
  <2>3. writes \in 0 .. MaxWrites
    BY DEF Init
  <2> QED BY <2>1, <2>2, <2>3 DEF LedgerTyped
<1>2. PlannersTyped
  <2>1. \A a \in Planners : PassTyped(a)
    BY NothingRead DEF Init, PassTyped
  <2> QED BY <2>1 DEF Init, PlannersTyped, Steps
<1>3. StoreTyped /\ TopicTyped /\ AdvisorTyped /\ faults \in 0 .. MaxFaults
  BY DEF Init, StoreTyped, TopicTyped, AdvisorTyped
<1> QED BY <1>1, <1>2, <1>3 DEF Typed

\* A step of one planner leaves what the others hold.
LEMMA OthersTyped ==
  ASSUME PlannersTyped, NEW a \in Planners,
         pc' \in [Planners -> Steps],
         windows' = [b \in Planners |-> windows'[b]],
         capacity' = [b \in Planners |-> capacity'[b]],
         seen' \in [Planners -> 0 .. MaxWrites],
         plan' \in [Planners -> Plans \union {None}],
         PassTyped(a)',
         \A b \in Planners \ {a} : /\ pc'[b] = pc[b] /\ windows'[b] = windows[b]
                                   /\ capacity'[b] = capacity[b] /\ plan'[b] = plan[b]
  PROVE  PlannersTyped'
<1>1. \A b \in Planners \ {a} : PassTyped(b)'
  BY DEF PlannersTyped, PassTyped
<1> QED BY <1>1 DEF PlannersTyped

LEMMA EndPassTyped ==
  ASSUME PlannersTyped, NEW a \in Planners, EndPass(a)
  PROVE  PlannersTyped'
<1> USE PlanningAssumption
<1>1. Resting(a) \in {"idle", "done"}
  BY DEF Resting
<1>2. /\ pc'[a] = Resting(a) /\ windows'[a] = <<>> /\ capacity'[a] = <<>> /\ plan'[a] = None
  BY DEF EndPass, PlannersTyped
<1>3. PassTyped(a)'
  BY <1>1, <1>2, NothingRead DEF PassTyped
<1>4. /\ pc' \in [Planners -> Steps]
      /\ windows' = [b \in Planners |-> windows'[b]]
      /\ capacity' = [b \in Planners |-> capacity'[b]]
      /\ seen' \in [Planners -> 0 .. MaxWrites]
      /\ plan' \in [Planners -> Plans \union {None}]
  <2>1. Resting(a) \in Steps /\ 0 \in 0 .. MaxWrites
    BY <1>1 DEF Steps
  <2>2. pc' \in [Planners -> Steps] /\ seen' \in [Planners -> 0 .. MaxWrites]
    BY <2>1 DEF EndPass, PlannersTyped
  <2>3. plan' \in [Planners -> Plans \union {None}]
    BY DEF EndPass, PlannersTyped
  <2>4. /\ windows' = [b \in Planners |-> windows'[b]]
        /\ capacity' = [b \in Planners |-> capacity'[b]]
    BY DEF EndPass, PlannersTyped
  <2> QED BY <2>2, <2>3, <2>4
<1>5. \A b \in Planners \ {a} : /\ pc'[b] = pc[b] /\ windows'[b] = windows[b]
                                /\ capacity'[b] = capacity[b] /\ plan'[b] = plan[b]
  BY DEF EndPass, PlannersTyped
<1> QED BY <1>3, <1>4, <1>5, OthersTyped

LEMMA PlannedTyped ==
  ASSUME PlannersTyped, NEW a \in Planners, NEW solver \in {"none", "local", "remote"},
         NEW at \in Windows \union {None}, Planned(a, solver, at)
  PROVE  PlannersTyped'
<1> USE PlanningAssumption
<1>1. CASE at = None /\ a # Optimizer
  BY <1>1, EndPassTyped DEF Planned
<1>2. CASE ~(at = None /\ a # Optimizer)
  <2> DEFINE new == [solver |-> solver, at |-> at]
             to == IF at = None THEN "publish" ELSE "persist"
  <2>1. /\ pc' = [pc EXCEPT ![a] = to]
        /\ plan' = [plan EXCEPT ![a] = new]
        /\ windows' = [windows EXCEPT ![a] = <<>>]
        /\ capacity' = [capacity EXCEPT ![a] = <<>>]
        /\ seen' = seen
    BY <1>2 DEF Planned
  <2>2. new \in Plans /\ new # None /\ new.at = at
    BY NoneAssumption DEF Plans
  <2>3. to \in {"persist", "publish"} /\ (to = "persist" <=> at # None)
    OBVIOUS
  <2> HIDE DEF new, to
  <2>4. /\ pc'[a] = to /\ plan'[a] = new /\ windows'[a] = <<>> /\ capacity'[a] = <<>>
    BY <2>1 DEF PlannersTyped
  <2>5. PassTyped(a)'
    BY <1>2, <2>2, <2>3, <2>4, NothingRead DEF PassTyped
  <2>6. /\ pc' \in [Planners -> Steps]
        /\ windows' = [b \in Planners |-> windows'[b]]
        /\ capacity' = [b \in Planners |-> capacity'[b]]
        /\ seen' \in [Planners -> 0 .. MaxWrites]
        /\ plan' \in [Planners -> Plans \union {None}]
    BY <2>1, <2>2, <2>3 DEF PlannersTyped, Steps
  <2>7. \A b \in Planners \ {a} : /\ pc'[b] = pc[b] /\ windows'[b] = windows[b]
                                  /\ capacity'[b] = capacity[b] /\ plan'[b] = plan[b]
    BY <2>1 DEF PlannersTyped
  <2> QED BY <2>5, <2>6, <2>7, OthersTyped
<1> QED BY <1>1, <1>2

-----------------------------------------------------------------------------
(* What a pass reads.                                                      *)

LEMMA TablesAreFinite ==
  /\ IsFiniteSet(GridRows) /\ GridRows \subseteq Windows
  /\ IsFiniteSet(PlantRows) /\ PlantRows \subseteq Plants \X Windows
<1>1. GridRows \subseteq Windows /\ PlantRows \subseteq Plants \X Windows
  BY DEF GridRows, PlantRows
<1>2. IsFiniteSet(Windows) /\ IsFiniteSet(Plants \X Windows)
  BY PlanningAssumption, FS_Product
<1> QED BY <1>1, <1>2, FS_Subset

\* As many rows as the LIMIT admits, or all of them.
LEMMA NewestAreLimited ==
  ASSUME NEW rows, IsFiniteSet(rows), NEW from, NEW n \in Nat, NEW top \in Newest(rows, from, n)
  PROVE  /\ top \subseteq rows /\ IsFiniteSet(top)
         /\ Cardinality(top) \in Nat /\ Cardinality(top) <= n
         /\ Cardinality(top) = n \/ top = rows
         /\ Cardinality(rows) <= n => top = rows
         /\ \A r \in rows \ top, t \in top : from[r] <= from[t]
<1>1. /\ top \subseteq rows
      /\ Cardinality(top) = Min({n, Cardinality(rows)})
      /\ \A r \in rows \ top, t \in top : from[r] <= from[t]
  BY DEF Newest
<1>2. Cardinality(rows) \in Nat
  BY FS_CardinalityType
<1>3. IsFiniteSet(top) /\ Cardinality(top) \in Nat
  BY <1>1, FS_Subset, FS_CardinalityType
<1>4. Cardinality(top) = IF n <= Cardinality(rows) THEN n ELSE Cardinality(rows)
  BY <1>1, <1>2, MinOfTwo
<1>5. Cardinality(rows) = Cardinality(top) => top = rows
  BY <1>1, FS_Subset
<1> QED BY <1>1, <1>2, <1>3, <1>4, <1>5

\* Windows do not tie: the newest of them are exactly the horizon.
LEMMA NewestAreTheHorizon ==
  ASSUME NEW ws \in NewestWindows
  PROVE  ws = InHorizon
<1> USE PlanningAssumption
<1> DEFINE Newer(w) == {v \in GridRows : v > w}
<1>1. /\ ws \subseteq GridRows /\ IsFiniteSet(ws)
      /\ Cardinality(ws) \in Nat /\ Cardinality(ws) <= Horizon
      /\ Cardinality(ws) = Horizon \/ ws = GridRows
      /\ \A r \in GridRows \ ws, t \in ws : r <= t
  <2> DEFINE from == [w \in GridRows |-> w]
  <2>1. ws \in Newest(GridRows, from, Horizon)
    BY DEF NewestWindows
  <2>2. \A r \in GridRows : from[r] = r
    OBVIOUS
  <2> HIDE DEF from
  <2> QED BY <2>1, <2>2, TablesAreFinite, NewestAreLimited
<1>2. GridRows \subseteq Nat /\ IsFiniteSet(GridRows)
  BY TablesAreFinite
<1>3. \A w : IsFiniteSet(Newer(w)) /\ Cardinality(Newer(w)) \in Nat
  <2>1. \A w : Newer(w) \subseteq GridRows
    OBVIOUS
  <2> QED BY <1>2, <2>1, FS_Subset, FS_CardinalityType
<1>4. ASSUME NEW w \in ws PROVE Cardinality(Newer(w)) < Horizon
  <2>1. Newer(w) \subseteq ws \ {w}
    <3>1. ASSUME NEW v \in GridRows, v > w PROVE v \in ws \ {w}
      <4>1. v \in Nat /\ w \in Nat /\ ~(v <= w)
        BY <1>1, <1>2, <3>1
      <4>2. v \in ws
        BY <1>1, <4>1
      <4>3. v # w
        BY <4>1
      <4> QED BY <4>2, <4>3
    <3> QED BY <3>1
  <2>2. IsFiniteSet(ws \ {w}) /\ Cardinality(ws \ {w}) = Cardinality(ws) - 1
    BY <1>1, FS_RemoveElement
  <2>3. Cardinality(Newer(w)) <= Cardinality(ws \ {w})
    BY <2>1, <2>2, FS_Subset
  <2> HIDE DEF Newer
  <2> QED BY <1>1, <1>3, <2>2, <2>3
<1>5. ASSUME NEW w \in GridRows, w \notin ws PROVE ~(Cardinality(Newer(w)) < Horizon)
  <2>1. ws \subseteq Newer(w)
    <3>1. ASSUME NEW t \in ws PROVE t > w
      <4>1. w <= t /\ w # t /\ w \in Nat /\ t \in Nat
        BY <1>1, <1>2, <1>5
      <4> QED BY <4>1
    <3> QED BY <1>1, <3>1
  <2>2. Cardinality(ws) <= Cardinality(Newer(w))
    BY <1>3, <2>1, FS_Subset
  <2>3. Cardinality(ws) = Horizon
    BY <1>1, <1>5
  <2> HIDE DEF Newer
  <2> QED BY <1>3, <2>2, <2>3
<1> QED BY <1>1, <1>4, <1>5 DEF InHorizon

LEMMA NewestWindowsAreWindows ==
  ASSUME NEW ws \in NewestWindows
  PROVE  ws \subseteq Windows /\ IsFiniteSet(ws) /\ Cardinality(ws) \in Nat
         /\ Cardinality(ws) <= Horizon
<1> DEFINE from == [w \in GridRows |-> w]
<1>1. ws \in Newest(GridRows, from, Horizon)
  BY DEF NewestWindows
<1>2. Horizon \in Nat
  BY PlanningAssumption
<1> HIDE DEF from
<1>3. /\ ws \subseteq GridRows /\ IsFiniteSet(ws)
      /\ Cardinality(ws) \in Nat /\ Cardinality(ws) <= Horizon
  BY <1>1, <1>2, TablesAreFinite, NewestAreLimited
<1> QED BY <1>3, TablesAreFinite

\* The window chosen: cleaner than every other with room, or as clean and earlier.
LEMMA BestIsCleanest ==
  ASSUME PlannersTyped, NEW a \in Planners
  PROVE  /\ Best(a) \in Windows \union {None}
         /\ Feasible(a) # {} => Best(a) \in Cleanest(a)
         /\ Feasible(a) = {} => Best(a) = None
<1> USE PlanningAssumption
<1>1. CASE Feasible(a) = {}
  BY <1>1 DEF Best
<1>2. CASE Feasible(a) # {}
  <2>1. /\ Feasible(a) \subseteq Windows /\ Feasible(a) \subseteq Nat
        /\ \A w \in Feasible(a) : windows[a][w] \in Nat
    BY DEF Feasible, PlannersTyped, PassTyped
  <2> DEFINE I == {windows[a][w] : w \in Feasible(a)}
  <2>2. PICK i \in I : \A j \in I : i <= j
    <3>1. I \subseteq Nat /\ I # {}
      BY <1>2, <2>1
    <3> HIDE DEF I
    <3> QED BY <3>1, LeastExists
  <2> DEFINE W == {w \in Feasible(a) : windows[a][w] = i}
  <2>3. PICK w \in W : \A v \in W : w <= v
    <3>1. W \subseteq Nat /\ W # {}
      BY <2>1, <2>2
    <3> HIDE DEF W
    <3> QED BY <3>1, LeastExists
  <2>4. ASSUME NEW v \in Feasible(a)
        PROVE  \/ windows[a][w] < windows[a][v]
               \/ windows[a][w] = windows[a][v] /\ w <= v
    <3>1. windows[a][w] = i /\ i <= windows[a][v] /\ i \in Nat /\ windows[a][v] \in Nat
      BY <2>1, <2>2
    <3>2. CASE windows[a][v] = i
      BY <2>3, <3>1, <3>2
    <3>3. CASE windows[a][v] # i
      BY <3>1, <3>3
    <3> QED BY <3>2, <3>3
  <2>5. w \in Cleanest(a)
    BY <2>4 DEF Cleanest
  <2>6. Best(a) \in Cleanest(a)
    BY <1>2, <2>5 DEF Best
  <2> QED BY <1>2, <2>1, <2>6 DEF Cleanest
<1> QED BY <1>1, <1>2

\* The answer of a remote job is one of the windows it was sent.
LEMMA GreatestWindow ==
  ASSUME PlannersTyped, NEW a \in Planners, Cardinality(DOMAIN windows[a]) >= 2
  PROVE  Max(DOMAIN windows[a]) \in Windows
<1> USE PlanningAssumption
<1>1. DOMAIN windows[a] \subseteq Windows
  BY DEF PlannersTyped, PassTyped
<1>2. ASSUME DOMAIN windows[a] = {} PROVE FALSE
  <2>1. Cardinality({}) >= 2
    BY <1>2
  <2> QED BY <2>1, FS_EmptySet
<1>3. IsFiniteSet(DOMAIN windows[a])
  BY <1>1, FS_Subset
<1>4. DOMAIN windows[a] \subseteq Nat
  BY <1>1
<1> QED BY <1>1, <1>2, <1>3, <1>4, MaxIsGreatest

LEMMA LoadWindowsTyped ==
  ASSUME LedgerTyped, PlannersTyped, NEW a \in Planners, LoadWindows(a)
  PROVE  PlannersTyped'
<1>1. PICK ws \in NewestWindows :
        /\ windows' = [windows EXCEPT ![a] = Restrict(grid, ws)]
        /\ pc' = [pc EXCEPT ![a] = IF Cardinality(ws) < 2 THEN "solve" ELSE "capacity"]
  BY DEF LoadWindows
<1>2. /\ pc[a] = "idle" /\ seen' = [seen EXCEPT ![a] = writes]
      /\ capacity' = capacity /\ plan' = plan
  BY DEF LoadWindows
<1>3. ws \subseteq Windows /\ Cardinality(ws) <= Horizon
  BY NewestWindowsAreWindows
<1>4. \A w \in ws : grid[w] \in Intensities
  <2>1. ws = InHorizon
    BY NewestAreTheHorizon
  <2> QED BY <2>1 DEF LedgerTyped, InHorizon, GridRows
<1>5. DOMAIN Restrict(grid, ws) = ws /\ \A w \in ws : Restrict(grid, ws)[w] \in Intensities
  BY <1>4 DEF Restrict
<1>6. /\ windows'[a] = Restrict(grid, ws) /\ pc'[a] \in {"solve", "capacity"}
      /\ capacity'[a] = capacity[a] /\ plan'[a] = plan[a]
  BY <1>1, <1>2 DEF PlannersTyped
<1>7. PassTyped(a)'
  BY <1>2, <1>3, <1>5, <1>6 DEF PlannersTyped, PassTyped
<1>8. /\ pc' \in [Planners -> Steps]
      /\ windows' = [b \in Planners |-> windows'[b]]
      /\ capacity' = [b \in Planners |-> capacity'[b]]
      /\ plan' \in [Planners -> Plans \union {None}]
  <2>1. "solve" \in Steps /\ "capacity" \in Steps
    BY DEF Steps
  <2> QED BY <1>1, <1>2, <2>1 DEF PlannersTyped
<1>9. seen' \in [Planners -> 0 .. MaxWrites]
  BY <1>2 DEF PlannersTyped, LedgerTyped
<1>10. \A b \in Planners \ {a} : /\ pc'[b] = pc[b] /\ windows'[b] = windows[b]
                                 /\ capacity'[b] = capacity[b] /\ plan'[b] = plan[b]
  BY <1>1, <1>2 DEF PlannersTyped
<1> QED BY <1>7, <1>8, <1>9, <1>10, OthersTyped

LEMMA LoadCapacityTyped ==
  ASSUME PlannersTyped, NEW a \in Planners, LoadCapacity(a)
  PROVE  PlannersTyped'
<1>1. PICK rows \in NewestReports :
        capacity' = [capacity EXCEPT ![a] = CapacityOf(rows, DOMAIN windows[a])]
  BY DEF LoadCapacity
<1>2. /\ pc[a] = "capacity" /\ pc' = [pc EXCEPT ![a] = "solve"]
      /\ windows' = windows /\ seen' = seen /\ plan' = plan
  BY DEF LoadCapacity
<1>3. DOMAIN CapacityOf(rows, DOMAIN windows[a]) = DOMAIN windows[a]
  BY DEF CapacityOf
<1>4. /\ capacity'[a] = CapacityOf(rows, DOMAIN windows[a]) /\ pc'[a] = "solve"
  BY <1>1, <1>2 DEF PlannersTyped
<1>5. PassTyped(a)'
  BY <1>2, <1>3, <1>4 DEF PlannersTyped, PassTyped
<1>6. /\ pc' \in [Planners -> Steps]
      /\ windows' = [b \in Planners |-> windows'[b]]
      /\ capacity' = [b \in Planners |-> capacity'[b]]
      /\ seen' \in [Planners -> 0 .. MaxWrites]
      /\ plan' \in [Planners -> Plans \union {None}]
  BY <1>1, <1>2 DEF PlannersTyped, Steps
<1>7. \A b \in Planners \ {a} : /\ pc'[b] = pc[b] /\ windows'[b] = windows[b]
                                /\ capacity'[b] = capacity[b] /\ plan'[b] = plan[b]
  BY <1>1, <1>2 DEF PlannersTyped
<1> QED BY <1>5, <1>6, <1>7, OthersTyped

LEMMA SolvingTyped ==
  ASSUME PlannersTyped, NEW a \in Planners,
         TooFewWindows(a) \/ SolveLocally(a) \/ SolveRemotely(a) \/ RemoteEmpty(a)
  PROVE  PlannersTyped'
<1>1. CASE TooFewWindows(a) \/ RemoteEmpty(a)
  BY <1>1, PlannedTyped DEF TooFewWindows, RemoteEmpty
<1>2. CASE SolveLocally(a)
  <2>1. Best(a) \in Windows \union {None}
    BY BestIsCleanest
  <2> QED BY <1>2, <2>1, PlannedTyped DEF SolveLocally
<1>3. CASE SolveRemotely(a)
  <2>1. Max(DOMAIN windows[a]) \in Windows
    BY <1>3, GreatestWindow DEF SolveRemotely, Solving
  <2> QED BY <1>3, <2>1, PlannedTyped DEF SolveRemotely
<1> QED BY <1>1, <1>2, <1>3

LEMMA PersistTyped ==
  ASSUME PlannersTyped, NEW a \in Planners, Persist(a)
  PROVE  PlannersTyped'
<1>1. CASE a = Optimizer
  <2>1. /\ pc[a] = "persist" /\ pc' = [pc EXCEPT ![a] = "publish"]
        /\ windows' = windows /\ seen' = seen /\ capacity' = capacity /\ plan' = plan
    BY <1>1 DEF Persist
  <2>2. pc'[a] = "publish"
    BY <2>1 DEF PlannersTyped
  <2>3. PassTyped(a)'
    BY <1>1, <2>1, <2>2 DEF PlannersTyped, PassTyped
  <2>4. pc' \in [Planners -> Steps] /\ \A b \in Planners \ {a} : pc'[b] = pc[b]
    BY <2>1 DEF PlannersTyped, Steps
  <2>5. /\ windows' = [b \in Planners |-> windows'[b]]
        /\ capacity' = [b \in Planners |-> capacity'[b]]
        /\ seen' \in [Planners -> 0 .. MaxWrites]
        /\ plan' \in [Planners -> Plans \union {None}]
    BY <2>1 DEF PlannersTyped
  <2> QED BY <2>1, <2>3, <2>4, <2>5, OthersTyped
<1>2. CASE a # Optimizer
  BY <1>2, EndPassTyped DEF Persist
<1> QED BY <1>1, <1>2

LEMMA RunIsRun ==
  ASSUME PlannersTyped, NEW a \in Planners
  PROVE  RunOf(a) \in Runs
BY DEF PlannersTyped, RunOf, Runs

LEMMA FaultTyped ==
  ASSUME faults \in 0 .. MaxFaults, NEW kind, Fault(kind)
  PROVE  faults' \in 0 .. MaxFaults
BY PlanningAssumption DEF Fault

LEMMA WriteTyped == Typed /\ (GridWrite \/ PlantWrite) => Typed'
<1> SUFFICES ASSUME Typed, GridWrite \/ PlantWrite PROVE Typed'
  OBVIOUS
<1>1. /\ writes' \in 0 .. MaxWrites
      /\ UNCHANGED <<passVars, storeVars, topicVars, advisorVars, faults>>
  BY PlanningAssumption DEF GridWrite, PlantWrite, Written, Typed, LedgerTyped
<1>2. LedgerTyped'
  BY <1>1 DEF GridWrite, PlantWrite, Typed, LedgerTyped
<1> QED BY <1>1, <1>2
        DEF Typed, PlannersTyped, PassTyped, StoreTyped, TopicTyped, AdvisorTyped,
            passVars, storeVars, topicVars, advisorVars

\* The steps of a planner, the ledger's and the advisors' variables aside.
LEMMA PlannerTyped ==
  ASSUME Typed, PlannersTyped', StoreTyped', TopicTyped', faults' \in 0 .. MaxFaults,
         UNCHANGED <<ledgerVars, advisorVars>>
  PROVE  Typed'
BY DEF Typed, LedgerTyped, AdvisorTyped, ledgerVars, advisorVars

LEMMA NextTyped == Typed /\ [Next]_vars => Typed'
<1> SUFFICES ASSUME Typed, [Next]_vars PROVE Typed'
  OBVIOUS
<1> USE OptimizerPlans
<1>a. /\ LedgerTyped /\ PlannersTyped /\ StoreTyped /\ TopicTyped /\ AdvisorTyped
      /\ faults \in 0 .. MaxFaults
  BY DEF Typed
<1>b. UNCHANGED storeVars => StoreTyped'
  BY <1>a DEF StoreTyped, storeVars
<1>c. UNCHANGED topicVars => TopicTyped'
  BY <1>a DEF TopicTyped, topicVars
<1>1. CASE GridWrite \/ PlantWrite
  BY <1>1, WriteTyped
<1>2. ASSUME NEW a \in Planners,
             LoadWindows(a) \/ LoadCapacity(a) \/ TooFewWindows(a) \/ SolveLocally(a)
               \/ SolveRemotely(a) \/ RemoteEmpty(a)
      PROVE  Typed'
  <2>1. PlannersTyped'
    BY <1>2, <1>a, LoadWindowsTyped, LoadCapacityTyped, SolvingTyped
  <2>2. UNCHANGED <<ledgerVars, storeVars, topicVars, advisorVars>>
    BY <1>2 DEF LoadWindows, LoadCapacity, TooFewWindows, SolveLocally, SolveRemotely,
                RemoteEmpty
  <2>3. faults' \in 0 .. MaxFaults
    BY <1>2, <1>a, FaultTyped
       DEF LoadWindows, LoadCapacity, TooFewWindows, SolveLocally, SolveRemotely, RemoteEmpty
  <2> QED BY <1>b, <1>c, <2>1, <2>2, <2>3, PlannerTyped
<1>3. ASSUME NEW a \in Planners, Persist(a) \/ PersistFails(a) PROVE Typed'
  <2>1. PlannersTyped'
    BY <1>3, <1>a, PersistTyped, EndPassTyped DEF PersistFails
  <2>2. StoreTyped'
    <3>1. RunOf(a) \in Runs
      BY <1>a, RunIsRun
    <3>2. Stored(RunOf(a)) \/ UNCHANGED storeVars
      BY <1>3 DEF Persist, PersistFails
    <3> QED BY <1>a, <1>b, <3>1, <3>2 DEF Stored, StoreTyped
  <2>3. UNCHANGED <<ledgerVars, topicVars, advisorVars>>
    BY <1>3 DEF Persist, PersistFails
  <2>4. faults' \in 0 .. MaxFaults
    BY <1>3, <1>a, FaultTyped DEF Persist, PersistFails
  <2> QED BY <1>c, <2>1, <2>2, <2>3, <2>4, PlannerTyped
<1>4. ASSUME NEW a \in Planners, ReadFails(a) PROVE Typed'
  <2>1. PlannersTyped' /\ faults' \in 0 .. MaxFaults
    BY <1>4, <1>a, EndPassTyped, FaultTyped DEF ReadFails
  <2>2. UNCHANGED <<ledgerVars, storeVars, topicVars, advisorVars>>
    BY <1>4 DEF ReadFails
  <2> QED BY <1>b, <1>c, <2>1, <2>2, PlannerTyped
<1>5. CASE Publish \/ PublishFails
  <2>1. PlannersTyped' /\ faults' \in 0 .. MaxFaults
    BY <1>5, <1>a, EndPassTyped, FaultTyped DEF Publish, PublishFails
  <2>2. RunOf(Optimizer) \in Runs
    BY <1>a, RunIsRun
  <2>3. TopicTyped'
    BY <1>5, <1>a, <2>2 DEF Publish, PublishFails, TopicTyped
  <2>4. UNCHANGED <<ledgerVars, storeVars, advisorVars>>
    BY <1>5 DEF Publish, PublishFails
  <2> QED BY <1>b, <2>1, <2>3, <2>4, PlannerTyped
<1>6. CASE LateCopy
  <2>1. UNCHANGED <<ledgerVars, passVars, storeVars, advisorVars, faults>>
    BY <1>6 DEF LateCopy
  <2>2. TopicTyped'
    BY <1>6, <1>a DEF LateCopy, TopicTyped
  <2>3. PlannersTyped'
    BY <1>a, <2>1 DEF passVars, PlannersTyped, PassTyped
  <2> QED BY <1>a, <1>b, <2>1, <2>2, <2>3, PlannerTyped
<1>7. ASSUME NEW a \in Planners, PlannerCrash(a) PROVE Typed'
  <2>1. PlannersTyped' /\ faults' \in 0 .. MaxFaults
    BY <1>7, <1>a, EndPassTyped, FaultTyped DEF PlannerCrash
  <2>2. UNCHANGED <<ledgerVars, storeVars, advisorVars>>
    BY <1>7 DEF PlannerCrash
  <2>3. TopicTyped'
    BY <1>7, <1>a DEF PlannerCrash, TopicTyped
  <2> QED BY <1>b, <2>1, <2>2, <2>3, PlannerTyped
<1>8. ASSUME NEW o \in Advisors, AdvisorStep(o)
      PROVE  Typed'
  <2>1. UNCHANGED <<ledgerVars, passVars, storeVars, topicVars>>
    BY <1>8
    DEF AdvisorStep, ReadContext, Advise, ReplyUnreadable, AdvisorCrash, AdviceFails, EndAsking
  <2>2. faults' \in 0 .. MaxFaults
    BY <1>8, <1>a, FaultTyped
    DEF AdvisorStep, ReadContext, Advise, ReplyUnreadable, AdvisorCrash, AdviceFails
  <2>3. AdvisorTyped'
    <3>1. Listening(o) \in {"idle", "done"} /\ latest \in Runs \union {None}
      BY <1>a DEF Listening, StoreTyped
    <3> QED BY <1>8, <1>a, <3>1
            DEF AdvisorTyped, AdvisorStep, ReadContext, Advise, ReplyUnreadable, AdvisorCrash,
                AdviceFails, EndAsking
  <2>4. PlannersTyped'
    BY <1>a, <2>1 DEF passVars, PlannersTyped, PassTyped
  <2>5. LedgerTyped'
    BY <1>a, <2>1 DEF ledgerVars, LedgerTyped
  <2> QED BY <1>b, <1>c, <2>1, <2>2, <2>3, <2>4, <2>5 DEF Typed
<1>9. CASE UNCHANGED vars
  BY <1>9 DEF vars, Typed, LedgerTyped, PlannersTyped, PassTyped, StoreTyped, TopicTyped,
              AdvisorTyped, ledgerVars, passVars, storeVars, topicVars, advisorVars
<1> QED BY <1>1, <1>2, <1>3, <1>4, <1>5, <1>6, <1>7, <1>8, <1>9 DEF Next, Step, AdvisorStep

\* Every reachable state is well typed: a pass holds no more windows than the horizon, the
\* capacity of exactly those, and a plan only between build_plan and the end of the pass;
\* only the service publishes, and only a plan with decisions is about to be stored
\* (loop.py, load_windows, load_capacity, run_once).
THEOREM TypeCorrect == Spec => []TypeOK
BY InitTyped, NextTyped, TypedIsTypeOK, PTL DEF Spec

-----------------------------------------------------------------------------
(* The best plan.                                                          *)

Undisturbed(a) == seen[a] = writes
AllReported    == Cardinality(PlantRows) <= RowLimit

\* The plan alone is not inductive.  Until a write disturbs it, a pass holds the horizon as
\* the ledger has it and, once it has read the capacity too, the ceiling of each window.
ReadingIsCurrent(a) ==
  /\ seen[a] <= writes
  /\ pc[a] \in {"capacity", "solve"} /\ Undisturbed(a) => windows[a] = Restrict(grid, InHorizon)
  /\ (pc[a] = "solve" /\ Undisturbed(a) /\ Cardinality(DOMAIN windows[a]) >= 2 /\ AllReported)
       => capacity[a] = CapacityOf(PlantRows, InHorizon)

IsBest(at) ==
  /\ at # None => /\ at \in InHorizon
                  /\ Reports(at) # {} => \E c \in Reports(at) : c >= Load
  /\ \A w \in InHorizon :
       (\E c \in Reports(w) : c >= Load) => at # None /\ grid[at] <= grid[w]

PlanIsBest(a) ==
  plan[a] # None /\ plan[a].solver = "local" /\ Undisturbed(a) /\ AllReported
    => IsBest(plan[a].at)

Current == \A a \in Planners : ReadingIsCurrent(a) /\ PlanIsBest(a)

LEMMA CurrentIsBest == Current => UndisturbedPlanIsBest
BY DEF Current, PlanIsBest, IsBest, Undisturbed, AllReported, UndisturbedPlanIsBest

\* The ceiling of a window some plant has reported for is the greatest of its reports.
LEMMA CeilingIsGreatest ==
  ASSUME LedgerTyped, NEW w \in Windows, Reports(w) # {}
  PROVE  /\ PlantRows # {}
         /\ Ceiling(PlantRows, w) \in Reports(w)
         /\ Ceiling(PlantRows, w) \in Nat
         /\ \A c \in Reports(w) : c <= Ceiling(PlantRows, w)
<1> USE PlanningAssumption
<1> DEFINE own == {r \in PlantRows : r[2] = w}
           V == {plant[r] : r \in own}
<1>1. V = Reports(w)
  <2>1. ASSUME NEW r \in own PROVE plant[r] \in Reports(w)
    <3>1. r \in Plants \X Windows /\ plant[r] # None /\ r[2] = w
      BY DEF PlantRows
    <3>2. r[1] \in Plants /\ r = <<r[1], w>>
      BY <3>1
    <3> QED BY <3>1, <3>2 DEF Reports
  <2>2. ASSUME NEW p \in Plants, plant[<<p, w>>] # None PROVE plant[<<p, w>>] \in V
    <3>1. <<p, w>> \in own
      BY <2>2 DEF PlantRows
    <3> QED BY <3>1
  <2> QED BY <2>1, <2>2 DEF Reports
<1>2. own # {} /\ PlantRows # {}
  BY <1>1
<1>3. Ceiling(PlantRows, w) = Max(V)
  BY <1>2 DEF Ceiling
<1>4. V \subseteq Nat
  <2>1. Reports(w) \subseteq Capacities
    BY DEF Reports, LedgerTyped
  <2> QED BY <1>1, <2>1
<1>5. IsFiniteSet(V)
  <2> DEFINE g == [p \in Plants |-> plant[<<p, w>>]]
             R == {plant[<<p, w>>] : p \in Plants}
  <2>1. g \in Surjection(Plants, R)
    BY DEF Surjection
  <2>2. IsFiniteSet(R)
    <3> HIDE DEF g, R
    <3> QED BY <2>1, FS_Surjection
  <2>3. V \subseteq R
    BY <1>1 DEF Reports
  <2> HIDE DEF V, R
  <2> QED BY <2>2, <2>3, FS_Subset
<1>6. Max(V) \in V /\ \A c \in V : c <= Max(V)
  <2> HIDE DEF V
  <2> QED BY <1>1, <1>4, <1>5, MaxIsGreatest
<1> QED BY <1>1, <1>2, <1>3, <1>4, <1>6

\* Every window that a plant has room for is feasible, and none that all have too little for.
LEMMA LocalIsBest ==
  ASSUME LedgerTyped, PlannersTyped, NEW a \in Planners, ReadingIsCurrent(a), Solving(a),
         Undisturbed(a), AllReported
  PROVE  IsBest(Best(a))
<1> USE PlanningAssumption
<1>1. windows[a] = Restrict(grid, InHorizon) /\ capacity[a] = CapacityOf(PlantRows, InHorizon)
  BY DEF ReadingIsCurrent, Solving
<1>2. /\ DOMAIN windows[a] = InHorizon
      /\ \A w \in InHorizon : windows[a][w] = grid[w]
      /\ \A w \in InHorizon :
           capacity[a][w] = IF PlantRows = {} THEN None ELSE Ceiling(PlantRows, w)
  BY <1>1 DEF Restrict, CapacityOf
<1>3. /\ InHorizon \subseteq Windows /\ InHorizon \subseteq Nat
      /\ \A w \in InHorizon : grid[w] \in Nat /\ w # None
  BY DEF InHorizon, GridRows, LedgerTyped
<1>4. ASSUME NEW w \in InHorizon, Reports(w) # {}
      PROVE  w \in Feasible(a) <=> \E c \in Reports(w) : c >= Load
  <2>1. /\ PlantRows # {}
        /\ Ceiling(PlantRows, w) \in Reports(w) /\ Ceiling(PlantRows, w) \in Nat
        /\ \A c \in Reports(w) : c <= Ceiling(PlantRows, w)
    BY <1>3, <1>4, CeilingIsGreatest
  <2>2. capacity[a][w] = Ceiling(PlantRows, w) /\ capacity[a][w] # None
    <3>1. None \notin Reports(w)
      BY DEF Reports
    <3> QED BY <1>2, <2>1, <3>1
  <2>3. w \in Feasible(a) <=> Ceiling(PlantRows, w) >= Load
    BY <1>2, <2>2 DEF Feasible
  <2>4. \A c \in Reports(w) : c \in Nat
    BY <1>3 DEF Reports, LedgerTyped
  <2> QED BY <2>1, <2>3, <2>4
<1>5. Feasible(a) \subseteq InHorizon
  BY <1>2 DEF Feasible
<1>6. CASE Feasible(a) = {}
  <2>1. Best(a) = None
    BY <1>6, BestIsCleanest
  <2>2. \A w \in InHorizon : ~\E c \in Reports(w) : c >= Load
    BY <1>4, <1>6
  <2> QED BY <2>1, <2>2 DEF IsBest
<1>7. CASE Feasible(a) # {}
  <2>1. Best(a) \in Cleanest(a)
    BY <1>7, BestIsCleanest
  <2>2. Best(a) \in Feasible(a) /\ Best(a) \in InHorizon /\ Best(a) # None
    BY <1>3, <1>5, <2>1 DEF Cleanest
  <2>3. ASSUME NEW w \in InHorizon, \E c \in Reports(w) : c >= Load
        PROVE  grid[Best(a)] <= grid[w]
    <3>1. w \in Feasible(a)
      BY <1>4, <2>3
    <3>2. windows[a][Best(a)] < windows[a][w] \/ windows[a][Best(a)] = windows[a][w]
      BY <2>1, <3>1 DEF Cleanest
    <3>3. /\ windows[a][Best(a)] = grid[Best(a)] /\ grid[Best(a)] \in Nat
          /\ windows[a][w] = grid[w] /\ grid[w] \in Nat
      BY <1>2, <1>3, <2>2
    <3> QED BY <3>2, <3>3
  <2>4. Reports(Best(a)) # {} => \E c \in Reports(Best(a)) : c >= Load
    BY <1>4, <2>2
  <2> QED BY <2>2, <2>3, <2>4 DEF IsBest
<1> QED BY <1>6, <1>7

LEMMA InitCurrent == Init => Current
BY PlanningAssumption DEF Init, Current, ReadingIsCurrent, PlanIsBest

\* A write disturbs every pass under way.
LEMMA WriteDisturbs ==
  ASSUME Typed, Current, GridWrite \/ PlantWrite
  PROVE  Current'
<1>1. writes' = writes + 1 /\ writes \in Nat /\ UNCHANGED passVars
  BY PlanningAssumption DEF GridWrite, PlantWrite, Written, Typed, LedgerTyped
<1>2. ASSUME NEW a \in Planners
      PROVE  seen'[a] <= writes' /\ seen'[a] # writes'
  <2>1. seen'[a] = seen[a] /\ seen[a] \in Nat /\ seen[a] <= writes
    BY <1>1, PlanningAssumption
       DEF passVars, Typed, PlannersTyped, Current, ReadingIsCurrent
  <2> QED BY <1>1, <2>1
<1> QED BY <1>2 DEF Current, ReadingIsCurrent, PlanIsBest, Undisturbed

\* Without a write the other planners are as current as they were.
LEMMA OthersCurrent ==
  ASSUME Current, NEW a \in Planners, UNCHANGED ledgerVars,
         ReadingIsCurrent(a)', PlanIsBest(a)',
         \A b \in Planners \ {a} : /\ pc'[b] = pc[b] /\ windows'[b] = windows[b]
                                   /\ capacity'[b] = capacity[b] /\ plan'[b] = plan[b]
                                   /\ seen'[b] = seen[b]
  PROVE  Current'
<1>1. ASSUME NEW b \in Planners \ {a}
      PROVE  ReadingIsCurrent(b)' /\ PlanIsBest(b)'
  <2>1. ReadingIsCurrent(b) /\ PlanIsBest(b)
    BY DEF Current
  <2>2. /\ grid' = grid /\ plant' = plant /\ writes' = writes
        /\ pc'[b] = pc[b] /\ windows'[b] = windows[b] /\ capacity'[b] = capacity[b]
        /\ plan'[b] = plan[b] /\ seen'[b] = seen[b]
    BY DEF ledgerVars
  <2>3. PlantRows' = PlantRows /\ InHorizon' = InHorizon /\ \A w : Reports(w)' = Reports(w)
    BY <2>2 DEF PlantRows, InHorizon, GridRows, Reports
  <2>4. CapacityOf(PlantRows, InHorizon)' = CapacityOf(PlantRows, InHorizon)
    BY <2>2, <2>3 DEF CapacityOf, Ceiling
  <2>5. ReadingIsCurrent(b)'
    BY <2>1, <2>2, <2>3, <2>4 DEF ReadingIsCurrent, Undisturbed, AllReported
  <2>6. PlanIsBest(b)'
    BY <2>1, <2>2, <2>3 DEF PlanIsBest, IsBest, Undisturbed, AllReported
  <2> QED BY <2>5, <2>6
<1> QED BY <1>1 DEF Current

LEMMA EndPassCurrent ==
  ASSUME Typed, Current, NEW a \in Planners, EndPass(a), UNCHANGED ledgerVars
  PROVE  Current'
<1>1. Resting(a) \in {"idle", "done"}
  BY DEF Resting
<1>2. pc'[a] = Resting(a) /\ plan'[a] = None /\ seen'[a] = 0 /\ writes' = writes
  BY DEF EndPass, Typed, PlannersTyped, ledgerVars
<1>3. ReadingIsCurrent(a)' /\ PlanIsBest(a)'
  BY <1>1, <1>2, PlanningAssumption DEF ReadingIsCurrent, PlanIsBest, Typed, LedgerTyped
<1>4. \A b \in Planners \ {a} : /\ pc'[b] = pc[b] /\ windows'[b] = windows[b]
                                /\ capacity'[b] = capacity[b] /\ plan'[b] = plan[b]
                                /\ seen'[b] = seen[b]
  BY DEF EndPass, Typed, PlannersTyped
<1> QED BY <1>3, <1>4, OthersCurrent

\* A plan is current if it is not local or is the best of what the pass held.
LEMMA PlannedCurrent ==
  ASSUME Typed, Current, NEW a \in Planners, NEW solver, NEW at, Planned(a, solver, at),
         UNCHANGED ledgerVars,
         solver = "local" /\ Undisturbed(a) /\ AllReported => IsBest(at)
  PROVE  Current'
<1>1. CASE at = None /\ a # Optimizer
  BY <1>1, EndPassCurrent DEF Planned
<1>2. CASE ~(at = None /\ a # Optimizer)
  <2> DEFINE new == [solver |-> solver, at |-> at]
             to == IF at = None THEN "publish" ELSE "persist"
  <2>1. /\ pc' = [pc EXCEPT ![a] = to]
        /\ plan' = [plan EXCEPT ![a] = new]
        /\ windows' = [windows EXCEPT ![a] = <<>>]
        /\ capacity' = [capacity EXCEPT ![a] = <<>>]
        /\ seen' = seen
    BY <1>2 DEF Planned
  <2>2. new.solver = solver /\ new.at = at /\ to \notin {"capacity", "solve"}
    OBVIOUS
  <2> HIDE DEF new, to
  <2>3. pc'[a] = to /\ plan'[a] = new
    BY <2>1 DEF Typed, PlannersTyped
  <2>4. grid' = grid /\ plant' = plant /\ writes' = writes
    BY DEF ledgerVars
  <2>5. PlantRows' = PlantRows /\ InHorizon' = InHorizon /\ \A w : Reports(w)' = Reports(w)
    BY <2>4 DEF PlantRows, InHorizon, GridRows, Reports
  <2>6. PlanIsBest(a)'
    <3>1. ASSUME solver = "local", Undisturbed(a), AllReported
          PROVE  /\ at # None => /\ at \in InHorizon
                                 /\ Reports(at) # {} => \E c \in Reports(at) : c >= Load
                 /\ \A w \in InHorizon :
                      (\E c \in Reports(w) : c >= Load) => at # None /\ grid[at] <= grid[w]
      BY <3>1 DEF IsBest
    <3> QED BY <2>1, <2>2, <2>3, <2>4, <2>5, <3>1
            DEF PlanIsBest, IsBest, Undisturbed, AllReported
  <2>7. ReadingIsCurrent(a)'
    BY <2>1, <2>2, <2>3, <2>4 DEF Current, ReadingIsCurrent
  <2>8. \A b \in Planners \ {a} : /\ pc'[b] = pc[b] /\ windows'[b] = windows[b]
                                  /\ capacity'[b] = capacity[b] /\ plan'[b] = plan[b]
                                  /\ seen'[b] = seen[b]
    BY <2>1 DEF Typed, PlannersTyped
  <2> QED BY <2>6, <2>7, <2>8, OthersCurrent
<1> QED BY <1>1, <1>2

LEMMA LoadWindowsCurrent ==
  ASSUME Typed, Current, NEW a \in Planners, LoadWindows(a)
  PROVE  Current'
<1>1. PICK ws \in NewestWindows :
        /\ windows' = [windows EXCEPT ![a] = Restrict(grid, ws)]
        /\ pc' = [pc EXCEPT ![a] = IF Cardinality(ws) < 2 THEN "solve" ELSE "capacity"]
  BY DEF LoadWindows
<1>2. /\ pc[a] = "idle" /\ seen' = [seen EXCEPT ![a] = writes]
      /\ capacity' = capacity /\ plan' = plan /\ UNCHANGED ledgerVars
  BY DEF LoadWindows
<1>3. /\ windows'[a] = Restrict(grid, ws) /\ seen'[a] = writes /\ plan'[a] = None
      /\ pc'[a] = IF Cardinality(ws) < 2 THEN "solve" ELSE "capacity"
  BY <1>1, <1>2 DEF Typed, PlannersTyped, PassTyped
<1>4. ws = InHorizon /\ Cardinality(ws) \in Nat /\ DOMAIN Restrict(grid, ws) = ws
  BY NewestAreTheHorizon, NewestWindowsAreWindows DEF Restrict
<1>5. writes \in Nat /\ writes' = writes /\ grid' = grid /\ InHorizon' = InHorizon
  BY <1>2, PlanningAssumption DEF Typed, LedgerTyped, ledgerVars, InHorizon, GridRows
<1>6. ReadingIsCurrent(a)'
  <2>1. seen'[a] <= writes' /\ windows'[a] = Restrict(grid', InHorizon')
    BY <1>3, <1>4, <1>5
  <2>2. pc'[a] = "solve" => ~(Cardinality(DOMAIN windows'[a]) >= 2)
    <3>1. DOMAIN windows'[a] = ws
      BY <1>3, <1>4
    <3> QED BY <1>3, <1>4, <3>1
  <2> QED BY <2>1, <2>2 DEF ReadingIsCurrent
<1>7. PlanIsBest(a)'
  BY <1>3 DEF PlanIsBest
<1>8. \A b \in Planners \ {a} : /\ pc'[b] = pc[b] /\ windows'[b] = windows[b]
                                /\ capacity'[b] = capacity[b] /\ plan'[b] = plan[b]
                                /\ seen'[b] = seen[b]
  BY <1>1, <1>2 DEF Typed, PlannersTyped
<1> QED BY <1>2, <1>6, <1>7, <1>8, OthersCurrent

LEMMA LoadCapacityCurrent ==
  ASSUME Typed, Current, NEW a \in Planners, LoadCapacity(a)
  PROVE  Current'
<1>1. PICK rows \in NewestReports :
        capacity' = [capacity EXCEPT ![a] = CapacityOf(rows, DOMAIN windows[a])]
  BY DEF LoadCapacity
<1>2. /\ pc[a] = "capacity" /\ pc' = [pc EXCEPT ![a] = "solve"]
      /\ windows' = windows /\ seen' = seen /\ plan' = plan /\ UNCHANGED ledgerVars
  BY DEF LoadCapacity
<1>3. /\ capacity'[a] = CapacityOf(rows, DOMAIN windows[a]) /\ plan'[a] = None
  BY <1>1, <1>2 DEF Typed, PlannersTyped, PassTyped
<1>4. AllReported => rows = PlantRows
  <2> DEFINE from == [r \in PlantRows |-> r[2]]
  <2>1. rows \in Newest(PlantRows, from, RowLimit) /\ RowLimit \in Nat
    BY PlanningAssumption DEF NewestReports
  <2> HIDE DEF from
  <2> QED BY <2>1, TablesAreFinite, NewestAreLimited DEF AllReported
<1>5. /\ grid' = grid /\ writes' = writes /\ PlantRows' = PlantRows /\ InHorizon' = InHorizon
      /\ CapacityOf(PlantRows, InHorizon)' = CapacityOf(PlantRows, InHorizon)
  BY <1>2 DEF ledgerVars, PlantRows, InHorizon, GridRows, CapacityOf, Ceiling
<1>6. seen[a] <= writes /\ (Undisturbed(a) => windows[a] = Restrict(grid, InHorizon))
  BY <1>2 DEF Current, ReadingIsCurrent
<1>7. DOMAIN Restrict(grid, InHorizon) = InHorizon
  BY DEF Restrict
<1>8. Undisturbed(a) /\ AllReported => capacity'[a] = CapacityOf(PlantRows, InHorizon)
  BY <1>3, <1>4, <1>6, <1>7
<1>9. ReadingIsCurrent(a)'
  BY <1>2, <1>5, <1>6, <1>8 DEF ReadingIsCurrent, Undisturbed, AllReported
<1>10. PlanIsBest(a)'
  BY <1>3 DEF PlanIsBest
<1>11. \A b \in Planners \ {a} : /\ pc'[b] = pc[b] /\ windows'[b] = windows[b]
                                 /\ capacity'[b] = capacity[b] /\ plan'[b] = plan[b]
                                 /\ seen'[b] = seen[b]
  BY <1>1, <1>2 DEF Typed, PlannersTyped
<1> QED BY <1>2, <1>9, <1>10, <1>11, OthersCurrent

LEMMA SolvingCurrent ==
  ASSUME Typed, Current, NEW a \in Planners,
         TooFewWindows(a) \/ SolveLocally(a) \/ SolveRemotely(a) \/ RemoteEmpty(a)
  PROVE  Current'
<1>1. UNCHANGED ledgerVars
  BY DEF TooFewWindows, SolveLocally, SolveRemotely, RemoteEmpty
<1>2. CASE SolveLocally(a)
  <2>1. Undisturbed(a) /\ AllReported => IsBest(Best(a))
    BY <1>2, LocalIsBest DEF SolveLocally, Current, Typed
  <2> QED BY <1>1, <1>2, <2>1, PlannedCurrent DEF SolveLocally
<1>3. CASE TooFewWindows(a) \/ SolveRemotely(a) \/ RemoteEmpty(a)
  <2>1. PICK solver \in {"none", "remote"}, at \in {None, Max(DOMAIN windows[a])} :
          Planned(a, solver, at)
    BY <1>3 DEF TooFewWindows, SolveRemotely, RemoteEmpty
  <2>2. solver # "local"
    OBVIOUS
  <2> QED BY <1>1, <2>1, <2>2, PlannedCurrent
<1> QED BY <1>2, <1>3

\* What is stored or announced is the plan that the pass still holds.
LEMMA PersistCurrent ==
  ASSUME Typed, Current, NEW a \in Planners, Persist(a)
  PROVE  Current'
<1>1. UNCHANGED ledgerVars
  BY DEF Persist
<1>2. CASE a = Optimizer
  <2>1. /\ pc' = [pc EXCEPT ![a] = "publish"]
        /\ windows' = windows /\ seen' = seen /\ capacity' = capacity /\ plan' = plan
    BY <1>2 DEF Persist
  <2>2. pc'[a] = "publish"
    BY <2>1 DEF Typed, PlannersTyped
  <2>3. ReadingIsCurrent(a)'
    BY <1>1, <2>1, <2>2 DEF Current, ReadingIsCurrent, ledgerVars
  <2>4. PlanIsBest(a)'
    BY <1>1, <2>1 DEF Current, PlanIsBest, IsBest, Undisturbed, AllReported, PlantRows,
                      InHorizon, GridRows, Reports, ledgerVars
  <2>5. \A b \in Planners \ {a} : pc'[b] = pc[b]
    BY <2>1 DEF Typed, PlannersTyped
  <2> QED BY <1>1, <2>1, <2>3, <2>4, <2>5, OthersCurrent
<1>3. CASE a # Optimizer
  BY <1>1, <1>3, EndPassCurrent DEF Persist
<1> QED BY <1>2, <1>3

LEMMA AsideCurrent ==
  ASSUME Current, UNCHANGED <<ledgerVars, passVars>>
  PROVE  Current'
<1>1. /\ grid' = grid /\ plant' = plant /\ writes' = writes /\ pc' = pc /\ windows' = windows
      /\ seen' = seen /\ capacity' = capacity /\ plan' = plan
  BY DEF ledgerVars, passVars
<1>2. ASSUME NEW a \in Planners
      PROVE  ReadingIsCurrent(a)' /\ PlanIsBest(a)'
  <2>1. ReadingIsCurrent(a) /\ PlanIsBest(a)
    BY DEF Current
  <2>2. PlantRows' = PlantRows /\ InHorizon' = InHorizon /\ \A w : Reports(w)' = Reports(w)
    BY <1>1 DEF PlantRows, InHorizon, GridRows, Reports
  <2>3. CapacityOf(PlantRows, InHorizon)' = CapacityOf(PlantRows, InHorizon)
    BY <1>1, <2>2 DEF CapacityOf, Ceiling
  <2> QED BY <1>1, <2>1, <2>2, <2>3
          DEF ReadingIsCurrent, PlanIsBest, IsBest, Undisturbed, AllReported
<1> QED BY <1>2 DEF Current

LEMMA NextCurrent == Typed /\ Current /\ [Next]_vars => Current'
<1> SUFFICES ASSUME Typed, Current, [Next]_vars PROVE Current'
  OBVIOUS
<1> USE OptimizerPlans
<1>1. ASSUME NEW a \in Planners, Step(a) PROVE Current'
  BY <1>1, LoadWindowsCurrent, LoadCapacityCurrent, SolvingCurrent, PersistCurrent DEF Step
<1>2. ASSUME NEW a \in Planners,
             RemoteEmpty(a) \/ PersistFails(a) \/ ReadFails(a) \/ PlannerCrash(a)
      PROVE  Current'
  BY <1>2, SolvingCurrent, EndPassCurrent DEF PersistFails, ReadFails, PlannerCrash
<1>3. CASE Publish \/ PublishFails
  BY <1>3, EndPassCurrent DEF Publish, PublishFails
<1>4. CASE LateCopy
  BY <1>4, AsideCurrent DEF LateCopy
<1>5. ASSUME NEW o \in Advisors, AdvisorStep(o)
      PROVE  Current'
  BY <1>5, AsideCurrent
  DEF AdvisorStep, ReadContext, Advise, ReplyUnreadable, AdvisorCrash, AdviceFails, EndAsking
<1>6. CASE UNCHANGED vars
  BY <1>6, AsideCurrent DEF vars
<1> QED BY <1>1, <1>2, <1>3, <1>4, <1>5, <1>6, WriteDisturbs DEF Next, AdvisorStep

\* A local plan of a pass that no write disturbed is the best the ledger allows, unless the
\* LIMIT on plant rows cut off a report, although windows and capacity come from two
\* sessions and the plan is used after a third wait; for any windows, plants, intensities,
\* capacities, planners and faults (loop.py, load_windows, load_capacity, build_plan;
\* solver.py, solve).
THEOREM BestPlan == Spec => []UndisturbedPlanIsBest
<1>1. Init => Typed /\ Current
  BY InitTyped, InitCurrent
<1>2. Typed /\ Current /\ [Next]_vars => (Typed /\ Current)'
  BY NextTyped, NextCurrent
<1>3. Typed /\ Current => UndisturbedPlanIsBest
  BY CurrentIsBest
<1> QED BY <1>1, <1>2, <1>3, PTL DEF Spec
=============================================================================
