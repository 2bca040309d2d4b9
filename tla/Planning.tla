------------------------------- MODULE Planning -------------------------------
(***************************************************************************)
(* From the ledger to a schedule and a comment on it: the optimizer        *)
(* service (ecogrid/optimizer/loop.py) and POST /optimize/run plan over    *)
(* the same tables that the consumers are writing; the orchestrator        *)
(* (ecogrid/orchestrator/loop.py) and POST /orchestrator/run comment on    *)
(* the newest run.                                                         *)
(*                                                                         *)
(* The portfolio is one process of one window and load Load: how several   *)
(* share the capacity is GreedySolver.  A run is told from another by the  *)
(* ledger it was planned from and by whether anything is scheduled: runs   *)
(* that agree there are one record here, though their run_ids differ.      *)
(* What nothing reads back is left out: advice on its topic, the tracking  *)
(* log.                                                                    *)
(***************************************************************************)
EXTENDS Integers, FiniteSets, FiniteSetsExt, Functions

CONSTANTS Windows,       \* settlement windows, numbered in time order
          Plants,        \* plants that report a capacity
          Horizon,       \* optimizer_horizon_windows
          RowLimit,      \* plant rows load_capacity reads, max(len(windows) * 4, 8)
          Intensities,   \* effective intensity of a grid window
          Capacities,    \* flexible load a plant reports
          Load,          \* load of the process
          Optimizer,     \* the service
          PlanRequests,  \* calls of POST /optimize/run
          Orchestrator,  \* the service
          AskRequests,   \* calls of POST /orchestrator/run
          Databricks,    \* whether the remote job is configured
          Backlogs,      \* bound: the ledgers the services may start with
          FaultKinds,    \* which faults may happen
          MaxWrites,     \* bound: changes of the ledger while the services run
          MaxFaults,     \* bound: faults in a behaviour
          None           \* no row, no ceiling, nothing scheduled, no run

Planners == {Optimizer} \union PlanRequests
Advisors == {Orchestrator} \union AskRequests

\* The tables have finitely many rows.
ASSUME PlanningAssumption ==
  /\ IsFiniteSet(Windows) /\ IsFiniteSet(Plants)
  /\ Windows \subseteq Nat /\ Intensities \subseteq Nat /\ Capacities \subseteq Nat
  /\ Horizon \in Nat \ {0, 1} /\ RowLimit \in Nat \ {0} /\ Load \in Nat \ {0}
  /\ Optimizer \notin PlanRequests /\ Orchestrator \notin AskRequests
  /\ Databricks \in BOOLEAN
  /\ FaultKinds \subseteq {"read", "store", "remote", "send", "crash", "reply"}
  /\ MaxWrites \in Nat /\ MaxFaults \in Nat
  /\ None \notin Windows \union Intensities \union Capacities
  /\ Backlogs \subseteq [grid  : [Windows -> Intensities \union {None}],
                         plant : [Plants \X Windows -> Capacities \union {None}]]

\* at is the window of the process, None when it is unscheduled.
Plans == [solver : {"none", "local", "remote"}, at : Windows \union {None}]
\* seen dates the ledger that was read; fits: there are decisions.
Runs  == [seen : 0 .. MaxWrites, fits : BOOLEAN]

\* A plan, like a run, is something.
ASSUME NoneAssumption == None \notin Plans \union Runs

VARIABLES
  grid,       \* grid_telemetry: effective intensity of each window
  plant,      \* plant_telemetry: flexible_load_mw of each plant and window
  writes,     \* history: changes of the ledger so far
  pc,         \* where each planner is
  windows,    \* the windows its pass read
  seen,       \* history: writes at that reading
  capacity,   \* what load_capacity returned to it
  plan,       \* what build_plan returned to it
  runs,       \* optimization_runs with their schedule_decisions
  latest,     \* the run with the greatest created_at
  announced,  \* the last schedule on ecogrid.decisions.schedule
  late,       \* schedules whose send timed out and may still arrive
  asking,     \* where each advisor is
  context,    \* the run its pass read
  advised,    \* the run the newest advice row refers to
  faults      \* history: faults so far

ledgerVars  == <<grid, plant, writes>>
passVars    == <<pc, windows, seen, capacity, plan>>
storeVars   == <<runs, latest>>
topicVars   == <<announced, late>>
advisorVars == <<asking, context, advised>>
vars == <<ledgerVars, passVars, storeVars, topicVars, advisorVars, faults>>

TypeOK ==
  /\ grid \in [Windows -> Intensities \union {None}]
  /\ plant \in [Plants \X Windows -> Capacities \union {None}]
  /\ writes \in 0 .. MaxWrites /\ faults \in 0 .. MaxFaults
  /\ pc \in [Planners -> {"idle", "capacity", "solve", "persist", "publish", "done"}]
  /\ \A a \in Planners : /\ DOMAIN windows[a] \subseteq Windows
                         /\ Cardinality(DOMAIN windows[a]) <= Horizon
                         /\ DOMAIN capacity[a] # {} => DOMAIN capacity[a] = DOMAIN windows[a]
                         /\ plan[a] # None <=> pc[a] \in {"persist", "publish"}
                         /\ pc[a] = "persist" => plan[a].at # None
                         /\ pc[a] = "publish" => a = Optimizer
  /\ seen \in [Planners -> 0 .. MaxWrites]
  /\ plan \in [Planners -> Plans \union {None}]
  /\ runs \subseteq Runs /\ latest \in runs \union {None}
  /\ announced \in Runs \union {None} /\ late \subseteq Runs
  /\ asking \in [Advisors -> {"idle", "ask", "done"}]
  /\ context \in [Advisors -> Runs \union {None}]
  /\ advised \in Runs \union {None}

\* The consumers have been writing before the services start.
Init ==
  /\ \E b \in Backlogs : grid = b.grid /\ plant = b.plant
  /\ writes = 0 /\ faults = 0
  /\ pc = [a \in Planners |-> "idle"]
  /\ windows = [a \in Planners |-> <<>>]
  /\ seen = [a \in Planners |-> 0]
  /\ capacity = [a \in Planners |-> <<>>]
  /\ plan = [a \in Planners |-> None]
  /\ runs = {} /\ latest = None
  /\ announced = None /\ late = {}
  /\ asking = [o \in Advisors |-> "idle"]
  /\ context = [o \in Advisors |-> None]
  /\ advised = None

Fault(kind) == /\ kind \in FaultKinds
               /\ faults < MaxFaults
               /\ faults' = faults + 1

-----------------------------------------------------------------------------
(* The ledger.                                                             *)

Written == /\ writes < MaxWrites
           /\ writes' = writes + 1
           /\ UNCHANGED <<passVars, storeVars, topicVars, advisorVars, faults>>

\* The telemetry consumer upserts a window.
GridWrite == /\ \E w \in Windows, i \in Intensities : /\ grid[w] # i
                                                      /\ grid' = [grid EXCEPT ![w] = i]
             /\ Written
             /\ UNCHANGED plant

\* The plant consumer upserts a reading.
PlantWrite == /\ \E r \in Plants \X Windows, c \in Capacities : /\ plant[r] # c
                                                                /\ plant' = [plant EXCEPT ![r] = c]
              /\ Written
              /\ UNCHANGED grid

-----------------------------------------------------------------------------
(* One optimisation pass.                                                  *)

\* ORDER BY window_from DESC LIMIT n, over any rows; ties are broken either way.
Newest(rows, from, n) ==
  {top \in SUBSET rows : /\ Cardinality(top) = Min({n, Cardinality(rows)})
                         /\ \A r \in rows \ top, t \in top : from[r] <= from[t]}

GridRows  == {w \in Windows : grid[w] # None}
PlantRows == {r \in Plants \X Windows : plant[r] # None}

NewestWindows == Newest(GridRows, [w \in GridRows |-> w], Horizon)
NewestReports == Newest(PlantRows, [r \in PlantRows |-> r[2]], RowLimit)

\* Mutant of Ceiling: the greatest report for any window.
CeilingOfAll(rows, w) == Max({plant[r] : r \in rows})

\* The ceiling of window w from the plant rows read: the greatest report for it, else of all.
Ceiling(rows, w) ==
  LET own == {r \in rows : r[2] = w}
  IN  Max({plant[r] : r \in IF own = {} THEN rows ELSE own})

\* Mutant of CapacityOf: indexed by the plant's windows, not by the grid's.
CapacityByPlant(rows, ws) == [w \in {r[2] : r \in rows} |-> Ceiling(rows, w)]

CapacityOf(rows, ws) == [w \in ws |-> IF rows = {} THEN None ELSE Ceiling(rows, w)]

\* Windows with room for the process, and the cleanest of them, the earliest first.
Feasible(a) == {w \in DOMAIN windows[a] : capacity[a][w] = None \/ capacity[a][w] >= Load}
Cleanest(a) == {w \in Feasible(a) : \A v \in Feasible(a) :
                  \/ windows[a][w] < windows[a][v]
                  \/ windows[a][w] = windows[a][v] /\ w <= v}
Best(a)     == IF Feasible(a) = {} THEN None ELSE CHOOSE w \in Cleanest(a) : TRUE

Resting(a) == IF a = Optimizer THEN "idle" ELSE "done"

\* The pass of planner a is over: what it had read and built is gone.
EndPass(a) == /\ pc' = [pc EXCEPT ![a] = Resting(a)]
              /\ windows' = [windows EXCEPT ![a] = <<>>]
              /\ capacity' = [capacity EXCEPT ![a] = <<>>]
              /\ seen' = [seen EXCEPT ![a] = 0]
              /\ plan' = [plan EXCEPT ![a] = None]

\* Mutant of Planned: a plan without decisions is not published either.
PlannedOrNothing(a, solver, at) ==
  IF at = None
  THEN EndPass(a)
  ELSE /\ pc' = [pc EXCEPT ![a] = "persist"]
       /\ plan' = [plan EXCEPT ![a] = [solver |-> solver, at |-> at]]
       /\ windows' = [windows EXCEPT ![a] = <<>>]
       /\ capacity' = [capacity EXCEPT ![a] = <<>>]
       /\ UNCHANGED seen

\* build_plan has returned: a plan without decisions is not persisted.
Planned(a, solver, at) ==
  IF at = None /\ a # Optimizer
  THEN EndPass(a)
  ELSE /\ pc' = [pc EXCEPT ![a] = IF at = None THEN "publish" ELSE "persist"]
       /\ plan' = [plan EXCEPT ![a] = [solver |-> solver, at |-> at]]
       /\ windows' = [windows EXCEPT ![a] = <<>>]
       /\ capacity' = [capacity EXCEPT ![a] = <<>>]
       /\ UNCHANGED seen

\* The first session: the newest windows.
LoadWindows(a) ==
  /\ pc[a] = "idle"
  /\ \E ws \in NewestWindows :
       /\ windows' = [windows EXCEPT ![a] = Restrict(grid, ws)]
       /\ pc' = [pc EXCEPT ![a] = IF Cardinality(ws) < 2 THEN "solve" ELSE "capacity"]
  /\ seen' = [seen EXCEPT ![a] = writes]
  /\ UNCHANGED <<capacity, plan>>
  /\ UNCHANGED <<ledgerVars, storeVars, topicVars, advisorVars, faults>>

\* The second session: the newest plant rows, aligned to those windows.
LoadCapacity(a) ==
  /\ pc[a] = "capacity"
  /\ \E rows \in NewestReports :
       capacity' = [capacity EXCEPT ![a] = CapacityOf(rows, DOMAIN windows[a])]
  /\ pc' = [pc EXCEPT ![a] = "solve"]
  /\ UNCHANGED <<ledgerVars, windows, seen, plan, storeVars, topicVars, advisorVars, faults>>

\* Fewer than two windows are not worth a plan.
TooFewWindows(a) ==
  /\ pc[a] = "solve" /\ Cardinality(DOMAIN windows[a]) < 2
  /\ Planned(a, "none", None)
  /\ UNCHANGED <<ledgerVars, storeVars, topicVars, advisorVars, faults>>

Solving(a) == pc[a] = "solve" /\ Cardinality(DOMAIN windows[a]) >= 2

\* No remote job, or it failed or took too long: the local solver.
SolveLocally(a) ==
  /\ Solving(a)
  /\ Planned(a, "local", Best(a))
  /\ UNCHANGED <<ledgerVars, storeVars, topicVars, advisorVars, faults>>

\* The remote job answers.  It was not told the capacity; which window it picks is not
\* told apart.
SolveRemotely(a) ==
  /\ Solving(a) /\ Databricks
  /\ Planned(a, "remote", Max(DOMAIN windows[a]))
  /\ UNCHANGED <<ledgerVars, storeVars, topicVars, advisorVars, faults>>

\* The remote job answers with no decisions, which is a valid answer.
RemoteEmpty(a) ==
  /\ Solving(a) /\ Databricks /\ Fault("remote")
  /\ Planned(a, "remote", None)
  /\ UNCHANGED <<ledgerVars, storeVars, topicVars, advisorVars>>

RunOf(a)  == [seen |-> seen[a], fits |-> plan[a].at # None]
Stored(r) == /\ runs' = runs \union {r}
             /\ latest' = r

\* persist_plan; the service goes on to publish, a request answers its caller.
Persist(a) ==
  /\ pc[a] = "persist"
  /\ Stored(RunOf(a))
  /\ IF a = Optimizer
     THEN /\ pc' = [pc EXCEPT ![a] = "publish"]
          /\ UNCHANGED <<windows, seen, capacity, plan>>
     ELSE EndPass(a)
  /\ UNCHANGED <<ledgerVars, topicVars, advisorVars, faults>>

\* Mutant of PersistFails: the exception is logged and the pass goes on to publish.
PersistSwallowed(a) ==
  /\ pc[a] = "persist" /\ Fault("store")
  /\ pc' = [pc EXCEPT ![a] = IF a = Optimizer THEN "publish" ELSE "done"]
  /\ UNCHANGED <<ledgerVars, windows, seen, capacity, plan, storeVars, topicVars, advisorVars>>

\* persist_plan raises, perhaps on a COMMIT that was carried out: the pass is over.
PersistFails(a) ==
  /\ pc[a] = "persist" /\ Fault("store")
  /\ Stored(RunOf(a)) \/ UNCHANGED storeVars
  /\ EndPass(a)
  /\ UNCHANGED <<ledgerVars, topicVars, advisorVars>>

\* One of the two readings raises.
ReadFails(a) ==
  /\ pc[a] = "capacity" \/ (pc[a] = "idle" /\ a # Optimizer)
  /\ Fault("read")
  /\ EndPass(a)
  /\ UNCHANGED <<ledgerVars, storeVars, topicVars, advisorVars>>

\* publish_plan, whatever the plan holds.
Publish ==
  /\ pc[Optimizer] = "publish"
  /\ announced' = RunOf(Optimizer)
  /\ EndPass(Optimizer)
  /\ UNCHANGED <<ledgerVars, storeVars, late, advisorVars, faults>>

\* The send fails, or times out and leaves a copy in the producer; neither is retried.
PublishFails ==
  /\ pc[Optimizer] = "publish" /\ Fault("send")
  /\ late' = late \/ late' = late \union {RunOf(Optimizer)}
  /\ EndPass(Optimizer)
  /\ UNCHANGED <<ledgerVars, storeVars, announced, advisorVars>>

\* The copy arrives after all, or expires.
LateCopy ==
  /\ \E r \in late : /\ late' = late \ {r}
                     /\ announced' = r \/ UNCHANGED announced
  /\ UNCHANGED <<ledgerVars, passVars, storeVars, advisorVars, faults>>

\* The process of planner a dies in its pass; the copies it held may be on the wire already.
PlannerCrash(a) ==
  /\ pc[a] \notin {"idle", "done"} /\ Fault("crash")
  /\ EndPass(a)
  /\ late' = late \/ (a = Optimizer /\ late' = {})
  /\ UNCHANGED <<ledgerVars, storeVars, announced, advisorVars>>

-----------------------------------------------------------------------------
(* One orchestration pass.                                                 *)

\* Mutant of Listening: the service, too, makes one pass only.
OnePassOnly(o) == "done"

\* OrchestratorLoop.run goes on to its next pass, also after one that raised.
Listening(o) == IF o = Orchestrator THEN "idle" ELSE "done"

\* build_context reads the newest run.
ReadContext(o) ==
  /\ asking[o] = "idle"
  /\ asking' = [asking EXCEPT ![o] = "ask"]
  /\ context' = [context EXCEPT ![o] = latest]
  /\ UNCHANGED <<ledgerVars, passVars, storeVars, topicVars, advised, faults>>

EndAsking(o) == /\ asking' = [asking EXCEPT ![o] = Listening(o)]
                /\ context' = [context EXCEPT ![o] = None]
                /\ UNCHANGED <<ledgerVars, passVars, storeVars, topicVars>>

\* The model, or failing that the heuristic advisor, answers; the row is stored.
Advise(o) ==
  /\ asking[o] = "ask"
  /\ advised' = context[o]
  /\ EndAsking(o)
  /\ UNCHANGED faults

\* The reply is JSON but no object, which advise() does not catch: the pass ends without
\* advice, the heuristic advisor not asked.  No bound: the model may answer so every time.
ReplyUnreadable(o) ==
  /\ asking[o] = "ask" /\ "reply" \in FaultKinds
  /\ EndAsking(o)
  /\ UNCHANGED <<advised, faults>>

\* The process dies before the row is stored.
AdvisorCrash(o) ==
  /\ asking[o] = "ask" /\ Fault("crash")
  /\ EndAsking(o)
  /\ UNCHANGED advised

\* _persist raises, perhaps on a COMMIT that was carried out.
AdviceFails(o) ==
  /\ asking[o] = "ask" /\ Fault("store")
  /\ advised' = context[o] \/ UNCHANGED advised
  /\ EndAsking(o)

-----------------------------------------------------------------------------
Step(a) == \/ LoadWindows(a) \/ LoadCapacity(a)
           \/ TooFewWindows(a) \/ SolveLocally(a) \/ SolveRemotely(a)
           \/ Persist(a)
Planner(a) == Step(a) \/ (a = Optimizer /\ Publish)
Advisor(o) == ReadContext(o) \/ Advise(o)

Next ==
  \/ GridWrite
  \/ PlantWrite
  \/ \E a \in Planners : \/ Step(a)
                         \/ RemoteEmpty(a)
                         \/ PersistFails(a)
                         \/ ReadFails(a)
                         \/ PlannerCrash(a)
  \/ Publish
  \/ PublishFails
  \/ LateCopy
  \/ \E o \in Advisors : \/ ReadContext(o)
                         \/ Advise(o)
                         \/ ReplyUnreadable(o)
                         \/ AdvisorCrash(o)
                         \/ AdviceFails(o)

\* The services pass at a fixed cadence and are restarted; every await of theirs has a
\* timeout; a copy in the producer arrives or expires.  Requests come when they come.
Spec == Init /\ [][Next]_vars
FairSpec == /\ Spec
            /\ WF_vars(Planner(Optimizer))
            /\ \A a \in PlanRequests : WF_vars(pc[a] # "idle" /\ Step(a))
            /\ WF_vars(Advisor(Orchestrator))
            /\ \A o \in AskRequests : WF_vars(Advise(o))
            /\ WF_vars(LateCopy)

-----------------------------------------------------------------------------
(* Safety.                                                                 *)

\* What the plants reported for window w.
Reports(w) == {plant[<<p, w>>] : p \in Plants} \ {None}
InHorizon  == {w \in GridRows : Cardinality({v \in GridRows : v > w}) < Horizon}

\* A local plan of a pass that no write disturbed is the best the ledger allows, unless
\* load_capacity's LIMIT cut off a report: its window is one of the newest; if any plant
\* reported for that window, some plant reported enough (load_capacity takes the greatest
\* report, other plants may have reported too little); and no window that some plant
\* reported room for is cleaner.  Windows and capacity come from two sessions and the answer is used after a third wait
\* (loop.py, load_windows, load_capacity, build_plan; solver.py, solve).
UndisturbedPlanIsBest ==
  \A a \in Planners :
    LET p == plan[a] IN
    p # None /\ p.solver = "local" /\ seen[a] = writes /\ Cardinality(PlantRows) <= RowLimit =>
      /\ p.at # None => /\ p.at \in InHorizon
                        /\ Reports(p.at) # {} => \E c \in Reports(p.at) : c >= Load
      /\ \A w \in InHorizon :
           (\E c \in Reports(w) : c >= Load) => p.at # None /\ grid[p.at] <= grid[w]

\* A schedule that tells the plant to run something is in the database, whatever fails or
\* arrives late: the store comes first and its failure ends the pass (loop.py, run_once).
AnnouncedIsStored == announced # None /\ announced.fits => announced \in runs

-----------------------------------------------------------------------------
(* Liveness.                                                               *)

Schedulable ==
  /\ Cardinality(GridRows) >= 2
  /\ \A ws \in NewestWindows, rows \in NewestReports :
       \E w \in ws : CapacityOf(rows, ws)[w] = None \/ CapacityOf(rows, ws)[w] >= Load

\* Once faults and writes cease, the schedule on the topic is one built from the ledger as
\* it is, also if the newest answer is that nothing fits; and it is of the state of the
\* ledger that the schedule the API answers with is of, although a schedule made on demand
\* is stored and never announced (loop.py, run_once, publish_plan; api.py,
\* trigger_optimization).
ScheduleCatchesUp ==
  <>[](/\ announced # None /\ announced.seen = writes
       /\ Schedulable => announced = latest)

\* Then too the newest advice is about a run built from the ledger as it is, whoever else
\* planned, unless the ledger admits no schedule: such an answer is not stored and nothing
\* is said of it (orchestrator/loop.py, run_once).  That holds whatever the model answers,
\* but for replies that are JSON and no object: if these come again and again when there
\* is something new to say, no advice does (advice.py:269), where loop.py:120 says "Always
\* produces advice".  (To advise again of the same run is the same step as not to, so only
\* the replies that kept back something new can be told.)
AdviceKeptBack == ReplyUnreadable(Orchestrator) /\ context[Orchestrator] # advised

AdviceCatchesUp ==
  \/ []<><<AdviceKeptBack>>_vars
  \/ <>[](Schedulable => advised # None /\ advised.seen = writes)
=============================================================================
