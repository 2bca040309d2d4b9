----------------------------- MODULE GreedySolver -----------------------------
(***************************************************************************)
(* The local carbon-arbitrage solver (ecogrid/optimizer/solver.py, solve): *)
(* each step decides the next process of the list sorted by descending     *)
(* load, and either places it in one contiguous block of windows or        *)
(* reports it unscheduled.                                                 *)
(*                                                                         *)
(* Windows are indexed from 0 as in the code and last one hour each.       *)
(* Loads, capacities and intensities are naturals, for floats compared     *)
(* with a tolerance of 1e-9.                                               *)
(***************************************************************************)
EXTENDS Integers, FiniteSetsExt

CONSTANTS Horizon,      \* number of windows
          Procs,        \* process ids, in the order the sort breaks ties
          Loads,        \* load_mw a process may have
          Durations,    \* duration_windows a process may have
          Starts,       \* earliest_start a process may have
          Intensities,  \* intensity a window may have
          Capacities,   \* flexible capacity a window may have
          None          \* not placed

ASSUME SolverAssumption ==
  /\ Horizon \in Nat \ {0}
  /\ Procs \subseteq Nat /\ IsFiniteSet(Procs)
  /\ Loads \subseteq Nat /\ Durations \subseteq Nat /\ Starts \subseteq Int
  /\ Intensities \subseteq Nat /\ Capacities \subseteq Nat
  /\ None \notin Nat

Windows  == 0 .. Horizon - 1
Requests == [load : Loads, duration : Durations, earliest : Starts]

VARIABLES
  intensity,    \* input: the intensity of each window
  capacity,     \* input: flexible_capacity_mw
  request,      \* input: the portfolio
  todo,         \* processes the loop has still to reach
  remaining,    \* capacity left in each window
  start,        \* start index of each placed process
  unscheduled   \* processes reported as not placeable

inputs == <<intensity, capacity, request>>
vars == <<inputs, todo, remaining, start, unscheduled>>

TypeOK ==
  /\ intensity \in [Windows -> Intensities]
  /\ capacity \in [Windows -> Capacities]
  /\ request \in [Procs -> Requests]
  /\ todo \subseteq Procs
  /\ remaining \in [Windows -> Nat]
  /\ start \in [Procs -> Windows \union {None}]
  /\ unscheduled \subseteq Procs

Init ==
  /\ intensity \in [Windows -> Intensities]
  /\ capacity \in [Windows -> Capacities]
  /\ request \in [Procs -> Requests]
  /\ todo = Procs
  /\ remaining = capacity
  /\ start = [p \in Procs |-> None]
  /\ unscheduled = {}

-----------------------------------------------------------------------------
Load(p)     == request[p].load
Duration(p) == Max({1, request[p].duration})
StartLo(p)  == Max({0, request[p].earliest})
StartHi(p)  == Horizon - Duration(p)

Block(p, s) == s .. s + Duration(p) - 1
Total(block) == SumFunctionOnSet(intensity, block)

\* Mutant of Before: the lightest process first.
LightestBefore(p, q) == Load(p) < Load(q) \/ (Load(p) = Load(q) /\ p < q)

\* The sort key (-load_mw, process_id).
Before(p, q) == Load(p) > Load(q) \/ (Load(p) = Load(q) /\ p < q)

Reached(p) == p \in todo /\ \A q \in todo \ {p} : Before(p, q)

Report(p) == /\ unscheduled' = unscheduled \union {p}
             /\ todo' = todo \ {p}
             /\ UNCHANGED <<inputs, remaining, start>>

TooLong(p) == Duration(p) > Horizon

\* Mutant of NoRoom: a block that just fits is refused.
NoRoomOffByOne(p) == ~TooLong(p) /\ StartLo(p) >= StartHi(p)

NoRoom(p) == ~TooLong(p) /\ StartLo(p) > StartHi(p)

\* Mutant of Fits: only the first window of a block is looked at.
FitsAtStart(p, s, free) == free[s] >= Load(p)

Fits(p, s, free) == \A w \in Block(p, s) : free[w] >= Load(p)

\* Mutant of Candidates: the last start that fits the horizon is left out.
CandidatesOffByOne(p, free) == {s \in StartLo(p) .. StartHi(p) - 1 : Fits(p, s, free)}

Candidates(p, free) == {s \in StartLo(p) .. StartHi(p) : Fits(p, s, free)}

ReportTooLong(p) == Reached(p) /\ TooLong(p) /\ Report(p)
ReportNoRoom(p)  == Reached(p) /\ NoRoom(p) /\ Report(p)
ReportNoBlock(p) == /\ Reached(p)
                    /\ ~TooLong(p) /\ ~NoRoom(p)
                    /\ Candidates(p, remaining) = {}
                    /\ Report(p)

\* The first start of least total intensity.
Cheapest(p, candidates) ==
  CHOOSE s \in candidates : \A t \in candidates :
     \/ Total(Block(p, s)) < Total(Block(p, t))
     \/ Total(Block(p, s)) = Total(Block(p, t)) /\ s <= t

\* Mutant of Place: the capacity of the first window alone is taken.
PlaceAtStart(p) ==
  /\ Reached(p)
  /\ ~TooLong(p) /\ ~NoRoom(p)
  /\ Candidates(p, remaining) # {}
  /\ LET s == Cheapest(p, Candidates(p, remaining)) IN
     /\ start' = [start EXCEPT ![p] = s]
     /\ remaining' = [remaining EXCEPT ![s] = @ - Load(p)]
  /\ todo' = todo \ {p}
  /\ UNCHANGED <<inputs, unscheduled>>

Place(p) ==
  /\ Reached(p)
  /\ ~TooLong(p) /\ ~NoRoom(p)
  /\ Candidates(p, remaining) # {}
  /\ LET s == Cheapest(p, Candidates(p, remaining)) IN
     /\ start' = [start EXCEPT ![p] = s]
     /\ remaining' = [w \in Windows |-> IF w \in Block(p, s) THEN remaining[w] - Load(p)
                                                              ELSE remaining[w]]
  /\ todo' = todo \ {p}
  /\ UNCHANGED <<inputs, unscheduled>>

Next == \E p \in Procs : ReportTooLong(p) \/ ReportNoRoom(p) \/ ReportNoBlock(p) \/ Place(p)

Spec == Init /\ [][Next]_vars

-----------------------------------------------------------------------------
(***************************************************************************)
(* The totals of the Plan: carbon of the chosen blocks, and of the naive   *)
(* blocks at the earliest start, whether or not those had capacity.        *)
(***************************************************************************)
Placed == {p \in Procs : start[p] # None}
BlockCarbon(p, s) == Load(p) * Total(Block(p, s))

PlanCarbon(place) == SumFunction([p \in Placed |-> BlockCarbon(p, place[p])])

OptimizedCarbon == PlanCarbon(start)
BaselineCarbon  == PlanCarbon([p \in Procs |-> StartLo(p)])
CarbonSaved     == BaselineCarbon - OptimizedCarbon

-----------------------------------------------------------------------------
Running(w) == {p \in Placed : w \in Block(p, start[p])}
Drawn(procs) == SumFunctionOnSet([p \in Procs |-> Load(p)], procs)

(***************************************************************************)
(* FR-OPT-2 and FR-OPT-3: every placed process keeps its whole block       *)
(* inside the horizon and not before its earliest start, and in no window  *)
(* do the processes together draw more than the capacity.                  *)
(***************************************************************************)
ScheduleIsFeasible ==
  /\ \A p \in Placed : StartLo(p) <= start[p] /\ Block(p, start[p]) \subseteq Windows
  /\ \A w \in Windows : Drawn(Running(w)) <= capacity[w]

\* Where process p could run, were all the others to keep their places.
Feasible(p) ==
  {s \in Windows : /\ s >= request[p].earliest
                   /\ \A w \in Block(p, s) :
                        w \in Windows /\ Drawn(Running(w) \ {p}) + Load(p) <= capacity[w]}

(***************************************************************************)
(* FR-OPT-5 and FR-OPT-1, in the finished plan: a process is missing only  *)
(* if no block would take it beside the ones placed, earlier or later.     *)
(***************************************************************************)
UnscheduledCannotFit ==
  /\ Procs = todo \union unscheduled \union Placed
  /\ \A p \in unscheduled : Feasible(p) = {}

(***************************************************************************)
(* FR-OPT-1, "the lowest-carbon contiguous block": the order in which the  *)
(* processes are placed is not regretted by any one of them; in the        *)
(* finished plan none could move alone to a block of less carbon.          *)
(***************************************************************************)
NoSingleMoveImproves ==
  \A p \in Placed : \A s \in Feasible(p) :
     BlockCarbon(p, start[p]) <= BlockCarbon(p, s)

(***************************************************************************)
(* FR-OPT-6, as far as it holds: a process pays more than its baseline     *)
(* only when the baseline block could not take it beside processes at      *)
(* least as heavy; a lighter one never displaces it, and without a         *)
(* capacity ceiling no saving is negative.                                 *)
(***************************************************************************)
NoLighter(p) == {q \in Procs \ {p} : Load(q) >= Load(p)}

LossNeedsContention ==
  \A p \in Placed :
     BlockCarbon(p, start[p]) > BlockCarbon(p, StartLo(p)) =>
        \E w \in Block(p, StartLo(p)) :
           Drawn(Running(w) \intersect NoLighter(p)) + Load(p) > capacity[w]

(***************************************************************************)
(* FR-OPT-6, "Savings SHALL be computed against a run-as-early-as-possible *)
(* baseline, and SHALL never be negative" (docs/REQUIREMENTS.md:92).       *)
(***************************************************************************)
SavingNeverNegative == CarbonSaved >= 0
=============================================================================
