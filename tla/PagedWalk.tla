------------------------------ MODULE PagedWalk ------------------------------
(***************************************************************************)
(* GET /telemetry and GET /plant (api.py, list_telemetry, list_plant): a   *)
(* client walks a table newest first, page by page, handing next_cursor    *)
(* back as before, under the rate limit and while the consumers upsert.    *)
(*                                                                         *)
(* A row is the window of a source: grid_telemetry has one source,         *)
(* plant_telemetry one per plant.  The primary key is the pair.            *)
(***************************************************************************)
EXTENDS RateLimiter

CONSTANTS Sources,    \* the grid, or the plants
          Windows,    \* settlement windows, numbered in time order
          PageSize,   \* the smaller of limit and api_max_page_size
          Walker,     \* the caller that walks
          Ledgers,    \* bound: tables the walk may begin with
          Filters,    \* bound: the sources and settled_only a walk may ask for
          MaxWrites,  \* bound: upserts during the walk
          None        \* no row, no cursor

\* A table has finitely many rows.
ASSUME WalkAssumption == /\ Windows \subseteq Nat
                         /\ IsFiniteSet(Sources) /\ IsFiniteSet(Windows)
                         /\ PageSize \in Nat \ {0} /\ MaxWrites \in Nat
                         /\ Walker \in Callers
                         /\ None \notin Windows
                         /\ Filters \subseteq [sources : SUBSET Sources, settledOnly : BOOLEAN]
                         /\ Ledgers \subseteq [Sources \X Windows -> {None, "forecast", "settled"}]

Keys == Sources \X Windows
WindowOf(r) == r[2]

VARIABLES
  rows,         \* the table: forecast says is_forecast_only
  filter,       \* what the client asks for: all sources or one plant_id, settled_only
  cursor,       \* before: None on the first page
  page,         \* the page under way to the client
  listed,       \* the rows the client has been given
  owed,         \* history: rows that have matched since the walk began
  twice,        \* history: rows given to the client twice
  ends,         \* history: windows at which a page ended and the next began
  walk,         \* "on" or "done"
  writes        \* history: upserts so far

tableVars == <<rows, writes, owed>>
walkVars  == <<filter, cursor, listed, twice, ends, walk>>
vars == <<limiterVars, at, faults, tableVars, walkVars, page>>

NoPage == [items |-> {}, next |-> None]

TypeOK ==
  /\ LimiterTypeOK /\ faults \in 0 .. MaxFaults
  /\ at \in [Callers -> {"out", "count", "list", "answer"}]
  /\ rows \in [Keys -> {None, "forecast", "settled"}] /\ writes \in 0 .. MaxWrites
  /\ filter \in Filters
  /\ cursor \in Windows \union {None} /\ ends \subseteq Windows
  /\ page.items \subseteq Keys /\ page.next \in Windows \union {None}
  /\ page # NoPage => at[Walker] = "answer"
  /\ listed \subseteq Keys /\ owed \subseteq Keys /\ twice \subseteq listed
  /\ walk \in {"on", "done"}

\* The rows the filters of the walk admit.
Matching(table) == {r \in filter.sources \X Windows :
                      table[r] # None /\ (filter.settledOnly => table[r] = "settled")}

Init ==
  /\ LimiterInit
  /\ rows \in Ledgers /\ writes = 0
  /\ filter \in Filters
  /\ cursor = None /\ page = NoPage
  /\ listed = {} /\ twice = {} /\ ends = {}
  /\ owed = Matching(rows)
  /\ walk = "on"

\* A consumer inserts or revises a row the walk may see; nothing deletes one.
Upsert ==
  /\ walk = "on" /\ writes < MaxWrites
  /\ writes' = writes + 1
  /\ \E r \in filter.sources \X Windows, v \in {"forecast", "settled"} :
       rows[r] # v /\ rows' = [rows EXCEPT ![r] = v]
  /\ owed' = owed \intersect Matching(rows')
  /\ UNCHANGED <<limiterVars, at, faults, walkVars, page>>

-----------------------------------------------------------------------------
(* A request of the walker.                                                *)

WalkerAsks == /\ walk = "on"
              /\ Ask(Walker)
              /\ UNCHANGED <<tableVars, walkVars, page>>

WalkerPasses == Pass(Walker, "list") /\ UNCHANGED <<tableVars, walkVars, page>>

WalkerRefused == Refuse(Walker) /\ UNCHANGED <<tableVars, walkVars, page>>

\* Mutant of Below: the window of the cursor comes again.
BelowOrAt(r) == cursor = None \/ WindowOf(r) <= cursor

Below(r) == cursor = None \/ WindowOf(r) < cursor

\* ORDER BY window_from DESC LIMIT page_size: among the rows of a window any may be cut off.
Pages == LET found == {r \in Matching(rows) : Below(r)} IN
  {top \in SUBSET found : /\ Cardinality(top) = Min({PageSize, Cardinality(found)})
                          /\ \A r \in found \ top, t \in top : WindowOf(r) <= WindowOf(t)}

\* The window of the last row, if the page is full.
NextCursor(items) ==
  IF Cardinality(items) = PageSize THEN Min({WindowOf(r) : r \in items}) ELSE None

ReadPage ==
  /\ at[Walker] = "list"
  /\ \E items \in Pages : page' = [items |-> items, next |-> NextCursor(items)]
  /\ at' = [at EXCEPT ![Walker] = "answer"]
  /\ UNCHANGED <<limiterVars, faults, tableVars, walkVars>>

\* The client has the page and goes on from its next_cursor, or is done.
Answered ==
  /\ at[Walker] = "answer"
  /\ at' = [at EXCEPT ![Walker] = "out"]
  /\ twice' = twice \union (listed \intersect page.items)
  /\ listed' = listed \union page.items
  /\ cursor' = page.next
  /\ IF page.next = None THEN walk' = "done" /\ UNCHANGED ends
                         ELSE ends' = ends \union {page.next} /\ UNCHANGED walk
  /\ page' = NoPage
  /\ UNCHANGED <<limiterVars, faults, tableVars, filter>>

\* The query raises, or the API dies with the request: the client asks again as before.
Unanswered ==
  /\ at[Walker] \in {"count", "list", "answer"}
  /\ (at[Walker] = "list" /\ Fault("db")) \/ Fault("crash")
  /\ at' = [at EXCEPT ![Walker] = "out"]
  /\ bucket' = [bucket EXCEPT ![Walker] = "this"]
  /\ page' = NoPage
  /\ UNCHANGED <<clock, counters, let, tableVars, walkVars>>

-----------------------------------------------------------------------------
\* Another caller; what it is let through to does not matter here.  Bound: it asks while
\* the walk goes on.
Rival(c) == /\ c # Walker
            /\ (walk = "on" /\ Ask(c)) \/ Pass(c, "out") \/ Refuse(c)
            /\ UNCHANGED <<tableVars, walkVars, page>>

Time == (Tick \/ Turn) /\ UNCHANGED <<tableVars, walkVars, page>>

WalkerSteps == WalkerAsks \/ WalkerPasses \/ WalkerRefused \/ ReadPage \/ Answered

Next == \/ WalkerSteps
        \/ Unanswered
        \/ Upsert
        \/ Time
        \/ \E c \in Callers : Rival(c)

\* Time passes, the walker retries for as long as it has to, and a request that was begun
\* goes on.  Other callers may ask as often as they like.
Spec == /\ Init /\ [][Next]_vars
        /\ WF_vars(Time)
        /\ WF_vars(WalkerSteps)
        /\ \A c \in Callers \ {Walker} : WF_vars(at[c] = "count" /\ Rival(c))

-----------------------------------------------------------------------------
\* A walk that has ended gave the client every row that was there to be listed all the
\* while, and none twice, whatever was upserted, retried or refused in between; the one
\* thing it may have left out is a row of a window at which a page ended, when another
\* source has a row of that window: the cursor is the window alone (api.py, list_telemetry,
\* list_plant; FR-API-11).
WalkIsComplete ==
  walk = "done" =>
    /\ twice = {}
    /\ \A r \in owed \ listed : /\ WindowOf(r) \in ends
                                /\ \E s \in listed : WindowOf(s) = WindowOf(r)

\* A walk ends, however many newer rows arrive and however often others ask: the limit is
\* per caller, and a refused client is let through in the next window (api.py,
\* enforce_rate_limit; ratelimit.py, check).
WalkEnds == <>(walk = "done")
=============================================================================
