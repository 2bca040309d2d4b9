------------------------------ MODULE ApiAccess ------------------------------
(***************************************************************************)
(* Who may ask the API and what is on record of it: the key commands       *)
(* (keys.py, cmd_create and cmd_revoke; migrate.py, bootstrap_admin_key),  *)
(* authentication and roles (security.py, authenticate; api.py,            *)
(* get_principal, require_role) and the audit trail (audit.py; api.py,     *)
(* audit_middleware), all over the tables api_keys and audit_log.          *)
(*                                                                         *)
(* A secret stands for itself and for its digest.  A command reads in one  *)
(* statement and commits in another, and so does a request; between them   *)
(* any other may commit.  Requests turned away by the rate limit           *)
(* (RateLimiter) reach nothing of this and are not on record.              *)
(***************************************************************************)
EXTENDS Integers, Sequences

CONSTANTS Callers,     \* clients of the API
          Presented,   \* the secrets they may present
          Endpoints,   \* records: the role required and the action on record
          Commands,    \* the commands that are run, once each
          Command,     \* of each: its kind and name, role and secret of the key
          FaultKinds,  \* which faults may happen
          MaxFaults,   \* bound: faults in a behaviour
          None         \* no key, nobody

Roles   == {"viewer", "operator", "admin"}
Secrets == {Command[k].secret : k \in Commands} \ {None}
Names   == {Command[k].name : k \in Commands}

ApiKey    == [name : Names, role : Roles, active : BOOLEAN, used : BOOLEAN]
NoRequest == [secret |-> None, endpoint |-> None]
AuditRow  == [action : {"auth.rejected", "access.denied", "read", "write", "request.error"},
              actor : Names \union {None}]

ASSUME AccessAssumption ==
  /\ FaultKinds \subseteq {"db", "crash"} /\ MaxFaults \in Nat
  /\ \A e \in Endpoints : e.requires \in Roles /\ e.action \in {"read", "write"}
  /\ \A k \in Commands : /\ Command[k].kind \in {"create", "bootstrap", "revoke"}
                         /\ Command[k].kind = "revoke" <=> Command[k].secret = None
                         /\ Command[k].kind = "bootstrap" => Command[k].role = "admin"
                         /\ Command[k].kind = "create" => Command[k].role \in Roles

ASSUME NoneAssumption == None \notin ApiKey

VARIABLES
  keys,      \* api_keys: the row of each secret; key_hash is unique, name is not
  cmd,       \* where each command is
  target,    \* the row a revoke has found
  seen,      \* history: the rows of its name when the revoke looked
  dead,      \* history: those rows, once the revoke has reported success
  at,        \* where the request of each caller is
  request,   \* what it presents and asks for
  row,       \* the api_keys row authenticate read
  status,    \* the status it is to be answered with
  due,       \* audit rows still to be written for it
  trail,     \* audit_log: the rows of the caller's last request
  gaps,      \* rows of it the log calls a gap in the trail
  stale,     \* history: the key was revoked before the request arrived
  faults     \* history: faults so far

commandVars == <<keys, cmd, target, seen, dead>>
requestVars == <<at, request, row, status, due, trail, gaps, stale>>
vars == <<commandVars, requestVars, faults>>

TypeOK ==
  /\ keys \in [Secrets -> ApiKey \union {None}]
  /\ cmd \in [Commands -> {"todo", "found", "done", "failed"}]
  /\ target \in [Commands -> Secrets \union {None}]
  /\ seen \in [Commands -> SUBSET Secrets] /\ dead \subseteq Secrets
  /\ at \in [Callers -> {"out", "auth", "touch", "handle", "record", "answered"}]
  /\ request \in [Callers -> [secret : Presented, endpoint : Endpoints] \union {NoRequest}]
  /\ row \in [Callers -> ApiKey \union {None}]
  /\ \A c \in Callers : row[c] # None <=> at[c] \in {"touch", "handle"}
  /\ \A c \in Callers : row[c] # None => row[c].active
  /\ status \in [Callers -> {0, 200, 401, 403, 404, 500}]
  /\ due \in [Callers -> Seq(AuditRow)]
  /\ trail \in [Callers -> SUBSET AuditRow] /\ gaps \in [Callers -> SUBSET AuditRow]
  /\ stale \in [Callers -> BOOLEAN]
  /\ faults \in 0 .. MaxFaults

Init ==
  /\ keys = [s \in Secrets |-> None]
  /\ cmd = [k \in Commands |-> "todo"] /\ target = [k \in Commands |-> None]
  /\ seen = [k \in Commands |-> {}] /\ dead = {}
  /\ at = [c \in Callers |-> "out"] /\ request = [c \in Callers |-> NoRequest]
  /\ row = [c \in Callers |-> None]
  /\ status = [c \in Callers |-> 0] /\ due = [c \in Callers |-> <<>>]
  /\ trail = [c \in Callers |-> {}] /\ gaps = [c \in Callers |-> {}]
  /\ stale = [c \in Callers |-> FALSE]
  /\ faults = 0

Fault(kind) == /\ kind \in FaultKinds
               /\ faults < MaxFaults
               /\ faults' = faults + 1

-----------------------------------------------------------------------------
(* The commands.                                                           *)

Named(name) == {s \in Secrets : keys[s] # None /\ keys[s].name = name}

Becomes(k, where) == cmd' = [cmd EXCEPT ![k] = where]

\* create looks for the name.
CheckName(k) ==
  /\ cmd[k] = "todo" /\ Command[k].kind = "create"
  /\ Becomes(k, IF Named(Command[k].name) = {} THEN "found" ELSE "failed")
  /\ UNCHANGED <<keys, target, seen, dead, requestVars, faults>>

\* bootstrap looks for an admin, revoked or not.
CheckAdmin(k) ==
  /\ cmd[k] = "todo" /\ Command[k].kind = "bootstrap"
  /\ Becomes(k, IF \E s \in Secrets : keys[s] # None /\ keys[s].role = "admin"
                THEN "done" ELSE "found")
  /\ UNCHANGED <<keys, target, seen, dead, requestVars, faults>>

\* INSERT, unless the secret is there: the digest is unique.
CommitInsert(k) ==
  LET key == [name |-> Command[k].name, role |-> Command[k].role,
              active |-> TRUE, used |-> FALSE]
  IN  /\ keys[Command[k].secret] = None
      /\ keys' = [keys EXCEPT ![Command[k].secret] = key]

Insert(k) ==
  /\ cmd[k] = "found" /\ Command[k].kind # "revoke"
  /\ \/ CommitInsert(k) /\ Becomes(k, "done")
     \/ keys[Command[k].secret] # None /\ Becomes(k, "failed") /\ UNCHANGED keys
  /\ UNCHANGED <<target, seen, dead, requestVars, faults>>

\* scalar_one_or_none: the row of the name; several of them are an error, as is none.
RowOf(name) == {s \in Named(name) : Named(name) = {s}}

FindKey(k) ==
  LET name == Command[k].name IN
  /\ cmd[k] = "todo" /\ Command[k].kind = "revoke"
  /\ \/ RowOf(name) = {} /\ Becomes(k, "failed") /\ UNCHANGED <<target, seen, dead>>
     \/ \E s \in RowOf(name) :
          IF keys[s].active
          THEN /\ Becomes(k, "found")
               /\ target' = [target EXCEPT ![k] = s]
               /\ seen' = [seen EXCEPT ![k] = Named(name)]
               /\ UNCHANGED dead
          ELSE Becomes(k, "done") /\ dead' = dead \union Named(name) /\ UNCHANGED <<target, seen>>
  /\ UNCHANGED <<keys, requestVars, faults>>

\* UPDATE of the columns that say so.
CommitRevoke(k) == keys' = [keys EXCEPT ![target[k]].active = FALSE]

Revoke(k) ==
  /\ cmd[k] = "found" /\ Command[k].kind = "revoke"
  /\ CommitRevoke(k)
  /\ dead' = dead \union seen[k]
  /\ target' = [target EXCEPT ![k] = None] /\ seen' = [seen EXCEPT ![k] = {}]
  /\ Becomes(k, "done")
  /\ UNCHANGED <<requestVars, faults>>

\* A command fails, its commit carried out or not.
CommandFails(k) ==
  /\ cmd[k] \in {"todo", "found"}
  /\ Fault("db")
  /\ Becomes(k, "failed")
  /\ target' = [target EXCEPT ![k] = None] /\ seen' = [seen EXCEPT ![k] = {}]
  /\ \/ UNCHANGED keys
     \/ cmd[k] = "found" /\ Command[k].kind # "revoke" /\ CommitInsert(k)
     \/ cmd[k] = "found" /\ Command[k].kind = "revoke" /\ CommitRevoke(k)
  /\ UNCHANGED <<dead, requestVars>>

-----------------------------------------------------------------------------
(* A request.                                                              *)

Arrive(c) ==
  /\ at[c] \in {"out", "answered"}
  /\ at' = [at EXCEPT ![c] = "auth"]
  /\ \E s \in Presented, e \in Endpoints :
       /\ request' = [request EXCEPT ![c] = [secret |-> s, endpoint |-> e]]
       /\ stale' = [stale EXCEPT ![c] = s \in dead]
  /\ status' = [status EXCEPT ![c] = 0]
  /\ trail' = [trail EXCEPT ![c] = {}] /\ gaps' = [gaps EXCEPT ![c] = {}]
  /\ UNCHANGED <<commandVars, row, due, faults>>

Audit(action, actor) == [action |-> action, actor |-> actor]

\* The answer is known; the audit rows come before it.
Conclude(c, code, rows) ==
  /\ at' = [at EXCEPT ![c] = "record"]
  /\ status' = [status EXCEPT ![c] = code]
  /\ due' = [due EXCEPT ![c] = rows]
  /\ row' = [row EXCEPT ![c] = None]
  /\ UNCHANGED <<request, trail, gaps, stale>>

Known(s) == s \in Secrets /\ keys[s] # None

Accepted(s) == Known(s) /\ keys[s].active

Authenticate(c) ==
  LET s == request[c].secret IN
  /\ at[c] = "auth"
  /\ \/ /\ ~Accepted(s)
        /\ Conclude(c, 401, <<Audit("auth.rejected", None)>>)
     \/ /\ Accepted(s)
        /\ row' = [row EXCEPT ![c] = keys[s]]
        /\ at' = [at EXCEPT ![c] = "touch"]
        /\ UNCHANGED <<request, status, due, trail, gaps, stale>>
  /\ UNCHANGED <<commandVars, faults>>

\* Mutant of Touched: the row is written back as it was read.
TouchedWhole(c) == [row[c] EXCEPT !.used = TRUE]

\* UPDATE of last_used_at alone.
Touched(c) == [keys[request[c].secret] EXCEPT !.used = TRUE]

CommitTouch(c) == keys' = [keys EXCEPT ![request[c].secret] = Touched(c)]

Rank == [viewer |-> 10, operator |-> 20, admin |-> 30]

\* last_used_at is committed; then the role is checked.  A refusal has two audit rows: that
\* of the dependency and that of the middleware.
Touch(c) ==
  /\ at[c] = "touch"
  /\ CommitTouch(c)
  /\ \/ /\ Rank[row[c].role] >= Rank[request[c].endpoint.requires]
        /\ at' = [at EXCEPT ![c] = "handle"]
        /\ UNCHANGED <<request, row, status, due, trail, gaps, stale>>
     \/ /\ Rank[row[c].role] < Rank[request[c].endpoint.requires]
        /\ Conclude(c, 403, <<Audit("access.denied", row[c].name),
                              Audit(request[c].endpoint.action, row[c].name)>>)
  /\ UNCHANGED <<cmd, target, seen, dead, faults>>

\* The endpoint answers, or finds nothing to answer with.
Handle(c) ==
  /\ at[c] = "handle"
  /\ \E code \in {200, 404} :
       Conclude(c, code, <<Audit(request[c].endpoint.action, row[c].name)>>)
  /\ UNCHANGED <<commandVars, faults>>

\* An exception: before the principal is set it is on record without an actor, and a commit
\* that raises may have been carried out.
Fail(c) ==
  /\ at[c] \in {"auth", "touch", "handle"}
  /\ Fault("db")
  /\ Conclude(c, 500, <<Audit("request.error", IF at[c] = "handle" THEN row[c].name ELSE None)>>)
  /\ UNCHANGED keys \/ (at[c] = "touch" /\ CommitTouch(c))
  /\ UNCHANGED <<cmd, target, seen, dead>>

\* write_audit_entry never raises.
WriteAudit(c) ==
  /\ at[c] = "record" /\ due[c] # <<>>
  /\ due' = [due EXCEPT ![c] = Tail(@)]
  /\ \/ /\ trail' = [trail EXCEPT ![c] = @ \union {Head(due[c])}]
        /\ UNCHANGED <<gaps, faults>>
     \/ /\ Fault("db")
        /\ gaps' = [gaps EXCEPT ![c] = @ \union {Head(due[c])}]
        /\ UNCHANGED trail
  /\ UNCHANGED <<commandVars, at, request, row, status, stale>>

\* Mutant of Recorded: a failed write ends the recording.
RecordedOrFailed(c) == due[c] = <<>> \/ gaps[c] # {}

Recorded(c) == due[c] = <<>>

Respond(c) ==
  /\ at[c] = "record" /\ Recorded(c)
  /\ at' = [at EXCEPT ![c] = "answered"]
  /\ due' = [due EXCEPT ![c] = <<>>]
  /\ UNCHANGED <<commandVars, request, row, status, trail, gaps, stale, faults>>

\* The API dies: the requests in flight are never answered, what they committed stays.
Crash ==
  /\ Fault("crash")
  /\ LET Lost(f, none) == [c \in Callers |-> IF at[c] = "answered" THEN f[c] ELSE none]
     IN  /\ at' = Lost(at, "out") /\ request' = Lost(request, NoRequest)
         /\ row' = Lost(row, None) /\ status' = Lost(status, 0) /\ due' = Lost(due, <<>>)
         /\ trail' = Lost(trail, {}) /\ gaps' = Lost(gaps, {}) /\ stale' = Lost(stale, FALSE)
  /\ UNCHANGED commandVars

CommandStep(k) == \/ CheckName(k) \/ CheckAdmin(k) \/ Insert(k)
                  \/ FindKey(k) \/ Revoke(k) \/ CommandFails(k)

RequestStep(c) == \/ Arrive(c) \/ Authenticate(c) \/ Touch(c) \/ Handle(c)
                  \/ Fail(c) \/ WriteAudit(c) \/ Respond(c)

Next == \/ \E k \in Commands : CommandStep(k)
        \/ \E c \in Callers : RequestStep(c)
        \/ Crash

Spec == Init /\ [][Next]_vars

-----------------------------------------------------------------------------
\* Once a revoke has reported success, no request that arrives later gets past
\* authentication with a key of that name the revoke saw: no usage update of a request in
\* flight brings it back, and no second key of the name is passed over in silence
\* (keys.py, cmd_revoke; security.py, authenticate).
RevokedIsRefused ==
  \A c \in Callers : stale[c] => /\ at[c] \notin {"touch", "handle"}
                                 /\ status[c] \in {0, 401, 500}

\* The audit rows an answer calls for, once and under the name of the key presented.
Accounts(c, rows) ==
  LET name == keys[request[c].secret].name
      own  == request[c].endpoint.action
  IN  \/ status[c] = 401 /\ rows = {Audit("auth.rejected", None)}
      \/ status[c] = 500 /\ rows = {Audit("request.error", None)}
      \/ /\ Known(request[c].secret)
         /\ \/ status[c] = 500 /\ rows = {Audit("request.error", name)}
            \/ status[c] = 403 /\ rows = {Audit("access.denied", name), Audit(own, name)}
            \/ status[c] \in {200, 404} /\ rows = {Audit(own, name)}

\* When a caller has its answer, the trail has every kind of row the answer calls for, except
\* those the log calls a gap; no row says what did not happen; and an answer that took a key shows
\* in the key's last use, whatever else was committed to the row meanwhile (audit.py;
\* api.py, audit_middleware, require_role).
AnsweredIsOnRecord ==
  \A c \in Callers : at[c] = "answered" =>
    /\ Accounts(c, trail[c] \union gaps[c])
    /\ status[c] \in {200, 403, 404} => keys[request[c].secret].used
=============================================================================
