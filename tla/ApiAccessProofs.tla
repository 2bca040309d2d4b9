--------------------------- MODULE ApiAccessProofs ---------------------------
(***************************************************************************)
(* A revoked key is refused and an answer is on record, for any callers,   *)
(* endpoints, commands, faults and bounds.                                 *)
(***************************************************************************)
EXTENDS ApiAccess, TLAPS

Rows(q) == {q[i] : i \in 1 .. Len(q)}

\* A revoke is about the one row of its name, and what it has revoked stays so.
CommandInv ==
  /\ \A k \in Commands : cmd[k] = "found" /\ Command[k].kind = "revoke" => target[k] # None
  /\ \A k \in Commands : target[k] # None => Known(target[k]) /\ seen[k] = {target[k]}
  /\ \A s \in dead : Known(s) /\ ~keys[s].active

\* What is still to be written is part of the record: the trail alone is not inductive.
RecordInv(c) ==
  IF at[c] \in {"record", "answered"}
  THEN /\ Accounts(c, Rows(due[c]) \union trail[c] \union gaps[c])
       /\ at[c] = "answered" => due[c] = <<>>
  ELSE status[c] = 0 /\ due[c] = <<>> /\ trail[c] = {} /\ gaps[c] = {}

RequestInv(c) ==
  /\ at[c] # "out" => request[c].endpoint \in Endpoints
  /\ stale[c] => /\ request[c].secret \in dead
                 /\ at[c] \notin {"touch", "handle"}
                 /\ status[c] \in {0, 401, 500}
  /\ at[c] \in {"touch", "handle"} =>
       /\ Known(request[c].secret)
       /\ row[c].name = keys[request[c].secret].name
  /\ at[c] = "handle" \/ status[c] \in {200, 403, 404} =>
       /\ Known(request[c].secret)
       /\ keys[request[c].secret].used
  /\ RecordInv(c)

Inv == TypeOK /\ CommandInv /\ \A c \in Callers : RequestInv(c)

\* What a commit may do to the table: add rows, revoke, mark as used.
Evolves ==
  /\ keys' \in [Secrets -> ApiKey \union {None}]
  /\ \A s \in Secrets : keys[s] # None =>
       /\ keys'[s] # None
       /\ keys'[s].name = keys[s].name
       /\ ~keys[s].active => ~keys'[s].active
       /\ keys[s].used => keys'[s].used

LEMMA SameKeysEvolve == TypeOK /\ UNCHANGED keys => Evolves
BY DEF TypeOK, Evolves

LEMMA InsertEvolves ==
  ASSUME TypeOK, NEW k \in Commands, Command[k].kind # "revoke", CommitInsert(k)
  PROVE  Evolves
<1> DEFINE s == Command[k].secret
<1>1. s \in Secrets
  BY AccessAssumption DEF Secrets
<1>2. [name |-> Command[k].name, role |-> Command[k].role, active |-> TRUE, used |-> FALSE] \in ApiKey
  BY AccessAssumption DEF ApiKey, Names, Roles
<1>3. keys' \in [Secrets -> ApiKey \union {None}]
  BY <1>1, <1>2 DEF CommitInsert, TypeOK
<1>4. \A t \in Secrets : keys[t] # None => keys'[t] = keys[t]
  BY <1>1 DEF CommitInsert, TypeOK
<1> QED BY <1>3, <1>4 DEF Evolves

LEMMA RevokeEvolves ==
  ASSUME TypeOK, NEW k \in Commands, Known(target[k]), CommitRevoke(k)
  PROVE  Evolves /\ ~keys'[target[k]].active
<1> DEFINE s == target[k]
<1>1. s \in Secrets /\ keys[s] \in ApiKey
  BY DEF Known, TypeOK
<1>2. [keys[s] EXCEPT !.active = FALSE] \in ApiKey
  BY <1>1 DEF ApiKey
<1>3. keys' = [keys EXCEPT ![s] = [keys[s] EXCEPT !.active = FALSE]]
  BY DEF CommitRevoke
<1>4. keys' \in [Secrets -> ApiKey \union {None}]
  BY <1>1, <1>2, <1>3 DEF TypeOK
<1>5. keys'[s] = [keys[s] EXCEPT !.active = FALSE]
  BY <1>1, <1>3 DEF TypeOK
<1>6. /\ keys'[s].name = keys[s].name /\ keys'[s].used = keys[s].used
      /\ ~keys'[s].active
  BY <1>1, <1>5 DEF ApiKey
<1>7. keys'[s] # None
  BY <1>2, <1>5, NoneAssumption
<1>8. \A t \in Secrets : t # s => keys'[t] = keys[t]
  BY <1>1, <1>3 DEF TypeOK
<1> QED BY <1>4, <1>6, <1>7, <1>8 DEF Evolves

LEMMA TouchEvolves ==
  ASSUME TypeOK, NEW c \in Callers, Known(request[c].secret), CommitTouch(c)
  PROVE  Evolves /\ keys'[request[c].secret].used
<1> DEFINE s == request[c].secret
<1>1. s \in Secrets /\ keys[s] \in ApiKey
  BY DEF Known, TypeOK
<1>2. [keys[s] EXCEPT !.used = TRUE] \in ApiKey
  BY <1>1 DEF ApiKey
<1>3. keys' = [keys EXCEPT ![s] = [keys[s] EXCEPT !.used = TRUE]]
  BY DEF CommitTouch, Touched
<1>4. keys' \in [Secrets -> ApiKey \union {None}]
  BY <1>1, <1>2, <1>3 DEF TypeOK
<1>5. keys'[s] = [keys[s] EXCEPT !.used = TRUE]
  BY <1>1, <1>3 DEF TypeOK
<1>6. /\ keys'[s].name = keys[s].name /\ keys'[s].active = keys[s].active
      /\ keys'[s].used
  BY <1>1, <1>5 DEF ApiKey
<1>7. keys'[s] # None
  BY <1>2, <1>5, NoneAssumption
<1>8. \A t \in Secrets : t # s => keys'[t] = keys[t]
  BY <1>1, <1>3 DEF TypeOK
<1> QED BY <1>4, <1>6, <1>7, <1>8 DEF Evolves

\* What the rows of the keys do to a request that takes no step itself.
LEMMA RestingRequest ==
  ASSUME Inv, Evolves, dead \subseteq dead', NEW c \in Callers,
         at'[c] = at[c], request'[c] = request[c], row'[c] = row[c], status'[c] = status[c],
         due'[c] = due[c], trail'[c] = trail[c], gaps'[c] = gaps[c], stale'[c] = stale[c]
  PROVE  RequestInv(c)'
<1>1. RequestInv(c)
  BY DEF Inv
<1>2. Known(request[c].secret) =>
        /\ Known(request[c].secret)'
        /\ keys'[request[c].secret].name = keys[request[c].secret].name
        /\ keys[request[c].secret].used => keys'[request[c].secret].used
  BY DEF Known, Evolves
<1>3. RecordInv(c)'
  BY <1>1, <1>2 DEF RequestInv, RecordInv, Accounts, Rows, Audit
<1> QED BY <1>1, <1>2, <1>3 DEF RequestInv

LEMMA RestingCommands ==
  ASSUME Inv, Evolves, UNCHANGED <<cmd, target, seen, dead>>
  PROVE  CommandInv'
<1>1. \A s : Known(s) => Known(s)' /\ (~keys[s].active => ~keys'[s].active)
  BY DEF Known, Evolves
<1> QED BY <1>1 DEF Inv, CommandInv

LEMMA InitInv == Init => Inv
<1> SUFFICES ASSUME Init PROVE Inv
  OBVIOUS
<1>1. TypeOK
  BY AccessAssumption DEF Init, TypeOK, NoRequest
<1>2. CommandInv
  BY DEF Init, CommandInv
<1>3. ASSUME NEW c \in Callers PROVE RequestInv(c)
  <2>1. /\ at[c] = "out" /\ status[c] = 0 /\ stale[c] = FALSE
        /\ due[c] = <<>> /\ trail[c] = {} /\ gaps[c] = {}
    BY DEF Init
  <2> QED BY <2>1 DEF RequestInv, RecordInv
<1> QED BY <1>1, <1>2, <1>3 DEF Inv

\* A command that has not looked yet knows nothing; what it finds alone it may revoke.
LEMMA CommandKeeps ==
  ASSUME Inv, NEW k \in Commands, CommandStep(k)
  PROVE  Inv'
<1>1. TypeOK /\ CommandInv
  BY DEF Inv
<1>2. /\ Evolves /\ CommandInv' /\ TypeOK'
      /\ dead \subseteq dead' /\ UNCHANGED requestVars
  <2>1. CASE CheckName(k) \/ CheckAdmin(k)
    <3>1. Evolves
      BY <1>1, <2>1, SameKeysEvolve DEF CheckName, CheckAdmin
    <3>2. TypeOK'
      <4>1. cmd' \in [Commands -> {"todo", "found", "done", "failed"}]
        <5>1. \E where \in {"found", "done", "failed"} : cmd' = [cmd EXCEPT ![k] = where]
          BY <2>1 DEF CheckName, CheckAdmin, Becomes
        <5> QED BY <1>1, <5>1 DEF TypeOK
      <4>2. UNCHANGED <<keys, target, seen, dead, requestVars, faults>>
        BY <2>1 DEF CheckName, CheckAdmin
      <4> QED BY <1>1, <4>1, <4>2 DEF TypeOK, requestVars
    <3>3. CommandInv'
      BY <1>1, <2>1 DEF CheckName, CheckAdmin, Becomes, TypeOK, CommandInv, Known
    <3> QED BY <2>1, <3>1, <3>2, <3>3 DEF CheckName, CheckAdmin
  <2>2. CASE Insert(k)
    <3>1. Evolves
      BY <1>1, <2>2, SameKeysEvolve, InsertEvolves DEF Insert
    <3>2. TypeOK'
      <4>1. cmd' \in [Commands -> {"todo", "found", "done", "failed"}]
        BY <1>1, <2>2 DEF Insert, Becomes, TypeOK
      <4>2. UNCHANGED <<target, seen, dead, requestVars, faults>>
        BY <2>2 DEF Insert
      <4> QED BY <1>1, <3>1, <4>1, <4>2 DEF TypeOK, requestVars, Evolves
    <3>3. CommandInv'
      <4>1. \A s : Known(s) => Known(s)' /\ (~keys[s].active => ~keys'[s].active)
        BY <3>1 DEF Known, Evolves
      <4> QED BY <1>1, <2>2, <4>1 DEF Insert, Becomes, TypeOK, CommandInv
    <3> QED BY <2>2, <3>1, <3>2, <3>3 DEF Insert
  <2>3. CASE FindKey(k)
    <3>1. Evolves
      BY <1>1, <2>3, SameKeysEvolve DEF FindKey
    <3>2. \A s \in RowOf(Command[k].name) : s \in Secrets /\ Known(s) /\ Named(Command[k].name) = {s}
      BY DEF RowOf, Named, Known
    <3>3. CASE Becomes(k, "failed") /\ UNCHANGED <<target, seen, dead>>
      BY <1>1, <2>3, <3>1, <3>3 DEF FindKey, Becomes, TypeOK, requestVars, CommandInv, Known
    <3>4. ASSUME NEW s \in RowOf(Command[k].name), keys[s].active, Becomes(k, "found"),
                 target' = [target EXCEPT ![k] = s],
                 seen' = [seen EXCEPT ![k] = Named(Command[k].name)], UNCHANGED dead
          PROVE  TypeOK' /\ CommandInv' /\ dead \subseteq dead'
      <4>1. s # None
        BY <3>2 DEF Secrets
      <4>2. TypeOK'
        BY <1>1, <2>3, <3>2, <3>4 DEF FindKey, Becomes, TypeOK, requestVars
      <4>3. CommandInv'
        BY <1>1, <2>3, <3>2, <3>4, <4>1 DEF FindKey, Becomes, TypeOK, CommandInv, Known
      <4> QED BY <3>4, <4>2, <4>3
    <3>5. ASSUME NEW s \in RowOf(Command[k].name), ~keys[s].active, Becomes(k, "done"),
                 dead' = dead \union Named(Command[k].name), UNCHANGED <<target, seen>>
          PROVE  TypeOK' /\ CommandInv' /\ dead \subseteq dead'
      BY <1>1, <2>3, <3>2, <3>5 DEF FindKey, Becomes, TypeOK, requestVars, CommandInv, Known
    <3> QED BY <2>3, <3>1, <3>3, <3>4, <3>5 DEF FindKey
  <2>4. CASE Revoke(k)
    <3>1. Known(target[k]) /\ seen[k] = {target[k]}
      BY <1>1, <2>4 DEF Revoke, CommandInv
    <3>2. Evolves /\ ~keys'[target[k]].active
      BY <1>1, <2>4, <3>1, RevokeEvolves DEF Revoke
    <3>3. \A s : Known(s) => Known(s)' /\ (~keys[s].active => ~keys'[s].active)
      BY <3>2 DEF Known, Evolves
    <3>4. TypeOK'
      BY <1>1, <2>4, <3>2 DEF Revoke, Becomes, TypeOK, requestVars, Evolves
    <3>5. CommandInv'
      BY <1>1, <2>4, <3>1, <3>2, <3>3 DEF Revoke, Becomes, TypeOK, CommandInv
    <3> QED BY <2>4, <3>2, <3>4, <3>5 DEF Revoke
  <2>5. CASE CommandFails(k)
    <3>1. Evolves
      BY <1>1, <2>5, SameKeysEvolve, InsertEvolves, RevokeEvolves DEF CommandFails, CommandInv
    <3>2. \A s : Known(s) => Known(s)' /\ (~keys[s].active => ~keys'[s].active)
      BY <3>1 DEF Known, Evolves
    <3>3. TypeOK'
      BY <1>1, <2>5, <3>1, AccessAssumption
         DEF CommandFails, Becomes, Fault, TypeOK, requestVars, Evolves
    <3>4. CommandInv'
      BY <1>1, <2>5, <3>2 DEF CommandFails, Becomes, TypeOK, CommandInv
    <3> QED BY <2>5, <3>1, <3>3, <3>4 DEF CommandFails
  <2> QED BY <2>1, <2>2, <2>3, <2>4, <2>5 DEF CommandStep
<1>3. \A c \in Callers : RequestInv(c)'
  BY <1>2, RestingRequest DEF requestVars
<1> QED BY <1>2, <1>3 DEF Inv

-----------------------------------------------------------------------------
LEMMA RowsOfOne == \A a : Rows(<<a>>) = {a}
BY DEF Rows

LEMMA RowsOfTwo == \A a, b : Rows(<<a, b>>) = {a, b}
BY DEF Rows

LEMMA RowsOfNone == Rows(<<>>) = {}
BY DEF Rows

LEMMA RowsOfTail ==
  ASSUME NEW S, NEW q \in Seq(S), q # <<>>
  PROVE  Head(q) \in S /\ Tail(q) \in Seq(S) /\ Rows(q) = {Head(q)} \union Rows(Tail(q))
<1>1. Len(q) \in Nat /\ Len(q) > 0 /\ Head(q) = q[1] /\ Head(q) \in S /\ Tail(q) \in Seq(S)
  OBVIOUS
<1>2. Len(Tail(q)) = Len(q) - 1 /\ \A i \in 1 .. Len(q) - 1 : Tail(q)[i] = q[i + 1]
  OBVIOUS
<1>3. ASSUME NEW x \in Rows(q) PROVE x \in {Head(q)} \union Rows(Tail(q))
  <2>1. PICK i \in 1 .. Len(q) : x = q[i]
    BY <1>3 DEF Rows
  <2>2. CASE i = 1
    BY <1>1, <2>1, <2>2
  <2>3. CASE i # 1
    <3>1. i - 1 \in 1 .. Len(q) - 1 /\ Tail(q)[i - 1] = q[i]
      BY <1>1, <1>2, <2>3
    <3> QED BY <1>2, <2>1, <3>1 DEF Rows
  <2> QED BY <2>2, <2>3
<1>4. ASSUME NEW x \in {Head(q)} \union Rows(Tail(q)) PROVE x \in Rows(q)
  <2>1. CASE x = Head(q)
    BY <1>1, <2>1 DEF Rows
  <2>2. CASE x \in Rows(Tail(q))
    <3>1. PICK i \in 1 .. Len(Tail(q)) : x = Tail(q)[i]
      BY <2>2 DEF Rows
    <3>2. i + 1 \in 1 .. Len(q) /\ x = q[i + 1]
      BY <1>1, <1>2, <3>1
    <3> QED BY <3>2 DEF Rows
  <2> QED BY <1>4, <2>1, <2>2
<1> QED BY <1>1, <1>3, <1>4

\* The rows are those an answer of the code calls for.
Fit(c, code, rows) ==
  LET name == keys[request[c].secret].name
      own  == request[c].endpoint.action
  IN  \/ code = 401 /\ rows = {Audit("auth.rejected", None)}
      \/ code = 500 /\ rows = {Audit("request.error", None)}
      \/ /\ Known(request[c].secret)
         /\ \/ code = 500 /\ rows = {Audit("request.error", name)}
            \/ code = 403 /\ rows = {Audit("access.denied", name), Audit(own, name)}
            \/ code \in {200, 404} /\ rows = {Audit(own, name)}

\* A request that is concluded owes its rows and nothing else has changed.
LEMMA Concluded ==
  ASSUME Inv, NEW c \in Callers, at[c] \in {"auth", "touch", "handle"},
         NEW code \in {200, 401, 403, 404, 500}, NEW rows \in Seq(AuditRow),
         Conclude(c, code, rows), Evolves, UNCHANGED <<cmd, target, seen, dead>>,
         faults' \in 0 .. MaxFaults,
         Fit(c, code, Rows(rows)),
         stale[c] => code \in {401, 500},
         code \in {200, 403, 404} => /\ Known(request[c].secret)
                                    /\ keys'[request[c].secret].used
  PROVE  Inv'
<1>1. TypeOK
  BY DEF Inv
<1>2. /\ at'[c] = "record" /\ status'[c] = code /\ due'[c] = rows /\ row'[c] = None
      /\ request' = request /\ trail' = trail /\ gaps' = gaps /\ stale' = stale
  BY <1>1 DEF Conclude, TypeOK
<1>3. \A d \in Callers \ {c} : at'[d] = at[d] /\ status'[d] = status[d]
                               /\ due'[d] = due[d] /\ row'[d] = row[d]
  BY <1>1 DEF Conclude, TypeOK
<1>4. /\ at' \in [Callers -> {"out", "auth", "touch", "handle", "record", "answered"}]
      /\ status' \in [Callers -> {0, 200, 401, 403, 404, 500}]
      /\ row' \in [Callers -> ApiKey \union {None}]
  BY <1>1 DEF Conclude, TypeOK
<1>5. due' \in [Callers -> Seq(AuditRow)]
  BY <1>1 DEF Conclude, TypeOK
<1>6. \A d \in Callers : /\ row'[d] # None <=> at'[d] \in {"touch", "handle"}
                         /\ row'[d] # None => row'[d].active
  BY <1>1, <1>2, <1>3 DEF TypeOK
<1>7. TypeOK'
  BY <1>1, <1>2, <1>4, <1>5, <1>6 DEF TypeOK, Evolves
<1>8. ASSUME NEW d \in Callers \ {c} PROVE RequestInv(d)'
  <2>1. dead \subseteq dead'
    OBVIOUS
  <2>2. /\ at'[d] = at[d] /\ request'[d] = request[d] /\ row'[d] = row[d]
        /\ status'[d] = status[d] /\ due'[d] = due[d] /\ trail'[d] = trail[d]
        /\ gaps'[d] = gaps[d] /\ stale'[d] = stale[d]
    BY <1>2, <1>3
  <2> QED BY <2>1, <2>2, RestingRequest
<1>9. trail[c] = {} /\ gaps[c] = {}
  <2>1. RecordInv(c)
    BY DEF Inv, RequestInv
  <2> QED BY <2>1 DEF RecordInv
<1>10. Known(request[c].secret) =>
         /\ request[c].secret \in Secrets /\ keys'[request[c].secret] # None
         /\ keys'[request[c].secret].name = keys[request[c].secret].name
  BY DEF Known, Evolves
<1>11. RecordInv(c)'
  <2>1. Accounts(c, Rows(due[c]) \union trail[c] \union gaps[c])'
    BY <1>2, <1>9, <1>10 DEF Fit, Accounts, Known, Rows, Audit
  <2> QED BY <1>2, <2>1 DEF RecordInv
<1>12. RequestInv(c)'
  <2>1. RequestInv(c)
    BY DEF Inv
  <2> QED BY <1>2, <1>10, <1>11, <2>1 DEF RequestInv, Known
<1>13. CommandInv'
  BY RestingCommands
<1> QED BY <1>7, <1>8, <1>12, <1>13 DEF Inv

LEMMA RequestKeeps ==
  ASSUME Inv, NEW c \in Callers, RequestStep(c)
  PROVE  Inv'
<1> DEFINE s == request[c].secret
           own == request[c].endpoint.action
           name == row[c].name
<1>1. TypeOK /\ RequestInv(c)
  BY DEF Inv
<1>2. UNCHANGED <<cmd, target, seen, dead>>
  BY DEF RequestStep, Arrive, Authenticate, Touch, Handle, Fail, WriteAudit, Respond, commandVars
<1>3. Evolves
  BY <1>1, SameKeysEvolve, TouchEvolves
     DEF RequestStep, Arrive, Authenticate, Touch, Handle, Fail, WriteAudit, Respond,
         commandVars, RequestInv
<1>4. CommandInv'
  BY <1>2, <1>3, RestingCommands
<1>5. Known(s) => /\ s \in Secrets /\ keys'[s] # None /\ keys'[s].name = keys[s].name
                  /\ keys[s].used => keys'[s].used
  BY <1>3 DEF Known, Evolves
<1>6. faults' \in 0 .. MaxFaults
  BY <1>1, AccessAssumption
     DEF RequestStep, Arrive, Authenticate, Touch, Handle, Fail, WriteAudit, Respond, Fault, TypeOK
<1>7. \A action \in {"auth.rejected", "access.denied", "read", "write", "request.error"} :
        \A actor \in Names \union {None} : Audit(action, actor) \in AuditRow
  BY DEF Audit, AuditRow
<1>8. at[c] \in {"touch", "handle"} => /\ Known(s) /\ name = keys[s].name /\ name \in Names
                                      /\ own \in {"read", "write"}
  <2>1. at[c] \in {"touch", "handle"} => row[c] \in ApiKey /\ request[c].endpoint \in Endpoints
    BY <1>1 DEF TypeOK, RequestInv
  <2> QED BY <1>1, <2>1, AccessAssumption DEF RequestInv, ApiKey
<1>9. CASE Authenticate(c)
  <2>1. CASE ~Accepted(s)
    <3> DEFINE rows == <<Audit("auth.rejected", None)>>
    <3>1. Conclude(c, 401, rows) /\ at[c] = "auth"
      BY <1>9, <2>1 DEF Authenticate
    <3>2. rows \in Seq(AuditRow) /\ Fit(c, 401, Rows(rows))
      BY <1>7, RowsOfOne DEF Fit
    <3> HIDE DEF rows
    <3> QED BY <1>2, <1>3, <1>6, <3>1, <3>2, Concluded
  <2>2. CASE Accepted(s)
    <3>1. /\ at[c] = "auth" /\ row' = [row EXCEPT ![c] = keys[s]]
          /\ at' = [at EXCEPT ![c] = "touch"]
          /\ UNCHANGED <<commandVars, request, status, due, trail, gaps, stale, faults>>
      BY <1>9, <2>2 DEF Authenticate
    <3>2. s \in Secrets /\ keys[s] \in ApiKey /\ keys[s] # None /\ keys[s].active
      BY <1>1, <2>2 DEF Accepted, Known, TypeOK
    <3>3. TypeOK'
      <4>1. /\ at' \in [Callers -> {"out", "auth", "touch", "handle", "record", "answered"}]
            /\ row' \in [Callers -> ApiKey \union {None}]
        BY <1>1, <3>1, <3>2 DEF TypeOK
      <4>2. \A d \in Callers : /\ row'[d] # None <=> at'[d] \in {"touch", "handle"}
                               /\ row'[d] # None => row'[d].active
        BY <1>1, <3>1, <3>2 DEF TypeOK
      <4> QED BY <1>1, <3>1, <4>1, <4>2 DEF TypeOK, commandVars
    <3>4. \A d \in Callers \ {c} : RequestInv(d)'
      BY <1>1, <1>2, <1>3, <3>1, RestingRequest DEF TypeOK
    <3>5. at'[c] = "touch" /\ row'[c] = keys[s]
      BY <1>1, <3>1 DEF TypeOK
    <3>6. ~stale[c]
      <4>1. \A t \in dead : ~keys[t].active
        BY DEF Inv, CommandInv
      <4> QED BY <1>1, <3>2, <4>1 DEF RequestInv, TypeOK
    <3>7. RecordInv(c)'
      BY <1>1, <3>1, <3>5 DEF RequestInv, RecordInv
    <3>8. RequestInv(c)'
      BY <1>1, <3>1, <3>2, <3>5, <3>6, <3>7
         DEF RequestInv, RecordInv, Known, commandVars
    <3> QED BY <1>4, <3>3, <3>4, <3>8 DEF Inv
  <2> QED BY <2>1, <2>2
<1>10. CASE Arrive(c)
  <2>1. PICK t \in Presented, e \in Endpoints :
          /\ request' = [request EXCEPT ![c] = [secret |-> t, endpoint |-> e]]
          /\ stale' = [stale EXCEPT ![c] = t \in dead]
    BY <1>10 DEF Arrive
  <2>2. /\ at[c] \in {"out", "answered"} /\ at' = [at EXCEPT ![c] = "auth"]
        /\ status' = [status EXCEPT ![c] = 0]
        /\ trail' = [trail EXCEPT ![c] = {}] /\ gaps' = [gaps EXCEPT ![c] = {}]
        /\ UNCHANGED <<commandVars, row, due, faults>>
    BY <1>10 DEF Arrive
  <2>3. /\ at'[c] = "auth" /\ request'[c] = [secret |-> t, endpoint |-> e]
        /\ stale'[c] = (t \in dead) /\ status'[c] = 0
        /\ trail'[c] = {} /\ gaps'[c] = {} /\ due'[c] = due[c]
    BY <1>1, <2>1, <2>2 DEF TypeOK
  <2>4. due[c] = <<>>
    BY <1>1, <2>2 DEF RequestInv, RecordInv
  <2>5. RecordInv(c)'
    BY <2>3, <2>4 DEF RecordInv
  <2>6. RequestInv(c)'
    <3>1. dead' = dead /\ request'[c].secret = t /\ request'[c].endpoint = e
      BY <2>2, <2>3 DEF commandVars
    <3>2. stale'[c] => request'[c].secret \in dead'
      BY <2>3, <3>1, Zenon
    <3> QED BY <2>3, <2>5, <3>1, <3>2 DEF RequestInv
  <2>7. \A d \in Callers \ {c} : RequestInv(d)'
    BY <1>1, <1>2, <1>3, <2>1, <2>2, RestingRequest DEF TypeOK
  <2>8. TypeOK'
    <3>1. /\ at' \in [Callers -> {"out", "auth", "touch", "handle", "record", "answered"}]
          /\ status' \in [Callers -> {0, 200, 401, 403, 404, 500}]
          /\ trail' \in [Callers -> SUBSET AuditRow] /\ gaps' \in [Callers -> SUBSET AuditRow]
      BY <1>1, <2>2 DEF TypeOK
    <3>2. /\ request' \in [Callers -> [secret : Presented, endpoint : Endpoints] \union {NoRequest}]
          /\ stale' \in [Callers -> BOOLEAN]
      BY <1>1, <2>1 DEF TypeOK
    <3>3. \A d \in Callers : row'[d] # None <=> at'[d] \in {"touch", "handle"}
      BY <1>1, <2>2 DEF TypeOK
    <3> QED BY <1>1, <2>2, <3>1, <3>2, <3>3 DEF TypeOK, commandVars
  <2> QED BY <1>4, <2>6, <2>7, <2>8 DEF Inv
<1>11. CASE Touch(c)
  <2>1. at[c] = "touch" /\ Known(s) /\ ~stale[c]
    BY <1>1, <1>11 DEF Touch, RequestInv, TypeOK
  <2>2. keys'[s].used /\ faults' = faults
    BY <1>1, <1>11, <2>1, TouchEvolves DEF Touch
  <2>3. CASE /\ at' = [at EXCEPT ![c] = "handle"]
             /\ UNCHANGED <<request, row, status, due, trail, gaps, stale>>
    <3>1. at'[c] = "handle"
      BY <1>1, <2>3 DEF TypeOK
    <3>2. RecordInv(c)'
      BY <1>1, <2>1, <2>3, <3>1 DEF RequestInv, RecordInv
    <3>3. RequestInv(c)'
      BY <1>1, <1>5, <2>1, <2>2, <2>3, <3>1, <3>2 DEF RequestInv, Known
    <3>4. \A d \in Callers \ {c} : RequestInv(d)'
      BY <1>1, <1>2, <1>3, <2>3, RestingRequest DEF TypeOK
    <3>5. TypeOK'
      <4>1. at' \in [Callers -> {"out", "auth", "touch", "handle", "record", "answered"}]
        BY <1>1, <2>3 DEF TypeOK
      <4>2. \A d \in Callers : row'[d] # None <=> at'[d] \in {"touch", "handle"}
        BY <1>1, <2>1, <2>3 DEF TypeOK
      <4> QED BY <1>1, <1>2, <1>3, <2>2, <2>3, <4>1, <4>2 DEF TypeOK, Evolves
    <3> QED BY <1>4, <3>3, <3>4, <3>5 DEF Inv
  <2>4. CASE Conclude(c, 403, <<Audit("access.denied", name), Audit(own, name)>>)
    <3> DEFINE rows == <<Audit("access.denied", name), Audit(own, name)>>
    <3>1. rows \in Seq(AuditRow)
      BY <1>7, <1>8, <2>1
    <3>2. Fit(c, 403, Rows(rows))
      BY <1>8, <2>1, RowsOfTwo DEF Fit
    <3>3. Conclude(c, 403, rows)
      BY <2>4
    <3> HIDE DEF rows
    <3> QED BY <1>2, <1>3, <1>6, <2>1, <2>2, <3>1, <3>2, <3>3, Concluded
  <2> QED BY <1>11, <2>3, <2>4 DEF Touch
<1>12. CASE Handle(c)
  <2> DEFINE rows == <<Audit(own, name)>>
  <2>1. PICK code \in {200, 404} : Conclude(c, code, rows)
    BY <1>12 DEF Handle
  <2>2. at[c] = "handle" /\ Known(s) /\ ~stale[c] /\ keys'[s].used
    BY <1>1, <1>5, <1>12 DEF Handle, RequestInv, TypeOK
  <2>3. rows \in Seq(AuditRow)
    BY <1>7, <1>8, <2>2
  <2>4. Fit(c, code, Rows(rows))
    BY <1>8, <2>2, RowsOfOne DEF Fit
  <2> HIDE DEF rows
  <2> QED BY <1>2, <1>3, <1>6, <2>1, <2>2, <2>3, <2>4, Concluded
<1>13. CASE Fail(c)
  <2> DEFINE actor == IF at[c] = "handle" THEN name ELSE None
             rows == <<Audit("request.error", actor)>>
  <2>1. at[c] \in {"auth", "touch", "handle"} /\ Conclude(c, 500, rows)
    BY <1>13 DEF Fail
  <2>2. rows \in Seq(AuditRow)
    BY <1>7, <1>8, <2>1
  <2>3. Fit(c, 500, Rows(rows))
    BY <1>8, <2>1, RowsOfOne DEF Fit
  <2> HIDE DEF rows
  <2> QED BY <1>2, <1>3, <1>6, <2>1, <2>2, <2>3, Concluded
<1>14. CASE WriteAudit(c)
  <2> DEFINE q == due[c]
  <2>1. /\ at[c] = "record" /\ q # <<>> /\ due' = [due EXCEPT ![c] = Tail(q)]
        /\ UNCHANGED <<commandVars, at, request, row, status, stale>>
        /\ \/ trail' = [trail EXCEPT ![c] = @ \union {Head(q)}] /\ gaps' = gaps
           \/ gaps' = [gaps EXCEPT ![c] = @ \union {Head(q)}] /\ trail' = trail
    BY <1>14 DEF WriteAudit
  <2>2. /\ Head(q) \in AuditRow /\ Tail(q) \in Seq(AuditRow)
        /\ Rows(q) = {Head(q)} \union Rows(Tail(q))
    BY <1>1, <2>1, RowsOfTail DEF TypeOK
  <2>3. /\ due'[c] = Tail(q)
        /\ trail'[c] \union gaps'[c] = trail[c] \union gaps[c] \union {Head(q)}
    BY <1>1, <2>1 DEF TypeOK
  <2>4. Rows(due'[c]) \union trail'[c] \union gaps'[c] = Rows(q) \union trail[c] \union gaps[c]
    BY <2>2, <2>3
  <2>5. Accounts(c, Rows(q) \union trail[c] \union gaps[c])
    BY <1>1, <2>1 DEF RequestInv, RecordInv
  <2>6. RecordInv(c)'
    BY <2>1, <2>4, <2>5 DEF RecordInv, Accounts, Known, Rows, commandVars
  <2>7. RequestInv(c)'
    BY <1>1, <2>1, <2>6 DEF RequestInv, Known, commandVars
  <2>8. \A d \in Callers \ {c} : RequestInv(d)'
    BY <1>1, <1>2, <1>3, <2>1, RestingRequest DEF TypeOK
  <2>9. TypeOK'
    <3>1. due' \in [Callers -> Seq(AuditRow)]
      BY <1>1, <2>1, <2>2 DEF TypeOK
    <3>2. trail' \in [Callers -> SUBSET AuditRow] /\ gaps' \in [Callers -> SUBSET AuditRow]
      <4>1. \A f \in [Callers -> SUBSET AuditRow] :
              [f EXCEPT ![c] = f[c] \union {Head(q)}] \in [Callers -> SUBSET AuditRow]
        BY <2>2
      <4>2. trail \in [Callers -> SUBSET AuditRow] /\ gaps \in [Callers -> SUBSET AuditRow]
        BY <1>1 DEF TypeOK
      <4> QED BY <2>1, <4>1, <4>2
    <3> QED BY <1>1, <1>6, <2>1, <3>1, <3>2 DEF TypeOK, commandVars
  <2> QED BY <1>4, <2>7, <2>8, <2>9 DEF Inv
<1>15. CASE Respond(c)
  <2>1. /\ at[c] = "record" /\ due[c] = <<>> /\ at' = [at EXCEPT ![c] = "answered"]
        /\ due' = [due EXCEPT ![c] = <<>>]
        /\ UNCHANGED <<commandVars, request, row, status, trail, gaps, stale, faults>>
    BY <1>15 DEF Respond, Recorded
  <2>2. at'[c] = "answered" /\ due'[c] = <<>> /\ due' \in [Callers -> Seq(AuditRow)]
    BY <1>1, <2>1 DEF TypeOK
  <2>3. Accounts(c, Rows(due[c]) \union trail[c] \union gaps[c])
    BY <1>1, <2>1 DEF RequestInv, RecordInv
  <2>4. RecordInv(c)'
    BY <2>1, <2>2, <2>3 DEF RecordInv, Accounts, Known, Rows, commandVars
  <2>5. RequestInv(c)'
    BY <1>1, <2>1, <2>2, <2>4 DEF RequestInv, Known, commandVars
  <2>6. \A d \in Callers \ {c} : RequestInv(d)'
    BY <1>1, <1>2, <1>3, <2>1, RestingRequest DEF TypeOK
  <2>7. TypeOK'
    <3>1. at' \in [Callers -> {"out", "auth", "touch", "handle", "record", "answered"}]
      BY <1>1, <2>1 DEF TypeOK
    <3>2. \A d \in Callers : row'[d] # None <=> at'[d] \in {"touch", "handle"}
      BY <1>1, <2>1 DEF TypeOK
    <3> QED BY <1>1, <2>1, <2>2, <3>1, <3>2 DEF TypeOK, commandVars
  <2> QED BY <1>4, <2>5, <2>6, <2>7 DEF Inv
<1> QED BY <1>9, <1>10, <1>11, <1>12, <1>13, <1>14, <1>15 DEF RequestStep

\* A crash leaves the answered requests and the table as they are.
LEMMA CrashKeeps == Inv /\ Crash => Inv'
<1> SUFFICES ASSUME Inv, Crash PROVE Inv'
  OBVIOUS
<1>1. TypeOK /\ Evolves /\ UNCHANGED <<keys, cmd, target, seen, dead>> /\ faults' \in 0 .. MaxFaults
  BY SameKeysEvolve, AccessAssumption DEF Inv, Crash, Fault, commandVars, TypeOK
<1>2. CommandInv'
  BY <1>1, RestingCommands
<1>3. ASSUME NEW c \in Callers, at[c] = "answered"
      PROVE  /\ at'[c] = at[c] /\ request'[c] = request[c] /\ row'[c] = row[c]
             /\ status'[c] = status[c] /\ due'[c] = due[c] /\ trail'[c] = trail[c]
             /\ gaps'[c] = gaps[c] /\ stale'[c] = stale[c]
  BY <1>3 DEF Crash
<1>4. ASSUME NEW c \in Callers, at[c] # "answered"
      PROVE  /\ at'[c] = "out" /\ request'[c] = NoRequest /\ row'[c] = None
             /\ status'[c] = 0 /\ due'[c] = <<>> /\ trail'[c] = {}
             /\ gaps'[c] = {} /\ stale'[c] = FALSE
  BY <1>4 DEF Crash
<1>5. ASSUME NEW c \in Callers PROVE RequestInv(c)'
  <2>1. CASE at[c] = "answered"
    BY <1>1, <1>3, <2>1, RestingRequest
  <2>2. CASE at[c] # "answered"
    <3>1. /\ at'[c] = "out" /\ status'[c] = 0 /\ due'[c] = <<>>
          /\ trail'[c] = {} /\ gaps'[c] = {} /\ ~stale'[c]
      BY <1>4, <2>2
    <3>2. RecordInv(c)'
      BY <3>1 DEF RecordInv
    <3> QED BY <3>1, <3>2 DEF RequestInv
  <2> QED BY <2>1, <2>2
<1>6. TypeOK'
  <2>1. /\ at' \in [Callers -> {"out", "auth", "touch", "handle", "record", "answered"}]
        /\ request' \in [Callers -> [secret : Presented, endpoint : Endpoints] \union {NoRequest}]
        /\ row' \in [Callers -> ApiKey \union {None}]
    BY <1>1 DEF Crash, TypeOK
  <2>2. /\ status' = [c \in Callers |-> status'[c]] /\ due' = [c \in Callers |-> due'[c]]
        /\ trail' = [c \in Callers |-> trail'[c]] /\ gaps' = [c \in Callers |-> gaps'[c]]
        /\ stale' = [c \in Callers |-> stale'[c]]
    BY DEF Crash
  <2>3. ASSUME NEW c \in Callers
        PROVE  /\ status'[c] \in {0, 200, 401, 403, 404, 500} /\ due'[c] \in Seq(AuditRow)
               /\ trail'[c] \in SUBSET AuditRow /\ gaps'[c] \in SUBSET AuditRow
               /\ stale'[c] \in BOOLEAN
               /\ row'[c] # None <=> at'[c] \in {"touch", "handle"}
               /\ row'[c] # None => row'[c].active
    <3>1. CASE at[c] = "answered"
      BY <1>1, <1>3, <3>1 DEF TypeOK
    <3>2. CASE at[c] # "answered"
      <4>1. status'[c] = 0 /\ due'[c] = <<>> /\ trail'[c] = {} /\ gaps'[c] = {}
        BY <1>4, <3>2
      <4>2. at'[c] = "out" /\ row'[c] = None
        BY <1>4, <3>2
      <4>3. stale'[c] \in BOOLEAN
        BY <1>4, <3>2, Zenon
      <4> QED BY <4>1, <4>2, <4>3
    <3> QED BY <3>1, <3>2
  <2> QED BY <1>1, <2>1, <2>2, <2>3 DEF TypeOK
<1> QED BY <1>2, <1>5, <1>6 DEF Inv

LEMMA NextInv == Inv /\ [Next]_vars => Inv'
<1> SUFFICES ASSUME Inv, [Next]_vars PROVE Inv'
  OBVIOUS
<1>1. CASE UNCHANGED vars
  <2>1. TypeOK' /\ Evolves
    BY <1>1, SameKeysEvolve DEF vars, commandVars, requestVars, Inv, TypeOK
  <2>2. CommandInv' /\ \A c \in Callers : RequestInv(c)'
    BY <1>1, <2>1, RestingCommands, RestingRequest DEF vars, commandVars, requestVars
  <2> QED BY <2>1, <2>2 DEF Inv
<1> QED BY <1>1, CommandKeeps, RequestKeeps, CrashKeeps DEF Next

LEMMA InvImplies == Inv => TypeOK /\ RevokedIsRefused /\ AnsweredIsOnRecord
<1> SUFFICES ASSUME Inv PROVE RevokedIsRefused /\ AnsweredIsOnRecord
  BY DEF Inv
<1>1. RevokedIsRefused
  BY DEF Inv, RequestInv, RevokedIsRefused
<1>2. ASSUME NEW c \in Callers, at[c] = "answered"
      PROVE  /\ Accounts(c, trail[c] \union gaps[c])
             /\ status[c] \in {200, 403, 404} => keys[request[c].secret].used
  <2>1. RequestInv(c)
    BY DEF Inv
  <2>2. Rows(due[c]) = {} /\ Accounts(c, Rows(due[c]) \union trail[c] \union gaps[c])
    BY <1>2, <2>1, RowsOfNone DEF RequestInv, RecordInv
  <2>3. Rows(due[c]) \union trail[c] \union gaps[c] = trail[c] \union gaps[c]
    BY <2>2
  <2> QED BY <2>1, <2>2, <2>3 DEF RequestInv, Accounts
<1> QED BY <1>1, <1>2 DEF AnsweredIsOnRecord

\* The tables, requests and commands are well typed, and a request past authentication holds
\* a key that was active when it was read.
THEOREM TypeCorrect == Spec => []TypeOK
<1> QED BY InitInv, NextInv, InvImplies, PTL DEF Spec

\* A key whose revocation has been reported is refused to every request that arrives later,
\* whatever else is committed to its row (keys.py, cmd_revoke; security.py, authenticate).
THEOREM Revocation == Spec => []RevokedIsRefused
<1> QED BY InitInv, NextInv, InvImplies, PTL DEF Spec

\* Every answer is on record, up to the gaps the log admits (api.py, audit_middleware).
THEOREM OnRecord == Spec => []AnsweredIsOnRecord
<1> QED BY InitInv, NextInv, InvImplies, PTL DEF Spec
=============================================================================
