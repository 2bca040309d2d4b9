SPECIFICATION Spec
CONSTANTS
  None = None
  create = create
  bootstrap = bootstrap
  redeploy = redeploy
  revoke = revoke
  ours = ours
  admins = admins
  guess = guess
  Callers = {c1, c2}
  Presented = {ours, admins, guess}
  Commands = {create, bootstrap, redeploy, revoke}
  Command <- MCCommand
  Endpoints <- MCEndpoints
  FaultKinds = {"db", "crash"}
  MaxFaults = 1
SYMMETRY Symmetry
INVARIANTS
  TypeOK
  RevokedIsRefused
  AnsweredIsOnRecord
