----------------------------- MODULE MCApiAccess -----------------------------
(***************************************************************************)
(* ApiAccess for TLC: a key that takes the name of the bootstrap key, two  *)
(* deployments that bootstrap with one secret, and the revocation of the   *)
(* name, against two callers.                                              *)
(***************************************************************************)
EXTENDS ApiAccess, TLC

CONSTANTS create, bootstrap, redeploy, revoke, ours, admins, guess

BootstrapName == "bootstrap-admin"

Issue(kind, role, secret) ==
  [kind |-> kind, name |-> BootstrapName, role |-> role, secret |-> secret]

MCCommand == (create    :> Issue("create", "viewer", ours)) @@
             (bootstrap :> Issue("bootstrap", "admin", admins)) @@
             (redeploy  :> Issue("bootstrap", "admin", admins)) @@
             (revoke    :> Issue("revoke", None, None))

\* Any viewer may read; POST /optimize/run takes an operator.
MCEndpoints == {[requires |-> "viewer", action |-> "read"],
                [requires |-> "operator", action |-> "write"]}

Symmetry == Permutations(Callers) \union Permutations({bootstrap, redeploy})
=============================================================================
