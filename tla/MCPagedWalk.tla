----------------------------- MODULE MCPagedWalk -----------------------------
(***************************************************************************)
(* PagedWalk for TLC: a walking client and one other caller over the rows  *)
(* of two sources.                                                         *)
(***************************************************************************)
EXTENDS PagedWalk, TLC

CONSTANTS walker, rival, ours, theirs, p, q

MCIdentity == (walker :> ours) @@ (rival :> theirs)

Table(ps, qs) == [r \in Keys |-> IF r[1] = p THEN ps[r[2]] ELSE qs[r[2]]]

\* The newest window is a forecast, the one before it is there for both, one is missing.
MCLedgers == {Table(<<"settled", "settled", "forecast">>, <<None, "settled", None>>)}

\* Everything, or what one plant has settled.
MCFilters == {[sources |-> {p, q}, settledOnly |-> FALSE], [sources |-> {p}, settledOnly |-> TRUE]}
=============================================================================
