------------------------ MODULE MCTelemetryConsumer ------------------------
EXTENDS TelemetryConsumer, TLC

CONSTANTS p1, p2

\* One window on each of two partitions: a commit moves both.
SpreadWindows == (1 :> p1) @@ (2 :> p2)

\* The longer partition can see a revision, the other what shares its commit.
TwoAndOne == (p1 :> 2) @@ (p2 :> 1)

\* Contents are only ever compared for equality.
HashSymmetry == Permutations(Hashes)
=============================================================================
