----------------------------- MODULE AtLeastOnce -----------------------------
(***************************************************************************)
(* What a consumer group that commits its offsets by hand promises about a *)
(* topic: an offset is committed only when every entry below it has been   *)
(* settled, that is, written to the ledger or rejected for good.  Entries  *)
(* may be settled in any order and more than once; nothing is ever         *)
(* unsettled or uncommitted.  Partitions are independent except that one   *)
(* commit may move several of them.                                        *)
(***************************************************************************)
EXTENDS Integers

CONSTANT Partitions

VARIABLES produced,    \* entries appended to each partition
          settled,     \* entries whose fate the consumer has decided
          committed    \* entries below the committed offset

vars == <<produced, settled, committed>>

Init == /\ produced = [p \in Partitions |-> 0]
        /\ settled = [p \in Partitions |-> {}]
        /\ committed = [p \in Partitions |-> 0]

Produce(p) == /\ produced' = [produced EXCEPT ![p] = @ + 1]
              /\ UNCHANGED <<settled, committed>>

Settle(p, n) == /\ n \in 1 .. produced[p]
                /\ settled' = [settled EXCEPT ![p] = @ \union {n}]
                /\ UNCHANGED <<produced, committed>>

Commit == /\ committed' \in [Partitions -> Nat]
          /\ \A p \in Partitions :
                /\ committed[p] <= committed'[p]
                /\ committed'[p] <= produced[p]
                /\ 1 .. committed'[p] \subseteq settled[p]
          /\ UNCHANGED <<produced, settled>>

Next == \/ \E p \in Partitions : Produce(p) \/ \E n \in 1 .. produced[p] : Settle(p, n)
        \/ Commit

Spec == Init /\ [][Next]_vars
=============================================================================
