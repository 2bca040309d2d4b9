----------------------------- MODULE MCPlanning -----------------------------
(***************************************************************************)
(* Planning for TLC: one plant; the ledger holds windows 1 and 2, or only  *)
(* window 1, and window 3 is still to come.                                *)
(***************************************************************************)
EXTENDS Planning

Ledger(g, c) == [grid  |-> [w \in Windows |-> g[w]],
                 plant |-> [r \in Plants \X Windows |-> c[r[2]]]]

\* The cleaner window is the one without room; no plant has reported; one window is
\* reported; nothing has room; there is one window only.
MCBacklogs == {Ledger(<<2, 1, None>>, <<1, 0, None>>),
               Ledger(<<2, 1, None>>, <<None, None, None>>),
               Ledger(<<1, 2, None>>, <<None, 1, None>>),
               Ledger(<<1, 2, None>>, <<0, 0, None>>),
               Ledger(<<1, None, None>>, <<1, None, None>>)}
=============================================================================
