------------------------------ MODULE MCOrders ------------------------------
(* Small instances of Orders for TLC. *)
EXTENDS Orders, TLC

\* In half cents: two cents, and a cent and a half.
MCExact == {4}
MCFraction == {3}
MCNothingFrozen == {0}
MCFrozen == {0, 3}
MCNone == {}

HandlerSymmetry == Permutations(Handler)
=============================================================================
