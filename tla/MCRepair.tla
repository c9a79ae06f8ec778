------------------------------ MODULE MCRepair ------------------------------
(* Small instances of Repair for TLC. *)
EXTENDS Repair, TLC

\* In half cents: a cent, and a cent and a half; purchases take them out again.
MCMoney == {2, 3}
MCFrozen == {0}

HandlerSymmetry == Permutations(Handler)
=============================================================================
