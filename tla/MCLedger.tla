------------------------------ MODULE MCLedger ------------------------------
(* Small instances of Ledger for TLC. *)
EXTENDS Ledger, TLC

\* In half cents: a cent and a half, in and out.
MCMoney == {-3, 3}
MCFrozen == {0, 1}

HandlerSymmetry == Permutations(Handler)
=============================================================================
