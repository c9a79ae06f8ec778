---------------------------- MODULE MCVirtualnum ----------------------------
(* Small instances of Virtualnum for TLC. *)
EXTENDS Virtualnum

MCHandler == Activation \cup Gateway
MCMoney == {1, 2}
MCTopUp == {1}
MCCost == {2}
MCNone == {}
=============================================================================
