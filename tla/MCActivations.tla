--------------------------- MODULE MCActivations ---------------------------
(* Small instances of Activations for TLC. *)
EXTENDS Activations

MCHandler == Activation
MCCost == {1, 2}
MCMoney == 0..2
MCOneCost == {1}
MCNone == {}

Symmetry == Permutations(Activation) \cup Permutations(Request)
=============================================================================
