------------------------------- MODULE Wallet -------------------------------
(***************************************************************************)
(* What the ledger promises the rest of the service: a wallet per user     *)
(* whose movements are posted one at a time and which never goes below     *)
(* zero.  statement[u] lists the movements of u with the balance after     *)
(* each, as the user's account page derives it from the rows.              *)
(***************************************************************************)
EXTENDS Integers, Sequences

CONSTANTS
  User,
  Amount      \* what a movement may add or take

VARIABLE statement

Holding(lines) == IF lines = <<>> THEN 0 ELSE lines[Len(lines)].after

Init == statement = [u \in User |-> <<>>]

\* One movement, on the balance the previous one left.
Post(u, amount) ==
  LET after == Holding(statement[u]) + amount IN
  /\ after >= 0
  /\ statement' = [statement EXCEPT ![u] =
                     Append(@, [amount |-> amount, after |-> after])]

Next == \E u \in User, amount \in Amount : Post(u, amount)

Spec == Init /\ [][Next]_statement

=============================================================================
