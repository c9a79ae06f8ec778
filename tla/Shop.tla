-------------------------------- MODULE Shop --------------------------------
(***************************************************************************)
(* What the catalogue promises about one service: in each country it has   *)
(* one price or none; an administrator prices it, takes it down with all   *)
(* its prices, and puts it back with the prices it had.                    *)
(***************************************************************************)
EXTENDS Integers

CONSTANTS Country, Amount

VARIABLES
  shelf,   \* shelf[k]: the price customers of country k see, as a set
  back     \* back[k]: the price put aside while the service is taken down

Nothing == [k \in Country |-> {}]

Init == shelf = Nothing /\ back = Nothing

Price(k, amount) ==
  /\ back = Nothing
  /\ shelf' = [shelf EXCEPT ![k] = {amount}]
  /\ UNCHANGED back

TakeDown ==
  /\ back = Nothing
  /\ shelf' = Nothing
  /\ back' = shelf

PutBack(k) ==
  /\ shelf' = [shelf EXCEPT ![k] = back[k]]
  /\ back' = [back EXCEPT ![k] = {}]

Next ==
  \/ \E k \in Country, amount \in Amount : Price(k, amount)
  \/ TakeDown
  \/ \E k \in Country : PutBack(k)

=============================================================================
