------------------------------- MODULE Repair -------------------------------
(***************************************************************************)
(* The migration that repairs the ledger: ChangeTransactionsAmountType.    *)
(* Before it amounts could be fractions of a cent; it rounds them up,      *)
(* recomputes balanceBefore along the rows, and makes both columns         *)
(* integers.  It looks only at users who have a fractional amount.         *)
(*                                                                         *)
(* The ledger runs before and after it.  Until the migration the numbers   *)
(* of the rows count 1/Units of a cent, afterwards cents; Ledger itself    *)
(* rounds nothing here (Scale = 1), as postings did not before.  Rows that *)
(* overlapping postings left without a chain are part of what it finds.    *)
(***************************************************************************)
EXTENDS Ledger

CONSTANT Units    \* units of an unrepaired amount in a cent

ASSUME RepairAssumption == Scale = 1 /\ Units \in Nat \ {0}

VARIABLES
  migrated,   \* the migration is in the table of migrations
  chained     \* history: users whose rows formed a chain when it ran

vars == <<ledgerVars, migrated, chained>>

RepairInit ==
  /\ LedgerInit
  /\ migrated = FALSE
  /\ chained = User

-----------------------------------------------------------------------------
(* What the migration computes from the rows of one user, oldest first.     *)

\* Users whose rows are recomputed.
Fractional(rows) == \E i \in 1..Len(rows) : rows[i].amount % Units # 0

\* Mutant of NewAmount.
NewAmountDown(amount) == amount \div Units

\* new Money(old.amount).toRoundMoreAmount()
NewAmount(amount) == -((-amount) \div Units)

\* Mutant of Recomputed.
RecomputedFromOld(rows) ==
  [i \in 1..Len(rows) |->
     [rows[i] EXCEPT !.amount = NewAmount(@), !.balanceBefore = NewAmount(@)]]

\* nextTransactions: each row starts from the new balance of the previous one.
Recomputed(rows) ==
  LET next[i \in 1..Len(rows)] ==
        [rows[i] EXCEPT
           !.amount = NewAmount(@),
           !.balanceBefore = IF i = 1 THEN 0
                             ELSE next[i-1].amount + next[i-1].balanceBefore]
  IN  next

\* ALTER COLUMN ... TYPE integer: Postgres rounds to the nearest integer.
Cast(rows) ==
  [i \in 1..Len(rows) |->
     [rows[i] EXCEPT !.amount = (2 * @ + Units) \div (2 * Units),
                     !.balanceBefore = (2 * @ + Units) \div (2 * Units)]]

Repaired(rows) == IF Fractional(rows) THEN Recomputed(rows) ELSE Cast(rows)

\* calcBalance, which the migration and the dry run test() apply to the rows
\* and to the recomputed rows: the sum of the amounts, after each row and whole.
Sums(rows) ==
  LET sum[n \in 0..Len(rows)] ==
        IF n = 0 THEN 0 ELSE sum[n-1] + rows[n].amount
  IN  sum

SumOf(rows) == Sums(rows)[Len(rows)]

IsChain(rows) ==
  \A i \in 1..Len(rows) : rows[i].balanceBefore = BalanceAt(rows, i-1)

\* The service is stopped, the migration commits or leaves no trace, and the
\* service starts: what postings were in flight is gone.
Up ==
  /\ ~migrated
  /\ ledger' = [u \in User |-> Repaired(ledger[u])]
  /\ call' = [h \in Handler |-> Idle]
  /\ migrated' = TRUE
  /\ chained' = {u \in User : IsChain(ledger[u])}

RepairNext ==
  \/ LedgerNext /\ UNCHANGED <<migrated, chained>>
  \/ Up

RepairSpec == RepairInit /\ [][RepairNext]_vars

-----------------------------------------------------------------------------
(* Properties.                                                              *)

\* What the rows add up to, rounded up row by row: nextBalance of test().
NextBalance(rows) == SumOf(Recomputed(rows))

\* The migration takes no money from anybody and gives less than a cent a row.
\* A user whose rows formed a chain keeps the balance they showed; one who had
\* lost movements to overlapping postings and has a fractional amount gets what
\* the rows add up to, as the dry run test() reported it (lines 38-68).
RepairKeepsMoney ==
  [][migrated' # migrated =>
       \A u \in User :
         LET old == ledger[u]
             now == Units * Balance(ledger'[u])
         IN  /\ IsChain(old) \/ Fractional(old) =>
                  SumOf(old) <= now /\ now <= SumOf(old) + (Units - 1) * Len(old)
             /\ Fractional(old) => Balance(ledger'[u]) = NextBalance(old)
             /\ ~Fractional(old) => now = Balance(old)]_vars

\* The migration leaves a user with a fractional amount a chain, and breaks no
\* chain that was there, although it skips everybody else (lines 25-27, 51-53).
RepairChains ==
  [][migrated' # migrated =>
       \A u \in User :
         IsChain(ledger[u]) \/ Fractional(ledger[u]) => IsChain(ledger'[u])]_vars

\* Before, across and after the migration, every debit of a user whose rows
\* formed a chain when it ran was covered by a balance the user had: rounding
\* every amount up leaves no balance below zero that was not.
RepairFundedInv ==
  \A u \in chained : \A i \in 1..Len(ledger[u]) :
    \E j \in 0..(i-1) : BalanceAt(ledger[u], j) + ledger[u][i].amount >= 0

=============================================================================
