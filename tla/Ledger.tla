------------------------------- MODULE Ledger -------------------------------
(***************************************************************************)
(* The money ledger of the service: TransactionsService._createTransaction *)
(* and BalanceService.getUserBalance.  Every user owns a list of rows      *)
(* (table "transaction"), and the balance exists only as the last row:     *)
(* balanceBefore + amount.                                                 *)
(*                                                                         *)
(* The Node process is single threaded, but every `await` on a query lets  *)
(* other requests run.  One action below is one query together with the    *)
(* local code that runs up to the next query.  There is no database        *)
(* transaction and no lock around the four queries of a posting.           *)
(*                                                                         *)
(* Amounts of the table are integers (cents).  A Money value may be        *)
(* fractional: it is counted in units of 1/Scale cent.                     *)
(***************************************************************************)
EXTENDS Integers, Sequences

CONSTANTS
  User,       \* accounts that have a row in table "user"
  NoUser,     \* an id that no account has
  Handler,    \* requests the process may be serving at the same time
  Money,      \* amounts a caller may ask for, in 1/Scale cent
  Frozen,     \* sums of money that may be frozen by activations, in cents
  Scale,      \* units of Money in a cent
  Overlap,    \* TRUE: two postings of one user may be in flight together
  MaxRows     \* bound: no posting is started on a ledger this long

ASSUME LedgerAssumption ==
  /\ NoUser \notin User
  /\ Money \subseteq Int
  /\ Frozen \subseteq Nat
  /\ Scale \in Nat \ {0}
  /\ Overlap \in BOOLEAN
  /\ MaxRows \in Nat

VARIABLES
  ledger,     \* ledger[u]: the rows of user u, oldest first (by createdAt)
  call        \* call[h]: the posting request h is executing

ledgerVars == <<ledger, call>>

-----------------------------------------------------------------------------
TransactionType == {"Payment", "Bonus", "Buy"}

Row == [amount : Int, balanceBefore : Int, type : TransactionType]

\* A row read by the code is named by its position: rows never change.
\* Position 0 stands for "no row".
BalanceAt(rows, n) ==
  IF n = 0 THEN 0 ELSE rows[n].balanceBefore + rows[n].amount

Balance(rows) == BalanceAt(rows, Len(rows))

\* Money.toRoundLessAmount of a value in 1/Scale cent.
Floor(money) == money \div Scale

\* Money.toRoundMoreAmount of a value in 1/Scale cent.
Ceil(money) == -((-money) \div Scale)

-----------------------------------------------------------------------------
(* The state of one posting.  pc names the query it is waiting for.         *)
Pc == {"idle", "target", "last", "frozen", "base", "insert", "returned"}
Outcome == {"none", "Inserted", "NoMoney", "NoTarget"}

Call == [pc      : Pc,
         user    : User \cup {NoUser},
         amount  : Int,                 \* transactionMoney
         type    : TransactionType,
         seen    : Nat,                 \* the row the last query returned
         row     : Nat,                 \* the row inserted, 0 if none
         outcome : Outcome]

Idle == [pc |-> "idle", user |-> NoUser, amount |-> 0, type |-> "Buy",
         seen |-> 0, row |-> 0, outcome |-> "none"]

\* Mutant of Posting.
PostingWithoutType(u, amount, type, pc) ==
  [Idle EXCEPT !.pc = pc, !.user = u, !.amount = amount, !.type = "none"]

Posting(u, amount, type, pc) ==
  [Idle EXCEPT !.pc = pc, !.user = u, !.amount = amount, !.type = type]

Returning(c, outcome, row) ==
  [c EXCEPT !.pc = "returned", !.seen = 0, !.row = row, !.outcome = outcome]

LedgerInit ==
  /\ ledger = [u \in User |-> <<>>]
  /\ call = [h \in Handler |-> Idle]

-----------------------------------------------------------------------------
(* Starting a posting: local code up to the first query.                    *)

MayStart(h, u) ==
  /\ call[h].pc = "idle"
  /\ Overlap \/ \A g \in Handler : call[g].pc = "idle" \/ call[g].user # u

\* buy(): the price is inverted, then rounded against the buyer.
Buy(h, u, money) ==
  /\ MayStart(h, u)
  /\ call' = [call EXCEPT ![h] = Posting(u, Floor(-money), "Buy", "last")]
  /\ UNCHANGED ledger

\* pay(): rounded against the payer.
Pay(h, u, money) ==
  /\ MayStart(h, u)
  /\ call' = [call EXCEPT ![h] = Posting(u, Floor(money), "Payment", "last")]
  /\ UNCHANGED ledger

\* makeBonus(): an administrator's bonus; the amount may be negative.
MakeBonus(h, u, money) ==
  /\ MayStart(h, u)
  /\ call' = [call EXCEPT ![h] = Posting(u, Floor(money), "Bonus", "target")]
  /\ UNCHANGED ledger

-----------------------------------------------------------------------------
(* The queries of a posting.                                                *)

\* makeBonus: getUserById(targetUserId)
FindTarget(h) ==
  /\ call[h].pc = "target"
  /\ call' = [call EXCEPT ![h] =
                IF @.user \in User THEN [@ EXCEPT !.pc = "last"]
                                   ELSE Returning(@, "NoTarget", 0)]
  /\ UNCHANGED ledger

\* getUserBalance: the last row of the user
ReadLast(h) ==
  /\ call[h].pc = "last"
  /\ call' = [call EXCEPT ![h].pc = "frozen",
                          ![h].seen = Len(ledger[call[h].user])]
  /\ UNCHANGED ledger

\* getUserBalance: what the row read and the frozen sum leave available.
\* A user without rows has a balance of zero whatever is frozen.
Available(rows, n, frozen) == IF n = 0 THEN 0 ELSE BalanceAt(rows, n) - frozen

\* Mutants of Covered and NewRow.
BonusAlwaysCovered(c, frozen) ==
  \/ c.type = "Bonus"
  \/ Available(ledger[c.user], c.seen, frozen) + c.amount >= 0
NotEmptyIsCovered(c, frozen) ==
  Available(ledger[c.user], c.seen, frozen) >= 0
RowWithBalanceAfter(c) ==
  [amount |-> c.amount, type |-> c.type,
   balanceBefore |-> BalanceAt(ledger[c.user], c.seen) + c.amount]

Covered(c, frozen) ==
  Available(ledger[c.user], c.seen, frozen) + c.amount >= 0

\* getUserBalance: the frozen sum, then the check of the total
ReadFrozen(h, frozen) ==
  /\ call[h].pc = "frozen"
  /\ call' = [call EXCEPT ![h] =
                IF Covered(@, frozen) THEN [@ EXCEPT !.pc = "base"]
                                      ELSE Returning(@, "NoMoney", 0)]
  /\ UNCHANGED ledger

\* _createTransaction: the last row again, for balanceBefore
ReadBase(h) ==
  /\ call[h].pc = "base"
  /\ call' = [call EXCEPT ![h].pc = "insert",
                          ![h].seen = Len(ledger[call[h].user])]
  /\ UNCHANGED ledger

NewRow(c) ==
  [amount |-> c.amount, type |-> c.type,
   balanceBefore |-> BalanceAt(ledger[c.user], c.seen)]

\* transaction.save()
Insert(h) ==
  LET c == call[h] IN
  /\ c.pc = "insert"
  /\ ledger' = [ledger EXCEPT ![c.user] = Append(@, NewRow(c))]
  /\ call' = [call EXCEPT ![h] =
                Returning(c, "Inserted", Len(ledger[c.user]) + 1)]

\* A query rejects, or the process dies: the posting is gone.
Abort(h) ==
  /\ call[h].pc # "idle"
  /\ call' = [call EXCEPT ![h] = Idle]
  /\ UNCHANGED ledger

\* The caller takes the outcome.
Return(h) ==
  /\ call[h].pc = "returned"
  /\ call' = [call EXCEPT ![h] = Idle]
  /\ UNCHANGED ledger

\* One query of a running posting; `frozen` is what a frozen-sum query reads.
PostingStep(h, frozen) ==
  \/ ReadLast(h)
  \/ ReadFrozen(h, frozen)
  \/ ReadBase(h)
  \/ Insert(h)

Room(u) == Len(ledger[u]) < MaxRows

LedgerNext ==
  \E h \in Handler :
    \/ \E u \in User, m \in Money : m >= 0 /\ Room(u) /\ Buy(h, u, m)
    \/ \E u \in User, m \in Money : m >= 0 /\ Room(u) /\ Pay(h, u, m)
    \/ \E u \in User, m \in Money : Room(u) /\ MakeBonus(h, u, m)
    \/ \E m \in Money : MakeBonus(h, NoUser, m)
    \/ FindTarget(h)
    \/ \E f \in Frozen : PostingStep(h, f)
    \/ Abort(h)
    \/ Return(h)

LedgerSpec == LedgerInit /\ [][LedgerNext]_ledgerVars

-----------------------------------------------------------------------------
(* Properties.                                                              *)

\* Every row and every posting in flight is well formed.
LedgerTypeOK ==
  /\ ledger \in [User -> Seq(Row)]
  /\ call \in [Handler -> Call]

\* However postings interleave, balanceBefore of a row (line 151) is a balance
\* the user really had: the one some strictly earlier prefix of the rows left.
\* A posting may lose the rows that came in between, it never invents money.
SnapshotInv ==
  \A u \in User : \A i \in 1..Len(ledger[u]) :
    \E j \in 0..(i-1) :
      ledger[u][i].balanceBefore = BalanceAt(ledger[u], j)

\* However postings interleave, the money a row takes had been there: the check
\* of line 136 passed on the balance of some strictly earlier prefix.
FundedInv ==
  \A u \in User : \A i \in 1..Len(ledger[u]) :
    \E j \in 0..(i-1) :
      BalanceAt(ledger[u], j) + ledger[u][i].amount >= 0

\* The rows form a chain: each starts from the balance the previous one left,
\* as TransactionsService.test recomputes it (lines 203-209).
ChainInv ==
  \A u \in User : \A i \in 1..Len(ledger[u]) :
    ledger[u][i].balanceBefore = BalanceAt(ledger[u], i-1)

\* No user ever owes money.
SolventInv == \A u \in User : Balance(ledger[u]) >= 0

\* What the ledger looks like from outside: amounts and balances after them.
Statement ==
  [u \in User |->
     [i \in 1..Len(ledger[u]) |->
        [amount |-> ledger[u][i].amount, after |-> BalanceAt(ledger[u], i)]]]

\* With at most one posting of a user in flight the four queries act as one
\* atomic movement on a wallet that never goes below zero.
Amounts == {Floor(m) : m \in Money} \cup {Floor(-m) : m \in Money}
Abstract == INSTANCE Wallet WITH statement <- Statement, Amount <- Amounts
WalletSpec == Abstract!Spec

=============================================================================
