---------------------------- MODULE LedgerProofs ----------------------------
(***************************************************************************)
(* Theorems about Ledger, for all users, handlers, amounts and bounds.     *)
(***************************************************************************)
EXTENDS Ledger, TLAPS

-----------------------------------------------------------------------------
(* Operators.                                                               *)

\* Rounding yields whole cents.
LEMMA FloorType == ASSUME NEW m \in Int PROVE Floor(m) \in Int
  BY LedgerAssumption DEF Floor

\* The balance after any prefix of the rows is an integer.
LEMMA BalanceAtType ==
  ASSUME NEW rows \in Seq(Row), NEW n \in 0..Len(rows)
  PROVE  BalanceAt(rows, n) \in Int
<1>1. CASE n = 0
  BY <1>1 DEF BalanceAt
<1>2. CASE n # 0
  <2>1. rows[n] \in Row
    BY <1>2
  <2> QED BY <1>2, <2>1 DEF BalanceAt, Row
<1> QED BY <1>1, <1>2

\* A new row changes no earlier balance.
LEMMA BalanceAtAppend ==
  ASSUME NEW rows \in Seq(Row), NEW r \in Row, NEW n \in 0..Len(rows)
  PROVE  BalanceAt(Append(rows, r), n) = BalanceAt(rows, n)
<1>1. CASE n = 0
  BY <1>1 DEF BalanceAt
<1>2. CASE n # 0
  <2>1. Append(rows, r)[n] = rows[n]
    BY <1>2
  <2> QED BY <1>2, <2>1 DEF BalanceAt
<1> QED BY <1>1, <1>2

\* The balance after the new row.
LEMMA BalanceOfAppend ==
  ASSUME NEW rows \in Seq(Row), NEW r \in Row
  PROVE  /\ Len(Append(rows, r)) = Len(rows) + 1
         /\ Append(rows, r)[Len(rows) + 1] = r
         /\ BalanceAt(Append(rows, r), Len(rows) + 1)
              = r.balanceBefore + r.amount
<1>1. Len(Append(rows, r)) = Len(rows) + 1 /\ Len(rows) + 1 # 0
  OBVIOUS
<1>2. Append(rows, r)[Len(rows) + 1] = r
  OBVIOUS
<1> QED BY <1>1, <1>2 DEF BalanceAt

-----------------------------------------------------------------------------
(* What a posting in flight knows about the ledger.                         *)

\* The user of a posting that passed FindTarget exists, and the row its last
\* query returned is a row of the ledger or none.
ReadInv ==
  \A h \in Handler :
    LET c == call[h] IN
    /\ c.pc \in {"last", "frozen", "base", "insert"} => c.user \in User
    /\ c.pc \in {"frozen", "insert"} => c.seen \in 0..Len(ledger[c.user])

\* Past the check, the amount was covered by the balance of some prefix.
CheckedInv ==
  \A h \in Handler :
    LET c == call[h] IN
    c.pc \in {"base", "insert"} =>
      \E j \in 0..Len(ledger[c.user]) :
        BalanceAt(ledger[c.user], j) + c.amount >= 0

PostingInv == LedgerTypeOK /\ ReadInv /\ CheckedInv

\* The inductive invariant of the ledger under any interleaving.
LedgerInv == PostingInv /\ SnapshotInv /\ FundedInv

-----------------------------------------------------------------------------
(* Type correctness.                                                        *)

LEMMA TypeInit == LedgerInit => PostingInv
  BY LedgerAssumption
  DEF LedgerInit, PostingInv, LedgerTypeOK, ReadInv, CheckedInv, Call, Idle,
      Pc, Outcome, TransactionType

\* Every way to start a posting puts a well-formed posting in flight.
LEMMA PostingType ==
  ASSUME NEW u \in User \cup {NoUser}, NEW a \in Int,
         NEW t \in TransactionType, NEW p \in Pc
  PROVE  Posting(u, a, t, p) \in Call
  BY DEF Posting, Idle, Call, Outcome

LEMMA ReturningType ==
  ASSUME NEW c \in Call, NEW o \in Outcome, NEW n \in Nat
  PROVE  /\ Returning(c, o, n) \in Call
         /\ Returning(c, o, n).pc = "returned"
  BY DEF Returning, Call, Pc

LEMMA IdleType == Idle \in Call
  BY DEF Idle, Call, Pc, Outcome, TransactionType

\* Only Insert writes the ledger: for every other action it is enough that the
\* posting it leaves satisfies its own part of the invariant.
LEMMA CallOnlyStep ==
  ASSUME PostingInv, UNCHANGED ledger,
         NEW h \in Handler, NEW c \in Call,
         call' = [call EXCEPT ![h] = c],
         c.pc \in {"last", "frozen", "base", "insert"} => c.user \in User,
         c.pc \in {"frozen", "insert"} => c.seen \in 0..Len(ledger[c.user]),
         c.pc \in {"base", "insert"} =>
           \E j \in 0..Len(ledger[c.user]) :
             BalanceAt(ledger[c.user], j) + c.amount >= 0
  PROVE  PostingInv'
<1>1. LedgerTypeOK'
  BY DEF PostingInv, LedgerTypeOK
<1>2. \A g \in Handler : call'[g] = IF g = h THEN c ELSE call[g]
  BY DEF PostingInv, LedgerTypeOK
<1>3. ReadInv'
  BY <1>2 DEF PostingInv, ReadInv
<1>4. CheckedInv'
  BY <1>2 DEF PostingInv, CheckedInv
<1> QED BY <1>1, <1>3, <1>4 DEF PostingInv

\* What Insert writes, and where.
LEMMA InsertType ==
  ASSUME LedgerTypeOK, ReadInv, NEW h \in Handler, Insert(h)
  PROVE  LET u == call[h].user
             r == NewRow(call[h])
             n == Len(ledger[u])
         IN  /\ u \in User
             /\ call[h] \in Call
             /\ ledger[u] \in Seq(Row)
             /\ call[h].seen \in 0..n
             /\ r \in Row
             /\ r.amount = call[h].amount
             /\ r.balanceBefore = BalanceAt(ledger[u], call[h].seen)
             /\ ledger' = [ledger EXCEPT ![u] = Append(ledger[u], r)]
             /\ call' = [call EXCEPT ![h] =
                           Returning(call[h], "Inserted", n + 1)]
<1> DEFINE u == call[h].user
           r == NewRow(call[h])
<1>1. u \in User /\ call[h] \in Call /\ ledger[u] \in Seq(Row)
  BY DEF LedgerTypeOK, ReadInv, Insert
<1>2. call[h].seen \in 0..Len(ledger[u])
  BY DEF ReadInv, Insert
<1>3. BalanceAt(ledger[u], call[h].seen) \in Int
  BY <1>1, <1>2, BalanceAtType
<1>4. r \in Row /\ r.amount = call[h].amount
      /\ r.balanceBefore = BalanceAt(ledger[u], call[h].seen)
  BY <1>1, <1>3 DEF NewRow, Row, Call
<1>5. /\ ledger' = [ledger EXCEPT ![u] = Append(ledger[u], r)]
      /\ call' = [call EXCEPT ![h] =
                    Returning(call[h], "Inserted", Len(ledger[u]) + 1)]
  BY DEF Insert
<1> QED BY <1>1, <1>2, <1>4, <1>5

\* A row Insert writes is well formed, and every row a query has returned stays
\* where it was.
LEMMA InsertReads ==
  ASSUME LedgerTypeOK, ReadInv, NEW h \in Handler, Insert(h)
  PROVE  /\ LedgerTypeOK' /\ ReadInv'
         /\ \A g \in Handler :
              call'[g] = IF g = h THEN Returning(call[h], "Inserted",
                                                 Len(ledger[call[h].user]) + 1)
                                  ELSE call[g]
         /\ \A v \in User : \A j \in 0..Len(ledger[v]) :
              /\ j \in 0..Len(ledger'[v])
              /\ BalanceAt(ledger'[v], j) = BalanceAt(ledger[v], j)
<1> DEFINE u == call[h].user
           r == NewRow(call[h])
           n == Len(ledger[u])
           c == Returning(call[h], "Inserted", n + 1)
<1>1. /\ u \in User /\ call[h] \in Call /\ ledger[u] \in Seq(Row) /\ r \in Row
      /\ ledger' = [ledger EXCEPT ![u] = Append(ledger[u], r)]
      /\ call' = [call EXCEPT ![h] = c]
  BY InsertType
<1>2. n \in Nat /\ Append(ledger[u], r) \in Seq(Row)
      /\ Len(Append(ledger[u], r)) = n + 1
  BY <1>1
<1>3. c \in Call /\ c.pc = "returned"
  <2>1. "Inserted" \in Outcome /\ n + 1 \in Nat
    BY <1>2 DEF Outcome
  <2> HIDE DEF n
  <2> QED BY <1>1, <2>1, ReturningType
<1>4. LedgerTypeOK'
  BY <1>1, <1>2, <1>3 DEF LedgerTypeOK
<1>5. \A g \in Handler : call'[g] = IF g = h THEN c ELSE call[g]
  BY <1>1 DEF LedgerTypeOK
<1>6. \A v \in User :
        /\ ledger[v] \in Seq(Row) /\ Len(ledger[v]) \in Nat
        /\ ledger'[v] = IF v = u THEN Append(ledger[u], r) ELSE ledger[v]
  BY <1>1 DEF LedgerTypeOK
<1>7. \A v \in User : \A j \in 0..Len(ledger[v]) :
        /\ j \in 0..Len(ledger'[v])
        /\ BalanceAt(ledger'[v], j) = BalanceAt(ledger[v], j)
  BY <1>1, <1>2, <1>6, BalanceAtAppend
<1>8. ReadInv'
  BY <1>3, <1>5, <1>7 DEF ReadInv
<1> QED BY <1>4, <1>5, <1>7, <1>8

\* Insert keeps what the postings in flight have checked.
LEMMA InsertStep ==
  ASSUME PostingInv, NEW h \in Handler, Insert(h)
  PROVE  PostingInv'
<1> DEFINE c == Returning(call[h], "Inserted", Len(ledger[call[h].user]) + 1)
<1>1. /\ LedgerTypeOK' /\ ReadInv'
      /\ \A g \in Handler : call'[g] = IF g = h THEN c ELSE call[g]
      /\ \A v \in User : \A j \in 0..Len(ledger[v]) :
           /\ j \in 0..Len(ledger'[v])
           /\ BalanceAt(ledger'[v], j) = BalanceAt(ledger[v], j)
  BY InsertReads DEF PostingInv
<1>2. c.pc = "returned"
  BY DEF Returning, PostingInv, LedgerTypeOK, Call
<1> HIDE DEF c
<1>3. CheckedInv'
  <2> SUFFICES ASSUME NEW g \in Handler,
                      call'[g].pc \in {"base", "insert"}
               PROVE  \E j \in 0..Len(ledger'[call'[g].user]) :
                        BalanceAt(ledger'[call'[g].user], j)
                          + call'[g].amount >= 0
    BY DEF CheckedInv
  <2>1. g # h /\ call'[g] = call[g]
    BY <1>1, <1>2
  <2>2. call[g].user \in User
    BY <2>1 DEF PostingInv, ReadInv
  <2>3. PICK j \in 0..Len(ledger[call[g].user]) :
          BalanceAt(ledger[call[g].user], j) + call[g].amount >= 0
    BY <2>1 DEF PostingInv, CheckedInv
  <2> QED BY <1>1, <2>1, <2>2, <2>3
<1> QED BY <1>1, <1>3 DEF PostingInv

LEMMA PostingNext ==
  ASSUME PostingInv, [LedgerNext]_ledgerVars
  PROVE  PostingInv'
<1> USE LedgerAssumption
<1>1. CASE UNCHANGED ledgerVars
  BY <1>1 DEF ledgerVars, PostingInv, LedgerTypeOK, ReadInv, CheckedInv
<1>2. ASSUME NEW h \in Handler, NEW u \in User \cup {NoUser}, NEW m \in Money,
             \/ u \in User /\ Buy(h, u, m)
             \/ u \in User /\ Pay(h, u, m)
             \/ MakeBonus(h, u, m)
      PROVE  PostingInv'
  <2>1. m \in Int /\ -m \in Int /\ Floor(m) \in Int /\ Floor(-m) \in Int
    BY FloorType
  <2>2. CASE u \in User /\ Buy(h, u, m)
    <3> DEFINE c == Posting(u, Floor(-m), "Buy", "last")
    <3>1. c \in Call
      BY <2>1, PostingType DEF Pc, TransactionType
    <3>2. c.pc = "last" /\ c.user = u
      BY DEF Posting, Idle
    <3> QED BY <3>1, <3>2, <2>2, CallOnlyStep DEF Buy
  <2>3. CASE u \in User /\ Pay(h, u, m)
    <3> DEFINE c == Posting(u, Floor(m), "Payment", "last")
    <3>1. c \in Call
      BY <2>1, PostingType DEF Pc, TransactionType
    <3>2. c.pc = "last" /\ c.user = u
      BY DEF Posting, Idle
    <3> QED BY <3>1, <3>2, <2>3, CallOnlyStep DEF Pay
  <2>4. CASE MakeBonus(h, u, m)
    <3> DEFINE c == Posting(u, Floor(m), "Bonus", "target")
    <3>1. c \in Call
      BY <2>1, PostingType DEF Pc, TransactionType
    <3>2. c.pc = "target"
      BY DEF Posting, Idle
    <3> QED BY <3>1, <3>2, <2>4, CallOnlyStep DEF MakeBonus
  <2> QED BY <1>2, <2>2, <2>3, <2>4
<1>3. ASSUME NEW h \in Handler, FindTarget(h) PROVE PostingInv'
  <2> DEFINE c == IF call[h].user \in User
                    THEN [call[h] EXCEPT !.pc = "last"]
                    ELSE Returning(call[h], "NoTarget", 0)
  <2>1. call[h] \in Call
    BY DEF PostingInv, LedgerTypeOK
  <2>2. call' = [call EXCEPT ![h] = c] /\ UNCHANGED ledger
    BY <1>3 DEF FindTarget
  <2>3. CASE call[h].user \in User
    BY <2>1, <2>2, <2>3, CallOnlyStep DEF Call, Pc
  <2>4. CASE call[h].user \notin User
    <3>1. c \in Call /\ c.pc = "returned"
      BY <2>1, <2>4, ReturningType DEF Outcome
    <3> QED BY <3>1, <2>2, CallOnlyStep
  <2> QED BY <2>3, <2>4
<1>4. ASSUME NEW h \in Handler, ReadLast(h) PROVE PostingInv'
  <2> DEFINE c == [call[h] EXCEPT !.pc = "frozen",
                                  !.seen = Len(ledger[call[h].user])]
  <2>1. call[h] \in Call /\ call[h].user \in User
        /\ Len(ledger[call[h].user]) \in Nat
    BY <1>4 DEF PostingInv, LedgerTypeOK, ReadInv, ReadLast
  <2>2. call' = [call EXCEPT ![h] = c] /\ UNCHANGED ledger
    BY <1>4 DEF ReadLast
  <2>3. /\ c \in Call /\ c.pc = "frozen"
        /\ c.user = call[h].user /\ c.seen = Len(ledger[call[h].user])
    BY <2>1 DEF Call, Pc
  <2> HIDE DEF c
  <2>4. c.seen \in 0..Len(ledger[c.user])
    BY <2>1, <2>3
  <2> QED BY <2>1, <2>2, <2>3, <2>4, CallOnlyStep
<1>5. ASSUME NEW h \in Handler, NEW f \in Frozen, ReadFrozen(h, f)
      PROVE  PostingInv'
  <2> DEFINE c == IF Covered(call[h], f)
                    THEN [call[h] EXCEPT !.pc = "base"]
                    ELSE Returning(call[h], "NoMoney", 0)
  <2>1. call[h] \in Call /\ call[h].user \in User
        /\ ledger[call[h].user] \in Seq(Row)
        /\ call[h].seen \in 0..Len(ledger[call[h].user])
    BY <1>5 DEF PostingInv, LedgerTypeOK, ReadInv, ReadFrozen
  <2>2. call' = [call EXCEPT ![h] = c] /\ UNCHANGED ledger
    BY <1>5 DEF ReadFrozen
  <2>3. CASE Covered(call[h], f)
    <3>1. BalanceAt(ledger[call[h].user], call[h].seen) \in Int
          /\ call[h].amount \in Int /\ f \in Nat
      BY <2>1, BalanceAtType DEF Call
    <3>2. BalanceAt(ledger[call[h].user], call[h].seen)
            + call[h].amount >= 0
      BY <2>3, <3>1 DEF Covered, Available, BalanceAt
    <3>3. c \in Call /\ c.pc = "base" /\ c.user = call[h].user
          /\ c.amount = call[h].amount
      BY <2>1, <2>3 DEF Call, Pc
    <3> QED BY <2>1, <2>2, <3>2, <3>3, CallOnlyStep
  <2>4. CASE ~ Covered(call[h], f)
    <3>1. c \in Call /\ c.pc = "returned"
      BY <2>1, <2>4, ReturningType DEF Outcome
    <3> QED BY <3>1, <2>2, CallOnlyStep
  <2> QED BY <2>3, <2>4
<1>6. ASSUME NEW h \in Handler, ReadBase(h) PROVE PostingInv'
  <2> DEFINE c == [call[h] EXCEPT !.pc = "insert",
                                  !.seen = Len(ledger[call[h].user])]
  <2>1. call[h] \in Call /\ call[h].user \in User
        /\ Len(ledger[call[h].user]) \in Nat
    BY <1>6 DEF PostingInv, LedgerTypeOK, ReadInv, ReadBase
  <2>2. call' = [call EXCEPT ![h] = c] /\ UNCHANGED ledger
    BY <1>6 DEF ReadBase
  <2>3. /\ c \in Call /\ c.pc = "insert" /\ c.amount = call[h].amount
        /\ c.user = call[h].user /\ c.seen = Len(ledger[call[h].user])
    BY <2>1 DEF Call, Pc
  <2> HIDE DEF c
  <2>4. c.seen \in 0..Len(ledger[c.user])
    BY <2>1, <2>3
  <2>5. \E j \in 0..Len(ledger[c.user]) :
          BalanceAt(ledger[c.user], j) + c.amount >= 0
    BY <1>6, <2>3 DEF PostingInv, CheckedInv, ReadBase
  <2> QED BY <2>1, <2>2, <2>3, <2>4, <2>5, CallOnlyStep
<1>7. ASSUME NEW h \in Handler, Insert(h) PROVE PostingInv'
  BY <1>7, InsertStep
<1>8. ASSUME NEW h \in Handler, Abort(h) \/ Return(h) PROVE PostingInv'
  <2>1. Idle.pc = "idle"
    BY DEF Idle
  <2> QED BY <1>8, <2>1, IdleType, CallOnlyStep DEF Abort, Return
<1> QED
  BY <1>1, <1>2, <1>3, <1>4, <1>5, <1>6, <1>7, <1>8
  DEF LedgerNext, PostingStep

\* Every row is a well-formed integer row and every posting in flight is in a
\* state of _createTransaction, whatever the constants are.
THEOREM LedgerTypeCorrect == LedgerSpec => []LedgerTypeOK
<1>1. LedgerInit => PostingInv
  BY TypeInit
<1>2. PostingInv /\ [LedgerNext]_ledgerVars => PostingInv'
  BY PostingNext
<1>3. PostingInv => LedgerTypeOK
  BY DEF PostingInv
<1> QED BY <1>1, <1>2, <1>3, PTL DEF LedgerSpec

-----------------------------------------------------------------------------
(* Safety under any interleaving.                                           *)

\* Any action but Insert leaves the ledger alone.
LEMMA OnlyInsertWrites ==
  ASSUME [LedgerNext]_ledgerVars, ~ \E h \in Handler : Insert(h)
  PROVE  UNCHANGED ledger
  BY DEF LedgerNext, ledgerVars, PostingStep, Buy, Pay, MakeBonus, FindTarget,
         ReadLast, ReadFrozen, ReadBase, Abort, Return

\* What Insert does to the rows and balances of every user.
LEMMA InsertRows ==
  ASSUME LedgerTypeOK, ReadInv, NEW h \in Handler, Insert(h)
  PROVE  LET u == call[h].user
             n == Len(ledger[u])
         IN  /\ u \in User /\ n \in Nat
             /\ \A v \in User \ {u} : ledger'[v] = ledger[v]
             /\ Len(ledger'[u]) = n + 1
             /\ \A i \in 1..n : ledger'[u][i] = ledger[u][i]
             /\ \A j \in 0..n : BalanceAt(ledger'[u], j) = BalanceAt(ledger[u], j)
             /\ ledger'[u][n + 1].amount = call[h].amount
             /\ ledger'[u][n + 1].balanceBefore
                  = BalanceAt(ledger[u], call[h].seen)
             /\ BalanceAt(ledger'[u], n + 1)
                  = BalanceAt(ledger[u], call[h].seen) + call[h].amount
<1> DEFINE u == call[h].user
           r == NewRow(call[h])
           n == Len(ledger[u])
<1>1. /\ u \in User /\ ledger[u] \in Seq(Row) /\ r \in Row
      /\ r.amount = call[h].amount
      /\ r.balanceBefore = BalanceAt(ledger[u], call[h].seen)
      /\ ledger' = [ledger EXCEPT ![u] = Append(ledger[u], r)]
  BY InsertType
<1>2. ledger'[u] = Append(ledger[u], r)
      /\ \A v \in User \ {u} : ledger'[v] = ledger[v]
  BY <1>1 DEF LedgerTypeOK
<1>3. n \in Nat /\ \A i \in 1..n : Append(ledger[u], r)[i] = ledger[u][i]
  BY <1>1
<1>4. \A j \in 0..n : BalanceAt(Append(ledger[u], r), j) = BalanceAt(ledger[u], j)
  BY <1>1, BalanceAtAppend
<1>5. /\ Len(Append(ledger[u], r)) = n + 1
      /\ Append(ledger[u], r)[n + 1] = r
      /\ BalanceAt(Append(ledger[u], r), n + 1) = r.balanceBefore + r.amount
  BY <1>1, BalanceOfAppend
<1> QED BY <1>1, <1>2, <1>3, <1>4, <1>5

LEMMA HistoryInsert ==
  ASSUME LedgerInv, NEW h \in Handler, Insert(h)
  PROVE  SnapshotInv' /\ FundedInv'
<1> DEFINE u == call[h].user
           n == Len(ledger[u])
<1>1. PostingInv
  BY DEF LedgerInv
<1>2. /\ u \in User /\ n \in Nat
      /\ \A v \in User \ {u} : ledger'[v] = ledger[v]
      /\ Len(ledger'[u]) = n + 1
      /\ \A i \in 1..n : ledger'[u][i] = ledger[u][i]
      /\ \A j \in 0..n : BalanceAt(ledger'[u], j) = BalanceAt(ledger[u], j)
      /\ ledger'[u][n + 1].amount = call[h].amount
      /\ ledger'[u][n + 1].balanceBefore = BalanceAt(ledger[u], call[h].seen)
  BY <1>1, InsertRows DEF PostingInv
<1>3. call[h].seen \in 0..n
  BY <1>1 DEF PostingInv, ReadInv, Insert
<1>4. PICK k \in 0..n : BalanceAt(ledger[u], k) + call[h].amount >= 0
  BY <1>1 DEF PostingInv, CheckedInv, Insert
<1> HIDE DEF u, n
<1>5. SnapshotInv'
  <2> SUFFICES ASSUME NEW v \in User, NEW i \in 1..Len(ledger'[v])
               PROVE  \E j \in 0..(i-1) :
                        ledger'[v][i].balanceBefore = BalanceAt(ledger'[v], j)
    BY DEF SnapshotInv
  <2>1. CASE v # u
    BY <1>2, <2>1 DEF LedgerInv, SnapshotInv
  <2>2. CASE v = u /\ i \in 1..n
    <3>1. PICK j \in 0..(i-1) :
            ledger[u][i].balanceBefore = BalanceAt(ledger[u], j)
      BY <1>2, <2>2 DEF LedgerInv, SnapshotInv, n
    <3> QED BY <1>2, <2>2, <3>1
  <2>3. CASE v = u /\ i = n + 1
    BY <1>2, <1>3, <2>3
  <2> QED BY <1>2, <2>1, <2>2, <2>3
<1>6. FundedInv'
  <2> SUFFICES ASSUME NEW v \in User, NEW i \in 1..Len(ledger'[v])
               PROVE  \E j \in 0..(i-1) :
                        BalanceAt(ledger'[v], j) + ledger'[v][i].amount >= 0
    BY DEF FundedInv
  <2>1. CASE v # u
    BY <1>2, <2>1 DEF LedgerInv, FundedInv
  <2>2. CASE v = u /\ i \in 1..n
    <3>1. PICK j \in 0..(i-1) :
            BalanceAt(ledger[u], j) + ledger[u][i].amount >= 0
      BY <1>2, <2>2 DEF LedgerInv, FundedInv, n
    <3> QED BY <1>2, <2>2, <3>1
  <2>3. CASE v = u /\ i = n + 1
    BY <1>2, <1>4, <2>3
  <2> QED BY <1>2, <2>1, <2>2, <2>3
<1> QED BY <1>5, <1>6

\* The inductive invariant holds in every state of every behaviour.
LEMMA LedgerInvAlways == LedgerSpec => []LedgerInv
<1>1. LedgerInit => LedgerInv
  <2> SUFFICES ASSUME LedgerInit PROVE LedgerInv
    OBVIOUS
  <2>1. \A u \in User : Len(ledger[u]) = 0
    BY DEF LedgerInit
  <2> QED BY <2>1, TypeInit DEF LedgerInv, SnapshotInv, FundedInv
<1>2. LedgerInv /\ [LedgerNext]_ledgerVars => LedgerInv'
  <2> SUFFICES ASSUME LedgerInv, [LedgerNext]_ledgerVars PROVE LedgerInv'
    OBVIOUS
  <2>1. PostingInv'
    BY PostingNext DEF LedgerInv
  <2>2. CASE \E h \in Handler : Insert(h)
    BY <2>1, <2>2, HistoryInsert DEF LedgerInv
  <2>3. CASE ~ \E h \in Handler : Insert(h)
    <3>1. UNCHANGED ledger
      BY <2>3, OnlyInsertWrites
    <3> QED BY <2>1, <3>1 DEF LedgerInv, SnapshotInv, FundedInv
  <2> QED BY <2>2, <2>3
<1> QED BY <1>1, <1>2, PTL DEF LedgerSpec

\* Whatever interleaving the event loop produces, and whatever postings abort,
\* the balance a row starts from is one the user really had.
THEOREM LedgerSnapshots == LedgerSpec => []SnapshotInv
<1>1. LedgerInv => SnapshotInv
  BY DEF LedgerInv
<1> QED BY <1>1, LedgerInvAlways, PTL

\* Likewise, the money a row takes was covered by a balance the user really had:
\* an overdraft needs two postings that read the same balance.
THEOREM LedgerFunded == LedgerSpec => []FundedInv
<1>1. LedgerInv => FundedInv
  BY DEF LedgerInv
<1> QED BY <1>1, LedgerInvAlways, PTL

-----------------------------------------------------------------------------
(* One posting of a user at a time.                                         *)

\* No two postings in flight are of one user.
ExclusiveInv ==
  \A g, h \in Handler :
    g # h /\ call[g].pc # "idle" /\ call[h].pc # "idle"
      => call[g].user # call[h].user

\* What a posting read is still true.
FreshInv ==
  \A h \in Handler :
    LET c == call[h] IN
    /\ c.pc # "idle" => c.amount \in Amounts
    /\ c.pc \in {"frozen", "insert"} => c.seen = Len(ledger[c.user])
    /\ c.pc \in {"base", "insert"} => Balance(ledger[c.user]) + c.amount >= 0

SerialInv == PostingInv /\ ExclusiveInv /\ FreshInv /\ ChainInv /\ SolventInv

\* An action that leaves the ledger alone keeps SerialInv if the posting it
\* leaves for h is idle, or is fresh and of a user no other posting has.
LEMMA SerialCallOnly ==
  ASSUME SerialInv, PostingInv', UNCHANGED ledger,
         NEW h \in Handler, NEW c,
         call' = [call EXCEPT ![h] = c],
         \/ c.pc = "idle"
         \/ /\ c.amount \in Amounts
            /\ c.pc \in {"frozen", "insert"} => c.seen = Len(ledger[c.user])
            /\ c.pc \in {"base", "insert"} =>
                 Balance(ledger[c.user]) + c.amount >= 0
            /\ \A g \in Handler \ {h} :
                 call[g].pc = "idle" \/ call[g].user # c.user
  PROVE  SerialInv'
<1>1. \A g \in Handler : call'[g] = IF g = h THEN c ELSE call[g]
  BY DEF SerialInv, PostingInv, LedgerTypeOK
<1>2. ExclusiveInv'
  BY <1>1 DEF SerialInv, ExclusiveInv
<1>3. FreshInv'
  BY <1>1 DEF SerialInv, FreshInv
<1>4. ChainInv' /\ SolventInv'
  BY DEF SerialInv, ChainInv, SolventInv
<1> QED BY <1>2, <1>3, <1>4 DEF SerialInv

\* The same for an action that moves a posting on and keeps its amount.
LEMMA SerialMove ==
  ASSUME SerialInv, PostingInv', UNCHANGED ledger,
         NEW h \in Handler, NEW c, call[h].pc # "idle",
         call' = [call EXCEPT ![h] = c],
         c.user = call[h].user, c.amount = call[h].amount,
         c.pc \in {"frozen", "insert"} => c.seen = Len(ledger[c.user]),
         c.pc \in {"base", "insert"} =>
           Balance(ledger[c.user]) + c.amount >= 0
  PROVE  SerialInv'
<1>1. c.amount \in Amounts
  BY DEF SerialInv, FreshInv
<1>2. \A g \in Handler \ {h} : call[g].pc = "idle" \/ call[g].user # c.user
  BY DEF SerialInv, ExclusiveInv
<1> QED BY <1>1, <1>2, SerialCallOnly

\* The row Insert writes continues the chain and keeps the user solvent.
LEMMA SerialInsert ==
  ASSUME SerialInv, PostingInv', NEW h \in Handler, Insert(h)
  PROVE  SerialInv'
<1> DEFINE u == call[h].user
           n == Len(ledger[u])
           c == Returning(call[h], "Inserted", n + 1)
<1>1. PostingInv
  BY DEF SerialInv
<1>2. /\ u \in User /\ n \in Nat
      /\ \A v \in User \ {u} : ledger'[v] = ledger[v]
      /\ Len(ledger'[u]) = n + 1
      /\ \A i \in 1..n : ledger'[u][i] = ledger[u][i]
      /\ \A j \in 0..n : BalanceAt(ledger'[u], j) = BalanceAt(ledger[u], j)
      /\ ledger'[u][n + 1].balanceBefore = BalanceAt(ledger[u], call[h].seen)
      /\ BalanceAt(ledger'[u], n + 1)
           = BalanceAt(ledger[u], call[h].seen) + call[h].amount
  BY <1>1, InsertRows DEF PostingInv
<1>3. call[h].seen = n /\ BalanceAt(ledger[u], n) + call[h].amount >= 0
  BY DEF SerialInv, FreshInv, Insert, Balance
<1>4. \A g \in Handler : call'[g] = IF g = h THEN c ELSE call[g]
  BY <1>1, InsertType DEF PostingInv, LedgerTypeOK
<1>5. c.pc = "returned" /\ c.user = u /\ c.amount = call[h].amount
  BY <1>1 DEF Returning, PostingInv, LedgerTypeOK, Call
<1>6. call[h].pc = "insert"
  BY DEF Insert
<1> HIDE DEF u, n, c
<1>7. ExclusiveInv'
  BY <1>4, <1>5, <1>6 DEF SerialInv, ExclusiveInv, u
<1>8. FreshInv'
  <2> SUFFICES ASSUME NEW g \in Handler, call'[g].pc # "idle"
               PROVE  LET d == call'[g] IN
                      /\ d.amount \in Amounts
                      /\ d.pc \in {"frozen", "insert"}
                           => d.seen = Len(ledger'[d.user])
                      /\ d.pc \in {"base", "insert"}
                           => Balance(ledger'[d.user]) + d.amount >= 0
    BY DEF FreshInv
  <2>1. CASE g = h
    BY <1>4, <1>5, <1>6, <2>1 DEF SerialInv, FreshInv
  <2>2. CASE g # h
    <3>1. call'[g] = call[g] /\ call[g].user # u
      BY <1>4, <1>6, <2>2 DEF SerialInv, ExclusiveInv, u
    <3>2. call[g].pc \in {"frozen", "insert", "base"}
            => ledger'[call[g].user] = ledger[call[g].user]
      BY <1>1, <1>2, <3>1 DEF PostingInv, ReadInv
    <3> QED BY <3>1, <3>2 DEF SerialInv, FreshInv
  <2> QED BY <2>1, <2>2
<1>9. ChainInv'
  <2> SUFFICES ASSUME NEW v \in User, NEW i \in 1..Len(ledger'[v])
               PROVE  ledger'[v][i].balanceBefore = BalanceAt(ledger'[v], i-1)
    BY DEF ChainInv
  <2>1. CASE v # u
    BY <1>2, <2>1 DEF SerialInv, ChainInv
  <2>2. CASE v = u /\ i \in 1..n
    <3>1. ledger[u][i].balanceBefore = BalanceAt(ledger[u], i-1)
      BY <1>2, <2>2 DEF SerialInv, ChainInv, n
    <3>2. i-1 \in 0..n
      BY <1>2, <2>2
    <3> QED BY <1>2, <2>2, <3>1, <3>2
  <2>3. CASE v = u /\ i = n + 1
    BY <1>2, <1>3, <2>3
  <2> QED BY <1>2, <2>1, <2>2, <2>3
<1>10. SolventInv'
  BY <1>2, <1>3 DEF SerialInv, SolventInv, Balance
<1> QED BY <1>7, <1>8, <1>9, <1>10 DEF SerialInv

LEMMA SerialNext ==
  ASSUME ~Overlap, SerialInv, [LedgerNext]_ledgerVars
  PROVE  SerialInv'
<1> USE LedgerAssumption
<1>0. PostingInv /\ PostingInv'
  BY PostingNext DEF SerialInv
<1>1. CASE UNCHANGED ledgerVars
  BY <1>0, <1>1
  DEF ledgerVars, SerialInv, ExclusiveInv, FreshInv, ChainInv, SolventInv
<1>2. ASSUME NEW h \in Handler, NEW u \in User \cup {NoUser}, NEW m \in Money,
             Buy(h, u, m) \/ Pay(h, u, m) \/ MakeBonus(h, u, m)
      PROVE  SerialInv'
  <2>1. Floor(m) \in Amounts /\ Floor(-m) \in Amounts
    BY DEF Amounts
  <2>2. \A g \in Handler \ {h} : call[g].pc = "idle" \/ call[g].user # u
    BY <1>2 DEF Buy, Pay, MakeBonus, MayStart
  <2>3. PICK a \in Amounts, t \in TransactionType, p \in {"last", "target"} :
          /\ call' = [call EXCEPT ![h] = Posting(u, a, t, p)]
          /\ UNCHANGED ledger
    BY <1>2, <2>1 DEF Buy, Pay, MakeBonus, TransactionType
  <2>4. LET c == Posting(u, a, t, p) IN
        c.pc = p /\ c.user = u /\ c.amount = a
    BY DEF Posting, Idle
  <2> QED BY <1>0, <2>2, <2>3, <2>4, SerialCallOnly
<1>3. ASSUME NEW h \in Handler, FindTarget(h) PROVE SerialInv'
  <2> DEFINE c == IF call[h].user \in User
                    THEN [call[h] EXCEPT !.pc = "last"]
                    ELSE Returning(call[h], "NoTarget", 0)
  <2>1. call[h] \in Call
    BY <1>0 DEF PostingInv, LedgerTypeOK
  <2>2. /\ c.user = call[h].user /\ c.amount = call[h].amount
        /\ c.pc \in {"last", "returned"}
    BY <2>1 DEF Call, Returning
  <2> QED BY <1>0, <1>3, <2>2, SerialMove DEF FindTarget
<1>4. ASSUME NEW h \in Handler, ReadLast(h) PROVE SerialInv'
  <2> DEFINE c == [call[h] EXCEPT !.pc = "frozen",
                                  !.seen = Len(ledger[call[h].user])]
  <2>1. call[h] \in Call
    BY <1>0 DEF PostingInv, LedgerTypeOK
  <2>2. /\ c.user = call[h].user /\ c.amount = call[h].amount
        /\ c.pc = "frozen" /\ c.seen = Len(ledger[call[h].user])
    BY <2>1 DEF Call
  <2>3. call' = [call EXCEPT ![h] = c] /\ UNCHANGED ledger
        /\ call[h].pc # "idle"
    BY <1>4 DEF ReadLast
  <2> HIDE DEF c
  <2> QED BY <1>0, <2>2, <2>3, SerialMove
<1>5. ASSUME NEW h \in Handler, NEW f \in Frozen, ReadFrozen(h, f)
      PROVE  SerialInv'
  <2> DEFINE c == IF Covered(call[h], f)
                    THEN [call[h] EXCEPT !.pc = "base"]
                    ELSE Returning(call[h], "NoMoney", 0)
  <2>1. /\ call[h] \in Call /\ call[h].user \in User
        /\ ledger[call[h].user] \in Seq(Row)
        /\ call[h].seen = Len(ledger[call[h].user])
    BY <1>0, <1>5
    DEF PostingInv, LedgerTypeOK, ReadInv, SerialInv, FreshInv, ReadFrozen
  <2>2. Balance(ledger[call[h].user]) \in Int
        /\ call[h].amount \in Int /\ f \in Nat
    BY <2>1, BalanceAtType DEF Balance, Call
  <2>3. Covered(call[h], f)
          => Balance(ledger[call[h].user]) + call[h].amount >= 0
    BY <2>1, <2>2 DEF Covered, Available, Balance, BalanceAt
  <2>4. /\ c.user = call[h].user /\ c.amount = call[h].amount
        /\ c.pc \in {"base", "returned"}
        /\ c.pc = "base" => Covered(call[h], f)
    BY <2>1 DEF Call, Returning
  <2>5. call' = [call EXCEPT ![h] = c] /\ UNCHANGED ledger
        /\ call[h].pc # "idle"
    BY <1>5 DEF ReadFrozen
  <2> HIDE DEF c
  <2> QED BY <1>0, <2>3, <2>4, <2>5, SerialMove
<1>6. ASSUME NEW h \in Handler, ReadBase(h) PROVE SerialInv'
  <2> DEFINE c == [call[h] EXCEPT !.pc = "insert",
                                  !.seen = Len(ledger[call[h].user])]
  <2>1. call[h] \in Call
    BY <1>0 DEF PostingInv, LedgerTypeOK
  <2>2. /\ c.user = call[h].user /\ c.amount = call[h].amount
        /\ c.pc = "insert" /\ c.seen = Len(ledger[call[h].user])
    BY <2>1 DEF Call
  <2>3. call' = [call EXCEPT ![h] = c] /\ UNCHANGED ledger
        /\ call[h].pc = "base"
    BY <1>6 DEF ReadBase
  <2>4. Balance(ledger[call[h].user]) + call[h].amount >= 0
    BY <2>3 DEF SerialInv, FreshInv
  <2> HIDE DEF c
  <2> QED BY <1>0, <2>2, <2>3, <2>4, SerialMove
<1>7. ASSUME NEW h \in Handler, Insert(h) PROVE SerialInv'
  BY <1>0, <1>7, SerialInsert
<1>8. ASSUME NEW h \in Handler, Abort(h) \/ Return(h) PROVE SerialInv'
  <2>1. Idle.pc = "idle"
    BY DEF Idle
  <2> QED BY <1>0, <1>8, <2>1, SerialCallOnly DEF Abort, Return
<1> QED
  BY <1>1, <1>2, <1>3, <1>4, <1>5, <1>6, <1>7, <1>8
  DEF LedgerNext, PostingStep

LEMMA SerialInit == LedgerInit => SerialInv
<1> SUFFICES ASSUME LedgerInit PROVE SerialInv
  OBVIOUS
<1>1. PostingInv
  BY TypeInit
<1>2. \A u \in User : Len(ledger[u]) = 0
  BY DEF LedgerInit
<1>3. \A h \in Handler : call[h].pc = "idle"
  BY DEF LedgerInit, Idle
<1> QED
  BY <1>1, <1>2, <1>3
  DEF SerialInv, ExclusiveInv, FreshInv, ChainInv, SolventInv, Balance, BalanceAt

\* The serial invariant holds in every state of every behaviour.
LEMMA SerialInvAlways ==
  ASSUME ~Overlap PROVE LedgerSpec => []SerialInv
<1>1. LedgerInit => SerialInv
  BY SerialInit
<1>2. SerialInv /\ [LedgerNext]_ledgerVars => SerialInv'
  BY SerialNext
<1> QED BY <1>1, <1>2, PTL DEF LedgerSpec

\* As long as no two postings of one user overlap, the rows of every user form
\* a chain: each starts from the balance the one before it left, although
\* postings of different users interleave and any of them may abort.
THEOREM SerialChain ==
  ASSUME ~Overlap PROVE LedgerSpec => []ChainInv
<1>1. SerialInv => ChainInv
  BY DEF SerialInv
<1> QED BY <1>1, SerialInvAlways, PTL

\* As long as no two postings of one user overlap, no user ever owes money: the
\* check that buy and pay make (lines 67 and 96) is enough.
THEOREM SerialSolvent ==
  ASSUME ~Overlap PROVE LedgerSpec => []SolventInv
<1>1. SerialInv => SolventInv
  BY DEF SerialInv
<1> QED BY <1>1, SerialInvAlways, PTL

-----------------------------------------------------------------------------
(* The ledger implements the wallet.                                        *)

Line(rows, i) == [amount |-> rows[i].amount, after |-> BalanceAt(rows, i)]

\* The statement of a user is a sequence as long as the rows; the balance the
\* wallet holds is the balance of the ledger.
LEMMA StatementLines ==
  ASSUME LedgerTypeOK, NEW u \in User
  PROVE  /\ Statement[u] = [i \in 1..Len(ledger[u]) |-> Line(ledger[u], i)]
         /\ Statement[u] \in Seq([amount : Int, after : Int])
         /\ Len(Statement[u]) = Len(ledger[u])
         /\ Abstract!Holding(Statement[u]) = Balance(ledger[u])
<1> DEFINE n == Len(ledger[u])
<1>1. ledger[u] \in Seq(Row) /\ n \in Nat
  BY DEF LedgerTypeOK
<1>2. Statement[u] = [i \in 1..n |-> Line(ledger[u], i)]
  BY DEF Statement, Line
<1>3. \A i \in 1..n : Line(ledger[u], i) \in [amount : Int, after : Int]
  <2> SUFFICES ASSUME NEW i \in 1..n
               PROVE  Line(ledger[u], i) \in [amount : Int, after : Int]
    OBVIOUS
  <2>1. i \in 0..n /\ BalanceAt(ledger[u], i) \in Int
    BY <1>1, BalanceAtType
  <2>2. ledger[u][i] \in Row
    BY <1>1
  <2>3. ledger[u][i].amount \in Int
    BY <2>2 DEF Row
  <2> QED BY <2>1, <2>3 DEF Line
<1>4. Statement[u] \in Seq([amount : Int, after : Int]) /\ Len(Statement[u]) = n
  BY <1>1, <1>2, <1>3
<1>5. CASE n = 0
  <2>1. Statement[u] = << >>
    BY <1>4, <1>5
  <2> QED BY <1>2, <1>4, <1>5, <2>1 DEF Abstract!Holding, Balance, BalanceAt
<1>6. CASE n # 0
  <2>1. Statement[u] # << >>
    BY <1>4, <1>6
  <2>2. Statement[u][n].after = BalanceAt(ledger[u], n)
    BY <1>1, <1>2, <1>6 DEF Line
  <2> QED BY <1>2, <1>4, <2>1, <2>2 DEF Abstract!Holding, Balance
<1> QED BY <1>2, <1>4, <1>5, <1>6

\* Insert is one Post of the wallet.
LEMMA InsertPosts ==
  ASSUME SerialInv, PostingInv', NEW h \in Handler, Insert(h)
  PROVE  Abstract!Post(call[h].user, call[h].amount)
<1> DEFINE u == call[h].user
           a == call[h].amount
           n == Len(ledger[u])
           after == Balance(ledger[u]) + a
           line == [amount |-> a, after |-> after]
<1>1. PostingInv /\ LedgerTypeOK /\ LedgerTypeOK'
  BY DEF SerialInv, PostingInv
<1>2. /\ u \in User /\ n \in Nat
      /\ \A v \in User \ {u} : ledger'[v] = ledger[v]
      /\ Len(ledger'[u]) = n + 1
      /\ \A i \in 1..n : ledger'[u][i] = ledger[u][i]
      /\ \A j \in 0..n : BalanceAt(ledger'[u], j) = BalanceAt(ledger[u], j)
      /\ ledger'[u][n + 1].amount = a
      /\ BalanceAt(ledger'[u], n + 1) = BalanceAt(ledger[u], call[h].seen) + a
  BY <1>1, InsertRows DEF PostingInv
<1>3. call[h].seen = n /\ after >= 0
  BY DEF SerialInv, FreshInv, Insert
<1>4. Abstract!Holding(Statement[u]) = Balance(ledger[u])
  BY <1>1, <1>2, StatementLines
<1>5. \A v \in User \ {u} : Statement'[v] = Statement[v]
  BY <1>2 DEF Statement
<1>6. Statement'[u] = Append(Statement[u], line)
  <2>1. /\ Statement[u] = [i \in 1..n |-> Line(ledger[u], i)]
        /\ Statement[u] \in Seq([amount : Int, after : Int])
        /\ Len(Statement[u]) = n
    BY <1>1, <1>2, StatementLines
  <2>2. Statement'[u] = [i \in 1..(n + 1) |-> Line(ledger'[u], i)]
    BY <1>2 DEF Statement, Line
  <2>3. \A i \in 1..n : Line(ledger'[u], i) = Line(ledger[u], i)
    BY <1>2 DEF Line
  <2>4. Line(ledger'[u], n + 1) = line
    BY <1>2, <1>3 DEF Line, Balance
  <2> HIDE DEF u, n, line
  <2>5. Append(Statement[u], line)
          = [i \in 1..(n + 1) |-> IF i = n + 1 THEN line ELSE Statement[u][i]]
    BY <1>2, <2>1
  <2>6. \A i \in 1..(n + 1) :
          Line(ledger'[u], i) = IF i = n + 1 THEN line ELSE Statement[u][i]
    BY <1>2, <2>1, <2>3, <2>4
  <2> QED BY <2>2, <2>5, <2>6
<1>7. Statement' = [Statement EXCEPT ![u] = Append(Statement[u], line)]
  BY <1>2, <1>5, <1>6 DEF Statement
<1> QED BY <1>3, <1>4, <1>7 DEF Abstract!Post

\* With at most one posting of a user in flight, the ledger behaves as a wallet
\* whose movements are atomic and never leave a negative balance.
THEOREM LedgerImplementsWallet ==
  ASSUME ~Overlap PROVE LedgerSpec => WalletSpec
<1>1. LedgerInit => SerialInv
  BY SerialInit
<1>2. SerialInv /\ [LedgerNext]_ledgerVars => SerialInv'
  BY SerialNext
<1>3. LedgerInit => Abstract!Init
  <2> SUFFICES ASSUME LedgerInit PROVE Abstract!Init
    OBVIOUS
  <2>1. LedgerTypeOK
    BY SerialInit DEF SerialInv, PostingInv
  <2>2. \A u \in User : Statement[u] = << >>
    <3> SUFFICES ASSUME NEW u \in User PROVE Statement[u] = << >>
      OBVIOUS
    <3>1. ledger[u] = << >>
      BY DEF LedgerInit
    <3>2. Statement[u] \in Seq([amount : Int, after : Int])
          /\ Len(Statement[u]) = 0
      BY <2>1, <3>1, StatementLines
    <3> QED BY <3>2
  <2> QED BY <2>2 DEF Statement, Abstract!Init
<1>4. SerialInv /\ SerialInv' /\ [LedgerNext]_ledgerVars
        => [Abstract!Next]_Statement
  <2> SUFFICES ASSUME SerialInv, SerialInv', [LedgerNext]_ledgerVars
               PROVE  [Abstract!Next]_Statement
    OBVIOUS
  <2>1. ASSUME NEW h \in Handler, Insert(h) PROVE Abstract!Next
    <3>1. call[h].user \in User /\ call[h].amount \in Amounts
      BY <2>1 DEF SerialInv, PostingInv, ReadInv, FreshInv, Insert
    <3>2. PostingInv'
      BY DEF SerialInv
    <3> QED BY <2>1, <3>1, <3>2, InsertPosts DEF Abstract!Next
  <2>2. CASE ~ \E h \in Handler : Insert(h)
    <3>1. UNCHANGED ledger
      BY <2>2, OnlyInsertWrites
    <3> QED BY <3>1 DEF Statement
  <2> QED BY <2>1, <2>2
<1> QED BY <1>1, <1>2, <1>3, <1>4, PTL DEF LedgerSpec, WalletSpec, Abstract!Spec

=============================================================================
