-------------------------- MODULE ActivationsProofs --------------------------
(***************************************************************************)
(* Theorems about Activations, for all users, activations, requests,       *)
(* prices and bounds.                                                      *)
(***************************************************************************)
EXTENDS Activations, LedgerProofs, SequenceTheorems, FiniteSetTheorems

-----------------------------------------------------------------------------
(* The inductive invariant.                                                 *)

\* Where a buy() the checker waits for may be.
Buying == {"last", "frozen", "base", "insert", "returned"}

\* A number is rented before its row is written, and a row has a user.
RentedInv ==
  \A a \in Activation :
    /\ activation[a].status # "SMS_RECIEVED"
    /\ IF activation[a].status = "NONE" THEN activation[a].user = NoUser
                                        ELSE activation[a].user \in User
    /\ source[a].state = "none" => activation[a].status = "NONE"
    /\ source[a].state \in {"ok", "retry"} => source[a].code \in ActivationCode

\* A request that rents has the number to itself, one that closes has found the
\* row of its activation.
RequestInv ==
  \A r \in Request :
    LET q == req[r] IN
    /\ q.pc \in {"frozen", "number", "saveNew"}
         => q.user \in User /\ q.transactionId = 0
    /\ q.pc = "saveNew" =>
         /\ q.target \in Activation
         /\ activation[q.target].status = "NONE"
         /\ source[q.target].state # "none"
         /\ \A p \in Request \ {r} :
              req[p].pc = "saveNew" => req[p].target # q.target
    /\ q.pc \in {"close", "saveClosed"} =>
         /\ q.target \in Activation
         /\ activation[q.target].status # "NONE"
         /\ q.status \in {"CANCELLED", "FINISHED"}

\* What a running check has found out about its activation and its codes.
CheckedCodeInv ==
  \A a \in Activation :
    LET c == check[a] IN
    /\ c.pc # "off" => activation[a].status # "NONE"
    /\ c.pc = "status" => c.status \in {"WAIT_CODE", "WAIT_AGAIN"}
    /\ c.pc \in {"code", "insert"} => c.code \in ActivationCode
    /\ c.pc = "insert" => ~CodeKnown(a)
    /\ c.pc \in {"buy", "save"} => c.status \in Final \cup {"WAIT_AGAIN"}

\* Only a check that waits for buy() has a posting in flight: one for the user
\* and the cost of its activation, which has a code by then.
BuyingInv ==
  \A a \in Activation :
    LET c == call[a] IN
    /\ check[a].pc # "buy" => c = Idle
    /\ check[a].pc = "buy" =>
         /\ c.pc \in Buying
         /\ c.user = activation[a].user
         /\ c.amount = -activation[a].cost
         /\ c.type = "Buy"
         /\ codes[a] # << >>
         /\ c.outcome # "Inserted" => c.row = 0
         /\ c.outcome = "Inserted" => c.pc = "returned" /\ c.row # 0

\* Row t is, or may yet be written as, the transaction of activation a: its
\* row, an entity in memory, or the buy() of its check has it.
Names(a, t) ==
  /\ t # 0
  /\ \/ activation[a].transactionId = t
     \/ check[a].transactionId = t
     \/ call[a].row = t
     \/ \E r \in Request : req[r].target = a /\ req[r].transactionId = t

\* Such a row is a Buy of the user for the cost, and of one activation only.
NamesInv ==
  /\ \A a \in Activation, t \in Nat :
       Names(a, t) =>
         LET rows == ledger[activation[a].user] IN
         /\ activation[a].status # "NONE"
         /\ t \in 1..Len(rows)
         /\ rows[t].type = "Buy" /\ rows[t].amount = -activation[a].cost
  /\ \A a, b \in Activation, t \in Nat :
       Names(a, t) /\ Names(b, t) /\ activation[a].user = activation[b].user
         => a = b

\* The inductive invariant of everything but the number of charges.
ActivationsInv ==
  /\ ActivationsTypeOK /\ ReadInv
  /\ RentedInv /\ RequestInv /\ CheckedCodeInv /\ BuyingInv /\ NamesInv
  /\ CodesOnceInv

\* A check of a may still charge: it runs on an entity without transaction, or
\* a later one will find the row open and without transaction.
MayCharge(a) ==
  LET c == check[a] IN
  \/ /\ c.pc \in {"status", "code", "insert", "save"} /\ c.transactionId = 0
     /\ c.pc = "save" => c.status \notin Final
  \/ c.pc = "buy" /\ call[a].outcome # "Inserted"
  \/ c.pc # "buy" /\ activation[a].transactionId = 0 /\ activation[a].status \notin Final

\* The activations of u whose charge, if any, has happened.
Spent(u) == {a \in Delivered(u) : ~MayCharge(a)}

Rented == {a \in Activation : activation[a].status # "NONE"}

\* Every Buy row is the charge of another spent activation, or one that a failure
\* has lost sight of: a failure makes no more than those which were delivered.
SpentInv ==
  /\ IsFiniteSet(Rented)
  /\ \A u \in User :
       Cardinality(BuyRows(u))
         <= Cardinality(Spent(u)) + failures * Cardinality(Delivered(u))

ChargesInv == ActivationsInv /\ SpentInv

-----------------------------------------------------------------------------
(* Types, and the initial state.                                            *)

ActivationRow ==
  [status : ActivationStatus \cup {"NONE"}, user : User \cup {NoUser},
   cost : Nat, transactionId : Nat]

SourceRecord == [state : SourceState, code : 0..MaxCodes]

RequestRecord ==
  [pc : RequestPc, user : User \cup {NoUser}, cost : Nat, seen : Nat,
   target : Activation \cup {"none"}, status : ActivationStatus,
   transactionId : Nat]

LEMMA TypeParts ==
  ActivationsTypeOK <=>
    /\ LedgerTypeOK
    /\ activation \in [Activation -> ActivationRow]
    /\ codes \in [Activation -> Seq(ActivationCode)]
    /\ source \in [Activation -> SourceRecord]
    /\ check \in [Activation -> Check]
    /\ req \in [Request -> RequestRecord]
    /\ looping \in BOOLEAN
    /\ failures \in 0..MaxFailures
  BY DEF ActivationsTypeOK, ActivationRow, SourceRecord, RequestRecord

LEMMA TypePartsNext ==
  ASSUME LedgerTypeOK',
         activation' \in [Activation -> ActivationRow],
         codes' \in [Activation -> Seq(ActivationCode)],
         source' \in [Activation -> SourceRecord],
         check' \in [Activation -> Check],
         req' \in [Request -> RequestRecord],
         looping' \in BOOLEAN, failures' \in 0..MaxFailures
  PROVE  ActivationsTypeOK'
  BY DEF ActivationsTypeOK, ActivationRow, SourceRecord, RequestRecord

LEMMA NoCheckType == NoCheck \in Check
  BY DEF NoCheck, Check, ActivationStatus

LEMMA NoReqType == NoReq \in RequestRecord
  BY DEF NoReq, RequestRecord, RequestPc, ActivationStatus

LEMMA ActivationsInitInv == ActivationsInit => ChargesInv
<1> SUFFICES ASSUME ActivationsInit PROVE ChargesInv
  OBVIOUS
<1> USE ActivationsAssumption, LedgerAssumption
<1>1. ToppedUp \in Row
  BY DEF ToppedUp, Row, TransactionType
<1>2. /\ \A u \in User : ledger[u] = <<ToppedUp>>
      /\ \A h \in Handler : call[h] = Idle
      /\ \A a \in Activation :
           /\ activation[a] = NoActivation /\ codes[a] = << >>
           /\ source[a].state = "none" /\ check[a] = NoCheck /\ call[a] = Idle
      /\ \A r \in Request : req[r] = NoReq
      /\ failures = 0 /\ looping = TRUE
  BY DEF ActivationsInit, ProcessInit
<1>3. LedgerTypeOK
  <2>1. <<ToppedUp>> \in Seq(Row)
    BY <1>1
  <2> QED BY <2>1, IdleType DEF ActivationsInit, ProcessInit, LedgerTypeOK
<1>4. ReadInv
  BY <1>2 DEF ReadInv, Idle
<1>5. ActivationsTypeOK
  <2>1. NoActivation \in ActivationRow
    BY DEF NoActivation, ActivationRow, ActivationStatus
  <2>2. [state |-> "none", code |-> 0] \in SourceRecord
    BY DEF SourceRecord, SourceState
  <2>3. << >> \in Seq(ActivationCode) /\ 0 \in 0..MaxFailures
    BY EmptySeq
  <2> QED BY <1>3, <2>1, <2>2, <2>3, NoCheckType, NoReqType, TypeParts
      DEF ActivationsInit, ProcessInit
<1>6. RentedInv /\ RequestInv /\ CheckedCodeInv /\ BuyingInv
  BY <1>2 DEF RentedInv, RequestInv, CheckedCodeInv, BuyingInv, NoActivation,
              NoReq, NoCheck
<1>7. NamesInv
  BY <1>2 DEF NamesInv, Names, NoActivation, NoReq, NoCheck, Idle
<1>8. CodesOnceInv
  BY <1>2 DEF CodesOnceInv, IsInjective
<1>9. SpentInv
  <2>1. Rented = {}
    BY <1>2 DEF Rented, NoActivation
  <2>2. ASSUME NEW u \in User
        PROVE  BuyRows(u) = {} /\ Spent(u) = {} /\ Delivered(u) = {}
    <3>0. Len(<<ToppedUp>>) = 1 /\ <<ToppedUp>>[1] = ToppedUp
      OBVIOUS
    <3>1. Len(ledger[u]) = 1 /\ ledger[u][1] = ToppedUp
      BY <1>2, <3>0, Zenon
    <3>2. ToppedUp.type = "Payment"
      BY DEF ToppedUp
    <3> QED BY <1>2, <3>1, <3>2 DEF BuyRows, Spent, Delivered
  <2>3. Cardinality({}) = 0 /\ IsFiniteSet({})
    BY FS_EmptySet
  <2>4. ASSUME NEW u \in User
        PROVE  Cardinality(BuyRows(u))
                 <= Cardinality(Spent(u)) + failures * Cardinality(Delivered(u))
    <3>1. /\ Cardinality(BuyRows(u)) = 0 /\ Cardinality(Spent(u)) = 0
          /\ Cardinality(Delivered(u)) = 0
      BY <2>2, <2>3
    <3> QED BY <1>2, <3>1
  <2> QED BY <2>1, <2>3, <2>4 DEF SpentInv
<1> QED BY <1>4, <1>5, <1>6, <1>7, <1>8, <1>9 DEF ChargesInv, ActivationsInv

-----------------------------------------------------------------------------
(* What a step has to leave alone.                                          *)

\* No row that is named gets another meaning while rows and users stay.
LEMMA NamesKept ==
  ASSUME NamesInv, UNCHANGED ledger,
         \A a \in Activation :
           activation[a].status # "NONE" =>
             /\ activation'[a].status # "NONE"
             /\ activation'[a].user = activation[a].user
             /\ activation'[a].cost = activation[a].cost,
         \A a \in Activation, t \in Nat : Names(a, t)' => Names(a, t)
  PROVE  NamesInv'
<1>1. ASSUME NEW a \in Activation, NEW t \in Nat, Names(a, t)'
      PROVE  LET rows == ledger'[activation'[a].user] IN
             /\ activation'[a].status # "NONE"
             /\ t \in 1..Len(rows)
             /\ rows[t].type = "Buy" /\ rows[t].amount = -activation'[a].cost
  BY <1>1 DEF NamesInv
<1>2. ASSUME NEW a \in Activation, NEW b \in Activation, NEW t \in Nat,
             Names(a, t)', Names(b, t)', activation'[a].user = activation'[b].user
      PROVE  a = b
  BY <1>2 DEF NamesInv
<1> QED BY <1>1, <1>2 DEF NamesInv

\* Both sides of SpentInv are cardinalities of finite sets.
LEMMA SpentFinite ==
  ASSUME RentedInv, LedgerTypeOK, IsFiniteSet(Rented), NEW u \in User
  PROVE  /\ IsFiniteSet(Spent(u)) /\ Cardinality(Spent(u)) \in Nat
         /\ IsFiniteSet(BuyRows(u)) /\ Cardinality(BuyRows(u)) \in Nat
         /\ IsFiniteSet(Delivered(u)) /\ Cardinality(Delivered(u)) \in Nat
         /\ Cardinality(Spent(u)) <= Cardinality(Delivered(u))
<1>1. Delivered(u) \subseteq Rented /\ Spent(u) \subseteq Delivered(u)
  BY LedgerAssumption DEF Spent, Delivered, Rented, RentedInv
<1>2. IsFiniteSet(Delivered(u))
  BY <1>1, FS_Subset
<1>3. IsFiniteSet(Spent(u)) /\ Cardinality(Spent(u)) <= Cardinality(Delivered(u))
  BY <1>1, <1>2, FS_Subset
<1>4. Len(ledger[u]) \in Nat
  BY DEF LedgerTypeOK
<1>5. IsFiniteSet(1..Len(ledger[u])) /\ BuyRows(u) \subseteq 1..Len(ledger[u])
  BY <1>4, FS_Interval DEF BuyRows
<1>6. IsFiniteSet(BuyRows(u))
  BY <1>5, FS_Subset
<1> QED BY <1>2, <1>3, <1>6, FS_CardinalityType

\* What failures are accountable for does not shrink.
LEMMA LossGrows ==
  ASSUME NEW f \in Nat, NEW m \in Nat, NEW n \in Nat, m <= n
  PROVE  f * m \in Nat /\ f * n \in Nat /\ f * m <= f * n /\ (f + 1) * n = f * n + n
<1>1. PICK k \in Nat : n = m + k
  <2> QED BY n - m \in Nat /\ n = m + (n - m)
<1>2. f * (m + k) = f * m + f * k /\ f * m \in Nat /\ f * k \in Nat
  OBVIOUS
<1>3. (f + 1) * n = f * n + n /\ f * n \in Nat
  OBVIOUS
<1> QED BY <1>1, <1>2, <1>3

\* Charges stay accounted for when no row is inserted, a spent activation stays
\* spent and a delivered one delivered.
LEMMA SpentKept ==
  ASSUME ActivationsInv, ActivationsInv', SpentInv, UNCHANGED ledger,
         IsFiniteSet(Rented'), failures' \in Nat, failures' = failures,
         \A u \in User, a \in Activation :
           /\ a \in Spent(u) => a \in Spent(u)'
           /\ a \in Delivered(u) => a \in Delivered(u)'
  PROVE  SpentInv'
<1>1. RentedInv /\ RentedInv' /\ LedgerTypeOK /\ IsFiniteSet(Rented)
  BY TypeParts DEF ActivationsInv, SpentInv, ActivationsTypeOK
<1>2. ASSUME NEW u \in User
      PROVE  Cardinality(BuyRows(u)')
               <= Cardinality(Spent(u)') + failures' * Cardinality(Delivered(u)')
  <2>1. /\ BuyRows(u)' = BuyRows(u)
        /\ Cardinality(BuyRows(u))
             <= Cardinality(Spent(u)) + failures * Cardinality(Delivered(u))
    BY DEF BuyRows, SpentInv
  <2>2. /\ IsFiniteSet(Spent(u)') /\ Cardinality(Spent(u)') \in Nat
        /\ IsFiniteSet(Delivered(u)') /\ Cardinality(Delivered(u)') \in Nat
    <3>1. Delivered(u)' \subseteq Rented' /\ Spent(u)' \subseteq Rented'
      BY <1>1, LedgerAssumption DEF Spent, Delivered, Rented, RentedInv
    <3>2. IsFiniteSet(Spent(u)') /\ IsFiniteSet(Delivered(u)')
      BY <3>1, FS_Subset
    <3> QED BY <3>2, FS_CardinalityType
  <2>3. Spent(u) \subseteq Spent(u)' /\ Delivered(u) \subseteq Delivered(u)'
    BY DEF Spent, Delivered
  <2>4. /\ Cardinality(Spent(u)) <= Cardinality(Spent(u)')
        /\ Cardinality(Delivered(u)) <= Cardinality(Delivered(u)')
    BY <2>2, <2>3, FS_Subset
  <2>5. /\ Cardinality(BuyRows(u)) \in Nat /\ Cardinality(Spent(u)) \in Nat
        /\ Cardinality(Delivered(u)) \in Nat
    BY <1>1, SpentFinite
  <2>6. /\ failures * Cardinality(Delivered(u)) \in Nat
        /\ failures * Cardinality(Delivered(u)') \in Nat
        /\ failures * Cardinality(Delivered(u)) <= failures * Cardinality(Delivered(u)')
    BY <2>2, <2>4, <2>5, LossGrows
  <2> QED BY <2>1, <2>2, <2>4, <2>5, <2>6
<1> QED BY <1>2 DEF SpentInv

-----------------------------------------------------------------------------
(* Requests and the source.                                                 *)

\* The source never takes a number back, and a message it holds has a code.
SourceMoves ==
  /\ source' \in [Activation -> SourceRecord]
  /\ \A a \in Activation :
       /\ source'[a].state = "none" => source[a].state = "none"
       /\ source'[a].state \in {"ok", "retry"} => source'[a].code \in ActivationCode

\* A step of a request that writes no row: it is enough that what the request
\* has in memory afterwards satisfies its own part of the invariant.
LEMMA RequestMoves ==
  ASSUME ChargesInv, NEW r \in Request, NEW q \in RequestRecord,
         req' = [req EXCEPT ![r] = q], SourceMoves,
         UNCHANGED <<ledger, call, activation, codes, check, looping, failures>>,
         q.pc \in {"frozen", "number", "saveNew"}
           => q.user \in User /\ q.transactionId = 0,
         q.pc = "saveNew" =>
           /\ q.target \in Activation
           /\ activation[q.target].status = "NONE"
           /\ source'[q.target].state # "none"
           /\ \A p \in Request \ {r} :
                req[p].pc = "saveNew" => req[p].target # q.target,
         q.pc \in {"close", "saveClosed"} =>
           /\ q.target \in Activation
           /\ activation[q.target].status # "NONE"
           /\ q.status \in {"CANCELLED", "FINISHED"},
         \A a \in Activation :
           q.target = a /\ q.transactionId # 0 => Names(a, q.transactionId)
  PROVE  ChargesInv'
<1>1. ActivationsInv /\ ActivationsTypeOK /\ SpentInv
  BY DEF ChargesInv, ActivationsInv
<1>2. \A p \in Request : req'[p] = IF p = r THEN q ELSE req[p]
  BY <1>1, TypeParts
<1>3. ActivationsTypeOK' /\ ReadInv'
  <2>1. req' \in [Request -> RequestRecord]
    BY <1>1, TypeParts
  <2>2. LedgerTypeOK' /\ ReadInv'
    BY <1>1, TypeParts DEF LedgerTypeOK, ActivationsInv, ReadInv
  <2> QED BY <1>1, <2>1, <2>2, TypeParts, TypePartsNext DEF SourceMoves
<1>4. RentedInv'
  BY <1>1 DEF ActivationsInv, RentedInv, SourceMoves
<1>5. RequestInv'
  BY <1>1, <1>2 DEF ActivationsInv, RequestInv, SourceMoves
<1>6. CheckedCodeInv' /\ BuyingInv' /\ CodesOnceInv'
  BY <1>1 DEF ActivationsInv, CheckedCodeInv, CodeKnown, BuyingInv, CodesOnceInv
<1>7. NamesInv'
  <2>1. \A a \in Activation, t \in Nat : Names(a, t)' => Names(a, t)
    BY <1>2 DEF Names
  <2>2. NamesInv
    BY <1>1 DEF ActivationsInv
  <2> QED BY <2>1, <2>2, NamesKept
<1>8. ActivationsInv'
  BY <1>3, <1>4, <1>5, <1>6, <1>7 DEF ActivationsInv
<1>9. SpentInv'
  <2>1. IsFiniteSet(Rented') /\ failures' \in Nat /\ failures' = failures
    BY <1>1, TypeParts, ActivationsAssumption DEF SpentInv, Rented
  <2>2. \A u \in User, a \in Activation :
          /\ a \in Spent(u) => a \in Spent(u)'
          /\ a \in Delivered(u) => a \in Delivered(u)'
    BY DEF Spent, Delivered, MayCharge
  <2> QED BY <1>1, <1>8, <2>1, <2>2, SpentKept
<1> QED BY <1>8, <1>9 DEF ChargesInv

LEMMA CreateStep ==
  ASSUME ChargesInv, NEW r \in Request, NEW u \in User, NEW c \in Cost, Create(r, u, c)
  PROVE  ChargesInv'
<1> DEFINE q == [NoReq EXCEPT !.pc = "frozen", !.user = u, !.cost = c,
                              !.seen = Len(ledger[u])]
<1>1. ActivationsTypeOK /\ RentedInv
  BY DEF ChargesInv, ActivationsInv
<1>2. Len(ledger[u]) \in Nat
  BY <1>1, TypeParts DEF LedgerTypeOK
<1>3. /\ q \in RequestRecord /\ q.pc = "frozen" /\ q.user = u
      /\ q.transactionId = 0 /\ q.target = "none"
  BY <1>2, ActivationsAssumption DEF NoReq, RequestRecord, RequestPc, ActivationStatus
<1>4. /\ req' = [req EXCEPT ![r] = q]
      /\ UNCHANGED <<ledger, call, activation, codes, source, check, looping, failures>>
  BY DEF Create, ledgerVars
<1>5. SourceMoves
  BY <1>1, <1>4, TypeParts DEF SourceMoves, RentedInv
<1> HIDE DEF q
<1> QED BY <1>3, <1>4, <1>5, RequestMoves

LEMMA CheckMoneyStep ==
  ASSUME ChargesInv, NEW r \in Request, CheckMoney(r)
  PROVE  ChargesInv'
<1> DEFINE q == IF Affordable(r, FrozenOf(req[r].user))
                  THEN [req[r] EXCEPT !.pc = "number", !.seen = 0] ELSE NoReq
<1>1. ActivationsTypeOK /\ RentedInv /\ RequestInv /\ NamesInv
  BY DEF ChargesInv, ActivationsInv
<1>2. /\ req[r] \in RequestRecord /\ req[r].user \in User /\ req[r].transactionId = 0
  BY <1>1, TypeParts DEF RequestInv, CheckMoney
<1>3. /\ req' = [req EXCEPT ![r] = q]
      /\ UNCHANGED <<ledger, call, activation, codes, source, check, looping, failures>>
  BY DEF CheckMoney, ledgerVars
<1>4. /\ q \in RequestRecord /\ q.pc \in {"number", "none"}
      /\ q.pc = "number" => q.user \in User
      /\ q.transactionId = 0
  <2>1. NoReq.pc = "none" /\ NoReq.transactionId = 0
    BY DEF NoReq
  <2>2. [req[r] EXCEPT !.pc = "number", !.seen = 0] \in RequestRecord
    BY <1>2 DEF RequestRecord, RequestPc
  <2> QED BY <1>2, <2>1, <2>2, NoReqType DEF RequestRecord
<1>5. SourceMoves
  BY <1>1, <1>3, TypeParts DEF SourceMoves, RentedInv
<1> HIDE DEF q
<1> QED BY <1>3, <1>4, <1>5, RequestMoves

LEMMA GetNumberStep ==
  ASSUME ChargesInv, NEW r \in Request, NEW a \in Activation, GetNumber(r, a)
  PROVE  ChargesInv'
<1> DEFINE q == [req[r] EXCEPT !.pc = "saveNew", !.target = a]
           s == [source[a] EXCEPT !.state = "wait"]
<1>1. ActivationsTypeOK /\ RentedInv /\ RequestInv
  BY DEF ChargesInv, ActivationsInv
<1>2. /\ req[r] \in RequestRecord /\ req[r].user \in User /\ req[r].transactionId = 0
      /\ source[a] \in SourceRecord /\ source[a].state = "none"
      /\ activation[a].status = "NONE"
  BY <1>1, TypeParts DEF RequestInv, RentedInv, GetNumber
<1>3. /\ req' = [req EXCEPT ![r] = q] /\ source' = [source EXCEPT ![a] = s]
      /\ UNCHANGED <<ledger, call, activation, codes, check, looping, failures>>
  BY DEF GetNumber, ledgerVars
<1>4. /\ q \in RequestRecord /\ q.pc = "saveNew" /\ q.target = a
      /\ q.user \in User /\ q.transactionId = 0
  BY <1>2 DEF RequestRecord, RequestPc
<1>5. s \in SourceRecord /\ s.state = "wait"
  BY <1>2 DEF SourceRecord, SourceState
<1> HIDE DEF q, s
<1>6. SourceMoves /\ source'[a].state = "wait"
  BY <1>1, <1>3, <1>5, TypeParts DEF SourceMoves, RentedInv
<1>7. \A p \in Request \ {r} : req[p].pc = "saveNew" => req[p].target # a
  BY <1>1, <1>2 DEF RequestInv
<1> QED BY <1>2, <1>3, <1>4, <1>6, <1>7, RequestMoves

LEMMA FindToCloseStep ==
  ASSUME ChargesInv, NEW r \in Request, NEW a \in Activation,
         NEW final \in {"CANCELLED", "FINISHED"}, FindToClose(r, a, final)
  PROVE  ChargesInv'
<1> DEFINE q == [NoReq EXCEPT !.pc = "close", !.target = a, !.status = final,
                              !.transactionId = activation[a].transactionId]
<1>1. ActivationsTypeOK /\ RentedInv
  BY DEF ChargesInv, ActivationsInv
<1>2. activation[a] \in ActivationRow /\ activation[a].status # "NONE"
  BY <1>1, TypeParts DEF FindToClose, Closable
<1>3. /\ q \in RequestRecord /\ q.pc = "close" /\ q.target = a /\ q.status = final
      /\ q.transactionId = activation[a].transactionId
  BY <1>2 DEF ActivationRow, NoReq, RequestRecord, RequestPc, ActivationStatus
<1>4. /\ req' = [req EXCEPT ![r] = q]
      /\ UNCHANGED <<ledger, call, activation, codes, source, check, looping, failures>>
  BY DEF FindToClose, ledgerVars
<1>5. SourceMoves
  BY <1>1, <1>4, TypeParts DEF SourceMoves, RentedInv
<1>6. q.transactionId # 0 => Names(a, q.transactionId)
  BY <1>3 DEF Names
<1> HIDE DEF q
<1> QED BY <1>2, <1>3, <1>4, <1>5, <1>6, RequestMoves

LEMMA SourceClosesStep ==
  ASSUME ChargesInv, NEW r \in Request, SourceCloses(r)
  PROVE  ChargesInv'
<1> DEFINE q == [req[r] EXCEPT !.pc = "saveClosed"]
<1>1. ActivationsTypeOK /\ RentedInv /\ RequestInv
  BY DEF ChargesInv, ActivationsInv
<1>2. PICK a \in Activation : a = req[r].target
  BY <1>1 DEF RequestInv, SourceCloses
<1>3. /\ req[r] \in RequestRecord /\ req[r].pc = "close"
      /\ activation[a].status # "NONE" /\ req[r].status \in {"CANCELLED", "FINISHED"}
  BY <1>1, <1>2, TypeParts DEF RequestInv, SourceCloses
<1>4. PICK state \in {"cancelled", "finished"} :
        source' = [source EXCEPT ![a].state = state]
  BY <1>2 DEF SourceCloses
<1> DEFINE s == [source[a] EXCEPT !.state = state]
<1>5. /\ req' = [req EXCEPT ![r] = q] /\ source' = [source EXCEPT ![a] = s]
      /\ UNCHANGED <<ledger, call, activation, codes, check, looping, failures>>
  BY <1>4 DEF SourceCloses, ledgerVars
<1>6. /\ q \in RequestRecord /\ q.pc = "saveClosed" /\ q.target = a
      /\ q.status \in {"CANCELLED", "FINISHED"}
      /\ q.transactionId = req[r].transactionId
  BY <1>2, <1>3 DEF RequestRecord, RequestPc
<1>7. s \in SourceRecord /\ s.state = state
  BY <1>1, TypeParts DEF SourceRecord, SourceState
<1> HIDE DEF q, s
<1>8. SourceMoves
  BY <1>1, <1>5, <1>7, TypeParts DEF SourceMoves, RentedInv
<1>9. q.transactionId # 0 => Names(a, q.transactionId)
  BY <1>2, <1>6 DEF Names
<1> QED BY <1>3, <1>5, <1>6, <1>8, <1>9, RequestMoves

LEMMA RequestFailsStep ==
  ASSUME ChargesInv, NEW r \in Request, RequestFails(r)
  PROVE  ChargesInv'
<1>1. ActivationsTypeOK /\ RentedInv
  BY DEF ChargesInv, ActivationsInv
<1>2. /\ req' = [req EXCEPT ![r] = NoReq]
      /\ UNCHANGED <<ledger, call, activation, codes, source, check, looping, failures>>
  BY DEF RequestFails, ledgerVars
<1>3. SourceMoves
  BY <1>1, <1>2, TypeParts DEF SourceMoves, RentedInv
<1>4. NoReq.pc = "none" /\ NoReq.transactionId = 0
  BY DEF NoReq
<1> QED BY <1>2, <1>3, <1>4, NoReqType, RequestMoves

-----------------------------------------------------------------------------
(* Checks that neither buy nor write.                                       *)

\* Check c may follow the check of a, which waits for no buy().
Follows(a, c) ==
  /\ check[a].pc # "buy" /\ c.pc # "buy"
  /\ c.pc # "off" => activation[a].status # "NONE"
  /\ c.pc = "status" => c.status \in {"WAIT_CODE", "WAIT_AGAIN"}
  /\ c.pc \in {"code", "insert"} => c.code \in ActivationCode
  /\ c.pc = "insert" => c.code \notin ToSet(codes[a])
  /\ c.pc = "save" => c.status \in Final \cup {"WAIT_AGAIN"}
  /\ c.transactionId # 0 => Names(a, c.transactionId)
  /\ /\ c.pc \in {"status", "code", "insert", "save"} /\ c.transactionId = 0
     /\ c.pc = "save" => c.status \notin Final
     => MayCharge(a)

LEMMA ChecksMove ==
  ASSUME ChargesInv, SourceMoves, check' \in [Activation -> Check],
         UNCHANGED <<ledger, call, activation, codes, req, looping, failures>>,
         \A a \in Activation : check'[a] = check[a] \/ Follows(a, check'[a])
  PROVE  ChargesInv'
<1>1. ActivationsInv /\ ActivationsTypeOK /\ SpentInv
  BY DEF ChargesInv, ActivationsInv
<1>2. ActivationsTypeOK' /\ ReadInv'
  <2>1. LedgerTypeOK' /\ ReadInv'
    BY <1>1, TypeParts DEF LedgerTypeOK, ActivationsInv, ReadInv
  <2> QED BY <1>1, <2>1, TypeParts, TypePartsNext DEF SourceMoves
<1>3. RentedInv' /\ RequestInv' /\ CodesOnceInv'
  BY <1>1 DEF ActivationsInv, RentedInv, RequestInv, CodesOnceInv, SourceMoves
<1>4. CheckedCodeInv'
  <2> SUFFICES ASSUME NEW a \in Activation
               PROVE  LET c == check'[a] IN
                      /\ c.pc # "off" => activation'[a].status # "NONE"
                      /\ c.pc = "status" => c.status \in {"WAIT_CODE", "WAIT_AGAIN"}
                      /\ c.pc \in {"code", "insert"} => c.code \in ActivationCode
                      /\ c.pc = "insert" => c.code \notin ToSet(codes'[a])
                      /\ c.pc \in {"buy", "save"} => c.status \in Final \cup {"WAIT_AGAIN"}
    BY DEF CheckedCodeInv, CodeKnown
  <2>1. CASE check'[a] = check[a]
    BY <1>1, <2>1 DEF ActivationsInv, CheckedCodeInv, CodeKnown
  <2>2. CASE Follows(a, check'[a])
    BY <2>2 DEF Follows
  <2> QED BY <2>1, <2>2
<1>5. BuyingInv'
  BY <1>1 DEF ActivationsInv, BuyingInv, Follows
<1>6. NamesInv'
  <2>1. \A a \in Activation, t \in Nat : Names(a, t)' => Names(a, t)
    <3> SUFFICES ASSUME NEW a \in Activation, NEW t \in Nat, Names(a, t)'
                 PROVE  Names(a, t)
      OBVIOUS
    <3>1. CASE check'[a].transactionId = t /\ Follows(a, check'[a])
      BY <3>1 DEF Follows, Names
    <3>2. CASE check'[a].transactionId # t \/ check'[a] = check[a]
      BY <3>2 DEF Names
    <3> QED BY <3>1, <3>2
  <2>2. NamesInv
    BY <1>1 DEF ActivationsInv
  <2> QED BY <2>1, <2>2, NamesKept
<1>7. ActivationsInv'
  BY <1>2, <1>3, <1>4, <1>5, <1>6 DEF ActivationsInv
<1>8. SpentInv'
  <2>1. IsFiniteSet(Rented') /\ failures' \in Nat /\ failures' = failures
    BY <1>1, TypeParts, ActivationsAssumption DEF SpentInv, Rented
  <2>2. ASSUME NEW a \in Activation, MayCharge(a)' PROVE MayCharge(a)
    <3>1. CASE check'[a] = check[a]
      BY <2>2, <3>1 DEF MayCharge
    <3>2. CASE Follows(a, check'[a])
      BY <2>2, <3>2 DEF MayCharge, Follows
    <3> QED BY <3>1, <3>2
  <2>3. \A u \in User, a \in Activation :
          /\ a \in Spent(u) => a \in Spent(u)'
          /\ a \in Delivered(u) => a \in Delivered(u)'
    BY <2>2 DEF Spent, Delivered
  <2> QED BY <1>1, <1>7, <2>1, <2>3, SpentKept
<1> QED BY <1>7, <1>8 DEF ChargesInv

\* The same for the check of one activation.
LEMMA CheckMoves ==
  ASSUME ChargesInv, SourceMoves, NEW a \in Activation, NEW c \in Check,
         check' = [check EXCEPT ![a] = c], Follows(a, c),
         UNCHANGED <<ledger, call, activation, codes, req, looping, failures>>
  PROVE  ChargesInv'
<1>1. check \in [Activation -> Check]
  BY TypeParts DEF ChargesInv, ActivationsInv
<1>2. /\ check' \in [Activation -> Check]
      /\ \A b \in Activation : check'[b] = IF b = a THEN c ELSE check[b]
  BY <1>1
<1> QED BY <1>2, ChecksMove

LEMMA NoCheckFollows ==
  ASSUME NEW a \in Activation, check[a].pc # "buy" PROVE Follows(a, NoCheck)
  BY DEF Follows, NoCheck

LEMMA SourceStep ==
  ASSUME ChargesInv, NEW a \in Activation, SmsArrives(a) \/ SourceCancels(a)
  PROVE  ChargesInv'
<1>1. ActivationsTypeOK /\ RentedInv
  BY DEF ChargesInv, ActivationsInv
<1>2. check' = check /\ check' \in [Activation -> Check]
      /\ UNCHANGED <<ledger, call, activation, codes, req, looping, failures>>
  BY <1>1, TypeParts DEF SmsArrives, SourceCancels, ledgerVars
<1>3. source \in [Activation -> SourceRecord] /\ MaxCodes \in Nat
  BY <1>1, TypeParts, ActivationsAssumption
<1>4. SourceMoves
  <2>1. CASE SmsArrives(a)
    <3> DEFINE s == [source[a] EXCEPT !.state = "ok", !.code = @ + 1]
    <3>1. source' = [source EXCEPT ![a] = s] /\ source[a].code < MaxCodes
      BY <2>1 DEF SmsArrives
    <3>2. source[a] \in SourceRecord /\ source[a].code \in 0..MaxCodes
      BY <1>3 DEF SourceRecord
    <3>3. source[a].code + 1 \in 0..MaxCodes /\ source[a].code + 1 \in 1..MaxCodes
      BY <1>3, <3>1, <3>2
    <3>4. s \in SourceRecord /\ s.state = "ok" /\ s.code = source[a].code + 1
      BY <3>2, <3>3 DEF SourceRecord, SourceState
    <3> HIDE DEF s
    <3> QED BY <1>1, <1>3, <3>1, <3>3, <3>4 DEF SourceMoves, RentedInv, ActivationCode
  <2>2. CASE SourceCancels(a)
    <3> DEFINE s == [source[a] EXCEPT !.state = "cancelled"]
    <3>1. source' = [source EXCEPT ![a] = s]
      BY <2>2 DEF SourceCancels
    <3>2. s \in SourceRecord /\ s.state = "cancelled"
      BY <1>3 DEF SourceRecord, SourceState
    <3> HIDE DEF s
    <3> QED BY <1>1, <1>3, <3>1, <3>2 DEF SourceMoves, RentedInv
  <2> QED BY <2>1, <2>2
<1> QED BY <1>2, <1>4, ChecksMove

LEMMA StartRoundStep ==
  ASSUME ChargesInv, StartRound
  PROVE  ChargesInv'
<1>1. ActivationsTypeOK /\ RentedInv
  BY DEF ChargesInv, ActivationsInv
<1>2. UNCHANGED <<ledger, call, activation, codes, source, req, looping, failures>>
  BY DEF StartRound, ledgerVars
<1>3. SourceMoves
  BY <1>1, <1>2, TypeParts DEF SourceMoves, RentedInv
<1>4. ASSUME NEW a \in Activation
      PROVE  check'[a] \in Check /\ Follows(a, check'[a])
  <2>1. check[a].pc = "off" /\ activation[a] \in ActivationRow
    BY <1>1, TypeParts DEF StartRound, RoundOver
  <2>2. CASE a \in Open
    <3> DEFINE c == [NoCheck EXCEPT !.pc = "status", !.status = activation[a].status,
                                    !.transactionId = activation[a].transactionId]
    <3>1. check'[a] = c
      BY <2>2 DEF StartRound
    <3>2. activation[a].status \in {"WAIT_CODE", "WAIT_AGAIN"}
      BY <1>1, <2>1, <2>2 DEF Open, RentedInv, ActivationRow, ActivationStatus, Final
    <3>3. /\ c \in Check /\ c.pc = "status" /\ c.status = activation[a].status
          /\ c.transactionId = activation[a].transactionId
      BY <2>1, <3>2 DEF NoCheck, Check, ActivationRow, ActivationStatus
    <3> HIDE DEF c
    <3>4. c.transactionId # 0 => Names(a, c.transactionId)
      BY <3>3 DEF Names
    <3>5. c.transactionId = 0 => MayCharge(a)
      BY <2>1, <3>2, <3>3 DEF MayCharge, Final
    <3> QED BY <2>1, <3>1, <3>2, <3>3, <3>4, <3>5 DEF Follows
  <2>3. CASE a \notin Open
    <3>1. check'[a] = NoCheck
      BY <2>3 DEF StartRound
    <3> QED BY <2>1, <3>1, NoCheckType, NoCheckFollows
  <2> QED BY <2>2, <2>3
<1>5. check' \in [Activation -> Check]
  <2>1. check' = [a \in Activation |-> check'[a]]
    BY DEF StartRound
  <2> QED BY <1>4, <2>1
<1> QED BY <1>2, <1>3, <1>4, <1>5, ChecksMove

LEMMA GetStatusStep ==
  ASSUME ChargesInv, NEW a \in Activation, GetStatus(a)
  PROVE  ChargesInv'
<1>1. ActivationsTypeOK /\ RentedInv /\ CheckedCodeInv
  BY DEF ChargesInv, ActivationsInv
<1>2. UNCHANGED <<ledger, call, activation, codes, source, req, looping, failures>>
  BY DEF GetStatus, ledgerVars
<1>3. SourceMoves
  BY <1>1, <1>2, TypeParts DEF SourceMoves, RentedInv
<1>4. PICK answer \in Answers(source[a]) :
        \E c \in Answered(check[a], answer, source[a].code) :
          check' = [check EXCEPT ![a] = c]
  BY DEF GetStatus
<1>5. PICK c \in Answered(check[a], answer, source[a].code) :
         check' = [check EXCEPT ![a] = c]
  BY <1>4
<1>6. /\ check[a] \in Check /\ check[a].pc = "status"
      /\ activation[a].status # "NONE"
      /\ check[a].status \in {"WAIT_CODE", "WAIT_AGAIN"}
  BY <1>1, TypeParts DEF GetStatus, CheckedCodeInv
<1>7. check[a].transactionId # 0 => Names(a, check[a].transactionId)
  BY DEF Names
<1>8. check[a].transactionId = 0 => MayCharge(a)
  BY <1>6 DEF MayCharge
<1>9. CASE c = NoCheck
  BY <1>2, <1>3, <1>5, <1>6, <1>9, NoCheckType, NoCheckFollows, CheckMoves
<1>10. ASSUME NEW status \in Final, c = Saving(check[a], status)
      PROVE  ChargesInv'
  <2>1. /\ c \in Check /\ c.pc = "save" /\ c.status = status
        /\ c.transactionId = check[a].transactionId
    BY <1>6, <1>10 DEF Saving, Check, Final, ActivationStatus
  <2>2. Follows(a, c)
    BY <1>6, <1>7, <2>1 DEF Follows
  <2> QED BY <1>2, <1>3, <1>5, <2>1, <2>2, CheckMoves
<1>11. CASE /\ answer \in {"STATUS_OK", "ACCESS_RETRY_GET"}
            /\ c = [check[a] EXCEPT !.pc = "code", !.answer = answer,
                                    !.code = source[a].code]
  <2>1. source[a].state \in {"ok", "retry"}
    BY <1>11 DEF Answers
  <2>2. source[a].code \in ActivationCode /\ source[a].code \in Nat
    BY <1>1, <2>1 DEF RentedInv, ActivationCode
  <2>3. /\ c \in Check /\ c.pc = "code" /\ c.code = source[a].code
        /\ c.transactionId = check[a].transactionId
    BY <1>6, <1>11, <2>2 DEF Check
  <2>4. Follows(a, c)
    BY <1>6, <1>7, <1>8, <2>2, <2>3 DEF Follows
  <2> QED BY <1>2, <1>3, <1>5, <2>3, <2>4, CheckMoves
<1> QED
  BY <1>5, <1>6, <1>9, <1>10, <1>11 DEF Answered, Answers, Final

LEMMA CheckEndStep ==
  ASSUME ChargesInv, NEW a \in Activation, SourceSilent(a) \/ Retry(a)
  PROVE  ChargesInv'
<1>1. ActivationsTypeOK /\ RentedInv
  BY DEF ChargesInv, ActivationsInv
<1>2. /\ check' = [check EXCEPT ![a] = NoCheck] /\ check[a].pc # "buy"
      /\ UNCHANGED <<ledger, call, activation, codes, req, looping, failures>>
  BY DEF SourceSilent, Retry, ledgerVars
<1>3. SourceMoves
  <2>1. CASE SourceSilent(a)
    BY <1>1, <2>1, TypeParts DEF SourceSilent, SourceMoves, RentedInv
  <2>2. CASE Retry(a)
    <3> DEFINE s == [source[a] EXCEPT !.state = IF @ = "ok" THEN "retry" ELSE @]
    <3>1. source' = [source EXCEPT ![a] = s]
      BY <2>2 DEF Retry
    <3>2. /\ s \in SourceRecord /\ s.code = source[a].code
          /\ s.state # source[a].state => source[a].state = "ok" /\ s.state = "retry"
      BY <1>1, TypeParts DEF SourceRecord, SourceState
    <3> HIDE DEF s
    <3> QED BY <1>1, <3>1, <3>2, TypeParts DEF SourceMoves, RentedInv
  <2> QED BY <2>1, <2>2
<1> QED BY <1>2, <1>3, NoCheckType, NoCheckFollows, CheckMoves

-----------------------------------------------------------------------------
(* Storing a code and starting to buy.                                      *)

\* A posting that has passed getUserById keeps what its queries have returned.
LEMMA CallReads ==
  ASSUME LedgerTypeOK, ReadInv, UNCHANGED ledger,
         NEW h \in Handler, NEW c \in Call,
         call' = [call EXCEPT ![h] = c],
         c.pc \in {"last", "frozen", "base", "insert"} => c.user \in User,
         c.pc \in {"frozen", "insert"} => c.seen \in 0..Len(ledger[c.user])
  PROVE  LedgerTypeOK' /\ ReadInv'
<1>1. LedgerTypeOK'
  BY DEF LedgerTypeOK
<1>2. \A g \in Handler : call'[g] = IF g = h THEN c ELSE call[g]
  BY DEF LedgerTypeOK
<1>3. ReadInv'
  BY <1>2 DEF ReadInv
<1> QED BY <1>1, <1>3

\* buy() takes the whole price: a price is a number of whole cents.
LEMMA WholePrice ==
  ASSUME NEW cost \in Nat PROVE Floor(-(cost * Scale)) = -cost
<1>1. Scale \in Nat \ {0}
  BY LedgerAssumption
<1>2. -(cost * Scale) = (-cost) * Scale
  BY <1>1
<1>3. ((-cost) * Scale) \div Scale = -cost
  BY <1>1
<1> QED BY <1>2, <1>3 DEF Floor

\* A check whose code is stored saves its entity, or charges first.
LEMMA CodeStoredStep ==
  ASSUME ChargesInv, NEW a \in Activation, CodeStored(a),
         check[a].pc \in {"code", "insert"},
         UNCHANGED <<activation, source, req, looping, failures>>,
         codes' \in [Activation -> Seq(ActivationCode)], CodesOnceInv',
         codes'[a] # << >>,
         \A b \in Activation \ {a} : codes'[b] = codes[b]
  PROVE  ChargesInv'
<1> USE ActivationsAssumption
<1>1. /\ ActivationsInv /\ ActivationsTypeOK /\ SpentInv /\ RentedInv /\ RequestInv
      /\ CheckedCodeInv /\ BuyingInv /\ NamesInv /\ LedgerTypeOK /\ ReadInv
  BY TypeParts DEF ChargesInv, ActivationsInv
<1>2. /\ check[a] \in Check /\ activation[a] \in ActivationRow
      /\ activation[a].status # "NONE" /\ activation[a].user \in User
      /\ call[a] = Idle /\ a \in Handler
  BY <1>1, TypeParts DEF CheckedCodeInv, RentedInv, BuyingInv
<1>3. PICK c \in Check :
        /\ check' = [check EXCEPT ![a] = c]
        /\ c.pc \in {"buy", "save"} /\ c.status = "WAIT_AGAIN"
        /\ c.transactionId = check[a].transactionId
        /\ c.pc = "buy" => /\ check[a].transactionId = 0
                           /\ Buy(a, activation[a].user, activation[a].cost * Scale)
        /\ c.pc = "save" => UNCHANGED ledgerVars
  <2>1. CASE NeedsCharge(a) /\ check' = [check EXCEPT ![a].pc = "buy", ![a].status = "WAIT_AGAIN"]
                           /\ Buy(a, activation[a].user, activation[a].cost * Scale)
    <3> DEFINE c == [check[a] EXCEPT !.pc = "buy", !.status = "WAIT_AGAIN"]
    <3>1. check' = [check EXCEPT ![a] = c]
      BY <2>1
    <3>2. /\ c \in Check /\ c.pc = "buy" /\ c.status = "WAIT_AGAIN"
          /\ c.transactionId = check[a].transactionId
      BY <1>2 DEF Check, ActivationStatus
    <3> HIDE DEF c
    <3> QED BY <2>1, <3>1, <3>2 DEF NeedsCharge
  <2>2. CASE check' = [check EXCEPT ![a].pc = "save", ![a].status = "WAIT_AGAIN"]
             /\ UNCHANGED ledgerVars
    <3> DEFINE c == [check[a] EXCEPT !.pc = "save", !.status = "WAIT_AGAIN"]
    <3>1. check' = [check EXCEPT ![a] = c]
      BY <2>2
    <3>2. /\ c \in Check /\ c.pc = "save" /\ c.status = "WAIT_AGAIN"
          /\ c.transactionId = check[a].transactionId
      BY <1>2 DEF Check, ActivationStatus
    <3> HIDE DEF c
    <3> QED BY <2>2, <3>1, <3>2
  <2> QED BY <2>1, <2>2 DEF CodeStored
<1>4. PICK d \in Call :
        /\ call' = [call EXCEPT ![a] = d] /\ UNCHANGED ledger
        /\ c.pc = "save" => d = Idle
        /\ c.pc = "buy" =>
             /\ d.pc = "last" /\ d.user = activation[a].user /\ d.amount = -activation[a].cost
             /\ d.type = "Buy" /\ d.outcome = "none" /\ d.row = 0
        /\ d.row = 0
  <2>1. CASE c.pc = "save"
    <3>1. call' = [call EXCEPT ![a] = Idle]
      BY <1>1, <1>2, <1>3, <2>1 DEF ledgerVars, LedgerTypeOK
    <3>2. Idle.row = 0 /\ UNCHANGED ledger
      BY <1>3, <2>1 DEF Idle, ledgerVars
    <3> QED BY <2>1, <3>1, <3>2, IdleType
  <2>2. CASE c.pc = "buy"
    <3> DEFINE d == Posting(activation[a].user, -activation[a].cost, "Buy", "last")
    <3>1. activation[a].cost \in Nat
      BY <1>2 DEF ActivationRow
    <3>2. call' = [call EXCEPT ![a] = d] /\ UNCHANGED ledger
      BY <1>3, <2>2, <3>1, WholePrice DEF Buy
    <3>3. d \in Call
      BY <1>2, <3>1, PostingType DEF TransactionType, Pc
    <3>4. /\ d.pc = "last" /\ d.user = activation[a].user /\ d.amount = -activation[a].cost
          /\ d.type = "Buy" /\ d.outcome = "none" /\ d.row = 0
      BY DEF Posting, Idle
    <3> HIDE DEF d
    <3> QED BY <2>2, <3>2, <3>3, <3>4
  <2> QED BY <1>3, <2>1, <2>2
<1>5. \A b \in Activation :
        /\ check'[b] = IF b = a THEN c ELSE check[b]
        /\ call'[b] = IF b = a THEN d ELSE call[b]
  BY <1>1, <1>3, <1>4, TypeParts DEF LedgerTypeOK
<1>6. ActivationsTypeOK' /\ ReadInv'
  <2>1. Idle.pc = "idle"
    BY DEF Idle
  <2>2. LedgerTypeOK' /\ ReadInv'
    BY <1>1, <1>2, <1>3, <1>4, <2>1, CallReads
  <2>3. check' \in [Activation -> Check]
    BY <1>1, <1>3, TypeParts
  <2> QED BY <1>1, <2>2, <2>3, TypeParts, TypePartsNext
<1>7. RentedInv' /\ RequestInv'
  BY <1>1 DEF RentedInv, RequestInv
<1>8. CheckedCodeInv'
  BY <1>1, <1>2, <1>3, <1>5 DEF CheckedCodeInv, CodeKnown
<1>9. BuyingInv'
  BY <1>1, <1>3, <1>4, <1>5 DEF BuyingInv, Buying
<1>10. NamesInv'
  <2>1. \A b \in Activation, t \in Nat : Names(b, t)' => Names(b, t)
    BY <1>3, <1>4, <1>5 DEF Names
  <2> QED BY <1>1, <1>4, <2>1, NamesKept
<1>11. ActivationsInv'
  BY <1>6, <1>7, <1>8, <1>9, <1>10 DEF ActivationsInv
<1>12. SpentInv'
  <2>1. IsFiniteSet(Rented') /\ failures' \in Nat /\ failures' = failures
    BY <1>1, TypeParts DEF SpentInv, Rented
  <2>2. ASSUME NEW b \in Activation, MayCharge(b)' PROVE MayCharge(b)
    BY <1>3, <1>5, <2>2 DEF MayCharge
  <2>3. \A u \in User, b \in Activation :
          /\ b \in Spent(u) => b \in Spent(u)'
          /\ b \in Delivered(u) => b \in Delivered(u)'
    BY <2>2 DEF Spent, Delivered
  <2> QED BY <1>1, <1>4, <1>11, <2>1, <2>3, SpentKept
<1> QED BY <1>11, <1>12 DEF ChargesInv

LEMMA FindCodeStep ==
  ASSUME ChargesInv, NEW a \in Activation, FindCode(a)
  PROVE  ChargesInv'
<1>1. /\ ActivationsTypeOK /\ RentedInv /\ CheckedCodeInv /\ CodesOnceInv
  BY DEF ChargesInv, ActivationsInv
<1>2. /\ check[a] \in Check /\ check[a].pc = "code" /\ activation[a].status # "NONE"
      /\ check[a].code \in ActivationCode
  BY <1>1, TypeParts DEF FindCode, CheckedCodeInv
<1>3. CASE CodeKnown(a) /\ CodeStored(a)
  <2>1. codes[a] # << >>
    BY <1>3 DEF CodeKnown, ToSet
  <2> QED BY <1>1, <1>2, <1>3, <2>1, CodeStoredStep, TypeParts DEF FindCode, CodesOnceInv
<1>4. CASE ~CodeKnown(a) /\ check' = [check EXCEPT ![a].pc = "insert"] /\ UNCHANGED ledgerVars
  <2> DEFINE c == [check[a] EXCEPT !.pc = "insert"]
  <2>1. /\ check' = [check EXCEPT ![a] = c]
        /\ UNCHANGED <<ledger, call, activation, codes, source, req, looping, failures>>
    BY <1>4 DEF FindCode, ledgerVars
  <2>2. /\ c \in Check /\ c.pc = "insert" /\ c.code = check[a].code
        /\ c.transactionId = check[a].transactionId
    BY <1>2 DEF Check
  <2> HIDE DEF c
  <2>3. c.transactionId # 0 => Names(a, c.transactionId)
    BY <2>2 DEF Names
  <2>4. c.transactionId = 0 => MayCharge(a)
    BY <1>2, <2>2 DEF MayCharge
  <2>5. Follows(a, c)
    BY <1>2, <1>4, <2>2, <2>3, <2>4 DEF Follows, CodeKnown
  <2>6. SourceMoves
    BY <1>1, <2>1, TypeParts DEF SourceMoves, RentedInv
  <2> QED BY <2>1, <2>2, <2>5, <2>6, CheckMoves
<1> QED BY <1>3, <1>4 DEF FindCode

LEMMA InsertCodeStep ==
  ASSUME ChargesInv, NEW a \in Activation, InsertCode(a)
  PROVE  ChargesInv'
<1> DEFINE code == check[a].code
           new == Append(codes[a], code)
<1>1. /\ ActivationsTypeOK /\ CheckedCodeInv /\ CodesOnceInv
  BY DEF ChargesInv, ActivationsInv
<1>2. /\ check[a].pc = "insert" /\ code \in ActivationCode /\ ~CodeKnown(a)
      /\ codes[a] \in Seq(ActivationCode)
      /\ codes' = [codes EXCEPT ![a] = new]
  BY <1>1, TypeParts DEF InsertCode, CheckedCodeInv
<1>3. /\ new \in Seq(ActivationCode) /\ Len(codes[a]) \in Nat
      /\ Len(new) = Len(codes[a]) + 1
      /\ \A i \in 1..Len(codes[a]) : new[i] = codes[a][i] /\ codes[a][i] # code
      /\ new[Len(codes[a]) + 1] = code
  BY <1>2, AppendProperties DEF CodeKnown, ToSet
<1> HIDE DEF new, code
<1>4. IsInjective(new)
  <2>1. IsInjective(codes[a]) /\ DOMAIN codes[a] = 1..Len(codes[a])
    BY <1>1, <1>2, LenProperties DEF CodesOnceInv
  <2>2. DOMAIN new = 1..(Len(codes[a]) + 1)
    BY <1>3, LenProperties
  <2> QED BY <1>3, <2>1, <2>2 DEF IsInjective
<1>5. /\ codes' \in [Activation -> Seq(ActivationCode)] /\ codes'[a] = new
      /\ \A b \in Activation \ {a} : codes'[b] = codes[b]
  BY <1>1, <1>2, <1>3, TypeParts
<1>6. CodesOnceInv'
  BY <1>1, <1>4, <1>5 DEF CodesOnceInv
<1>7. new # << >>
  BY <1>3
<1> QED BY <1>2, <1>5, <1>6, <1>7, CodeStoredStep DEF InsertCode

-----------------------------------------------------------------------------
(* The queries of buy().                                                    *)

\* A step of requests or of other checks does not undo what is known here: the
\* frame of the two kinds of queries.
LEMMA BuyFrame ==
  ASSUME ActivationsInv, UNCHANGED ownVars, LedgerTypeOK', ReadInv'
  PROVE  /\ ActivationsTypeOK' /\ RentedInv' /\ RequestInv' /\ CheckedCodeInv'
         /\ CodesOnceInv'
<1>1. ActivationsTypeOK /\ UNCHANGED <<activation, codes, source, check, req, looping, failures>>
  BY DEF ActivationsInv, ownVars
<1>2. ActivationsTypeOK'
  BY <1>1, TypeParts, TypePartsNext
<1> QED BY <1>1, <1>2
    DEF ActivationsInv, RentedInv, RequestInv, CheckedCodeInv, CodeKnown, CodesOnceInv

\* A posting in flight is a check's that waits for buy().
LEMMA BuyRunning ==
  ASSUME ActivationsInv, NEW a \in Activation, call[a].pc # "idle"
  PROVE  /\ check[a].pc = "buy" /\ call[a] \in Call /\ a \in Handler
         /\ activation[a].status # "NONE" /\ call[a].user \in User
         /\ call[a].user = activation[a].user
         /\ call[a].amount = -activation[a].cost /\ call[a].type = "Buy"
         /\ codes[a] # << >>
         /\ call[a].outcome # "Inserted" => call[a].row = 0
         /\ call[a].outcome = "Inserted" => call[a].pc = "returned" /\ call[a].row # 0
<1>1. Idle.pc = "idle"
  BY DEF Idle
<1>2. check[a].pc = "buy"
  BY <1>1 DEF ActivationsInv, BuyingInv
<1>3. activation[a].user \in User /\ activation[a].status # "NONE"
  BY <1>2 DEF ActivationsInv, CheckedCodeInv, RentedInv
<1>4. call[a] \in Call /\ a \in Handler
  BY TypeParts, ActivationsAssumption DEF ActivationsInv, LedgerTypeOK
<1> QED BY <1>2, <1>3, <1>4 DEF ActivationsInv, BuyingInv

\* A query that only reads moves the posting on, or ends it without a row.
LEMMA ReadingStep ==
  ASSUME ChargesInv, NEW a \in Activation, NEW f,
         ReadLast(a) \/ ReadFrozen(a, f) \/ ReadBase(a), UNCHANGED ownVars
  PROVE  ChargesInv'
<1>1. ActivationsInv /\ SpentInv /\ LedgerTypeOK /\ ReadInv /\ BuyingInv /\ NamesInv
  BY TypeParts DEF ChargesInv, ActivationsInv
<1>2. /\ call[a].pc \in {"last", "frozen", "base"} /\ UNCHANGED ledger
  BY DEF ReadLast, ReadFrozen, ReadBase
<1>3. /\ check[a].pc = "buy" /\ call[a] \in Call /\ a \in Handler
      /\ call[a].user \in User /\ call[a].outcome # "Inserted" /\ call[a].row = 0
  BY <1>1, <1>2, BuyRunning
<1>4. PICK c \in Call :
        /\ call' = [call EXCEPT ![a] = c]
        /\ c.user = call[a].user /\ c.amount = call[a].amount /\ c.type = call[a].type
        /\ c.pc \in Buying \ {"last"} /\ c.outcome # "Inserted" /\ c.row = 0
        /\ c.pc \in {"frozen", "insert"} => c.seen \in 0..Len(ledger[c.user])
  <2>0. Len(ledger[call[a].user]) \in Nat
    BY <1>1, <1>3 DEF LedgerTypeOK
  <2>1. CASE ReadLast(a)
    <3> DEFINE c == [call[a] EXCEPT !.pc = "frozen", !.seen = Len(ledger[call[a].user])]
    <3>1. /\ c \in Call /\ c.pc = "frozen" /\ c.seen = Len(ledger[call[a].user])
          /\ c.user = call[a].user /\ c.amount = call[a].amount /\ c.type = call[a].type
          /\ c.outcome = call[a].outcome /\ c.row = call[a].row
      BY <1>3, <2>0 DEF Call, Pc
    <3>2. call' = [call EXCEPT ![a] = c]
      BY <2>1 DEF ReadLast
    <3> HIDE DEF c
    <3>3. c.seen \in 0..Len(ledger[c.user])
      BY <2>0, <3>1
    <3>4. c.pc \in Buying \ {"last"} /\ c.outcome # "Inserted" /\ c.row = 0
      BY <1>3, <3>1 DEF Buying
    <3> QED BY <3>1, <3>2, <3>3, <3>4
  <2>2. CASE ReadFrozen(a, f)
    <3> DEFINE b == [call[a] EXCEPT !.pc = "base"]
               n == Returning(call[a], "NoMoney", 0)
    <3>1. /\ b \in Call /\ b.pc = "base"
          /\ b.user = call[a].user /\ b.amount = call[a].amount /\ b.type = call[a].type
          /\ b.outcome = call[a].outcome /\ b.row = call[a].row
      BY <1>3 DEF Call, Pc
    <3>2. /\ n \in Call /\ n.pc = "returned"
          /\ n.user = call[a].user /\ n.amount = call[a].amount /\ n.type = call[a].type
          /\ n.outcome = "NoMoney" /\ n.row = 0
      BY <1>3 DEF Call, Pc, Outcome, Returning
    <3>3. call' = [call EXCEPT ![a] = b] \/ call' = [call EXCEPT ![a] = n]
      BY <2>2 DEF ReadFrozen
    <3> HIDE DEF b, n
    <3> QED BY <1>3, <3>1, <3>2, <3>3 DEF Buying
  <2>3. CASE ReadBase(a)
    <3> DEFINE c == [call[a] EXCEPT !.pc = "insert", !.seen = Len(ledger[call[a].user])]
    <3>1. /\ c \in Call /\ c.pc = "insert" /\ c.seen = Len(ledger[call[a].user])
          /\ c.user = call[a].user /\ c.amount = call[a].amount /\ c.type = call[a].type
          /\ c.outcome = call[a].outcome /\ c.row = call[a].row
      BY <1>3, <2>0 DEF Call, Pc
    <3>2. call' = [call EXCEPT ![a] = c]
      BY <2>3 DEF ReadBase
    <3> HIDE DEF c
    <3>3. c.seen \in 0..Len(ledger[c.user])
      BY <2>0, <3>1
    <3>4. c.pc \in Buying \ {"last"} /\ c.outcome # "Inserted" /\ c.row = 0
      BY <1>3, <3>1 DEF Buying
    <3> QED BY <3>1, <3>2, <3>3, <3>4
  <2> QED BY <2>1, <2>2, <2>3
<1>5. UNCHANGED <<activation, codes, source, check, req, looping, failures>>
  BY DEF ownVars
<1>6. \A b \in Activation : call'[b] = IF b = a THEN c ELSE call[b]
  BY <1>1, <1>4, ActivationsAssumption DEF LedgerTypeOK
<1>7. LedgerTypeOK' /\ ReadInv'
  BY <1>1, <1>2, <1>3, <1>4, CallReads DEF Buying
<1>8. /\ ActivationsTypeOK' /\ RentedInv' /\ RequestInv' /\ CheckedCodeInv'
      /\ CodesOnceInv'
  BY <1>1, <1>7, BuyFrame
<1>9. BuyingInv'
  BY <1>1, <1>3, <1>4, <1>5, <1>6 DEF BuyingInv
<1>10. NamesInv'
  <2>1. \A b \in Activation, t \in Nat : Names(b, t)' => Names(b, t)
    BY <1>4, <1>5, <1>6 DEF Names
  <2> QED BY <1>1, <1>2, <1>5, <2>1, NamesKept
<1>11. ActivationsInv'
  BY <1>7, <1>8, <1>9, <1>10 DEF ActivationsInv
<1>12. SpentInv'
  <2>1. IsFiniteSet(Rented') /\ failures' \in Nat /\ failures' = failures
    BY <1>1, <1>5, TypeParts, ActivationsAssumption DEF SpentInv, Rented, ActivationsInv
  <2>2. ASSUME NEW b \in Activation, MayCharge(b)' PROVE MayCharge(b)
    BY <1>3, <1>5, <1>6, <2>2 DEF MayCharge
  <2>3. \A u \in User, b \in Activation :
          /\ b \in Spent(u) => b \in Spent(u)'
          /\ b \in Delivered(u) => b \in Delivered(u)'
    BY <1>5, <2>2 DEF Spent, Delivered
  <2> QED BY <1>1, <1>2, <1>11, <2>1, <2>3, SpentKept
<1> QED BY <1>11, <1>12 DEF ChargesInv

\* The row buy() inserts is new: nothing names it but this check, and the
\* activation is spent from now on.
LEMMA ChargeStep ==
  ASSUME ChargesInv, NEW a \in Activation, Insert(a), UNCHANGED ownVars
  PROVE  ChargesInv'
<1>1. ActivationsInv /\ SpentInv /\ LedgerTypeOK /\ ReadInv /\ BuyingInv /\ NamesInv
  BY TypeParts DEF ChargesInv, ActivationsInv
<1>2. call[a].pc = "insert"
  BY DEF Insert
<1>3. /\ check[a].pc = "buy" /\ call[a] \in Call /\ a \in Handler
      /\ activation[a].status # "NONE"
      /\ call[a].user \in User /\ call[a].user = activation[a].user
      /\ call[a].amount = -activation[a].cost /\ call[a].type = "Buy"
      /\ codes[a] # << >> /\ call[a].outcome # "Inserted" /\ call[a].row = 0
  BY <1>1, <1>2, BuyRunning
<1>4. PICK u \in User : u = call[a].user
  BY <1>3
<1>5. PICK n \in Nat : n = Len(ledger[u])
  BY <1>1 DEF LedgerTypeOK
<1>6. PICK r \in Row :
        /\ r = NewRow(call[a])
        /\ r.amount = call[a].amount
        /\ ledger' = [ledger EXCEPT ![u] = Append(ledger[u], r)]
        /\ call' = [call EXCEPT ![a] = Returning(call[a], "Inserted", n + 1)]
  BY <1>1, <1>3, <1>4, <1>5, InsertType
<1>7. r.type = "Buy"
  BY <1>3, <1>6 DEF NewRow
<1>8. /\ ledger[u] \in Seq(Row)
      /\ ledger'[u] = Append(ledger[u], r)
      /\ \A v \in User \ {u} : ledger'[v] = ledger[v]
  BY <1>1, <1>6 DEF LedgerTypeOK
<1>9. /\ Len(ledger'[u]) = n + 1 /\ ledger'[u][n + 1] = r
      /\ \A i \in 1..n : ledger'[u][i] = ledger[u][i]
  BY <1>5, <1>8, AppendProperties
<1> DEFINE c == Returning(call[a], "Inserted", n + 1)
<1>10. /\ c.pc = "returned" /\ c.outcome = "Inserted" /\ c.row = n + 1
       /\ c.user = call[a].user /\ c.amount = call[a].amount /\ c.type = call[a].type
  BY <1>3 DEF Returning, Call
<1>11. \A b \in Activation : call'[b] = IF b = a THEN c ELSE call[b]
  BY <1>1, <1>6, ActivationsAssumption DEF LedgerTypeOK
<1> HIDE DEF c
<1>12. UNCHANGED <<activation, codes, source, check, req, looping, failures>>
  BY DEF ownVars
<1>13. LedgerTypeOK' /\ ReadInv'
  BY <1>1, <1>3, InsertReads
<1>14. /\ ActivationsTypeOK' /\ RentedInv' /\ RequestInv' /\ CheckedCodeInv'
       /\ CodesOnceInv'
  BY <1>1, <1>13, BuyFrame
<1>15. BuyingInv'
  BY <1>1, <1>3, <1>10, <1>11, <1>12 DEF BuyingInv, Buying
<1>16. NamesInv'
  <2>1. ASSUME NEW b \in Activation, NEW t \in Nat, Names(b, t)'
        PROVE  Names(b, t) \/ (b = a /\ t = n + 1)
    BY <1>10, <1>11, <1>12, <2>1 DEF Names
  <2>2. ASSUME NEW b \in Activation, NEW t \in Nat, Names(b, t)
        PROVE  /\ activation[b].status # "NONE" /\ activation[b].user \in User
               /\ t \in 1..Len(ledger[activation[b].user])
               /\ ledger[activation[b].user][t].type = "Buy"
               /\ ledger[activation[b].user][t].amount = -activation[b].cost
               /\ activation[b].user = u => t # n + 1
    BY <1>1, <1>5, <2>2 DEF NamesInv, ActivationsInv, RentedInv
  <2>3. ASSUME NEW b \in Activation, NEW t \in Nat, Names(b, t)'
        PROVE  /\ activation[b].status # "NONE"
               /\ t \in 1..Len(ledger'[activation[b].user])
               /\ ledger'[activation[b].user][t].type = "Buy"
               /\ ledger'[activation[b].user][t].amount = -activation[b].cost
    <3>1. CASE Names(b, t) /\ activation[b].user = u
      BY <1>5, <1>9, <2>2, <3>1
    <3>2. CASE Names(b, t) /\ activation[b].user # u
      BY <1>8, <2>2, <3>2
    <3>3. CASE b = a /\ t = n + 1
      BY <1>3, <1>4, <1>6, <1>7, <1>9, <3>3
    <3> QED BY <2>1, <2>3, <3>1, <3>2, <3>3
  <2>4. ASSUME NEW b \in Activation, NEW d \in Activation, NEW t \in Nat,
               Names(b, t)', Names(d, t)', activation[b].user = activation[d].user
        PROVE  b = d
    BY <1>1, <1>3, <1>4, <2>1, <2>2, <2>4 DEF NamesInv
  <2> QED BY <1>12, <2>3, <2>4 DEF NamesInv
<1>17. ActivationsInv'
  BY <1>13, <1>14, <1>15, <1>16 DEF ActivationsInv
<1>18. SpentInv'
  <2>1. IsFiniteSet(Rented')
    BY <1>1, <1>12 DEF SpentInv, Rented
  <2>2. \A v \in User : Delivered(v)' = Delivered(v)
    BY <1>12 DEF Delivered
  <2>3. ASSUME NEW v \in User \ {u} PROVE BuyRows(v)' = BuyRows(v) /\ Spent(v)' = Spent(v)
    <3>1. BuyRows(v)' = BuyRows(v)
      BY <1>8 DEF BuyRows
    <3>2. \A b \in Activation : activation[b].user = v => (MayCharge(b)' <=> MayCharge(b))
      BY <1>3, <1>4, <1>11, <1>12 DEF MayCharge
    <3> QED BY <1>12, <3>1, <3>2 DEF Spent, Delivered
  <2>4. BuyRows(u)' = BuyRows(u) \cup {n + 1} /\ n + 1 \notin BuyRows(u)
    BY SMTT(30), <1>5, <1>7, <1>9 DEF BuyRows
  <2>5. Spent(u)' = Spent(u) \cup {a} /\ a \notin Spent(u)
    <3>1. MayCharge(a) /\ ~MayCharge(a)'
      BY <1>3, <1>10, <1>11, <1>12 DEF MayCharge
    <3>2. \A b \in Activation \ {a} : MayCharge(b)' <=> MayCharge(b)
      BY <1>11, <1>12 DEF MayCharge
    <3> QED BY <1>3, <1>4, <1>12, <3>1, <3>2 DEF Spent, Delivered
  <2>6. Cardinality(BuyRows(u)')
          <= Cardinality(Spent(u)') + failures * Cardinality(Delivered(u))
    <3>1. /\ IsFiniteSet(Spent(u)) /\ Cardinality(Spent(u)) \in Nat
          /\ IsFiniteSet(BuyRows(u)) /\ Cardinality(BuyRows(u)) \in Nat
          /\ Cardinality(Delivered(u)) \in Nat
      BY <1>1, SpentFinite DEF ActivationsInv, SpentInv
    <3>2. Cardinality(BuyRows(u))
            <= Cardinality(Spent(u)) + failures * Cardinality(Delivered(u))
      BY <1>1 DEF SpentInv
    <3>3. Cardinality(BuyRows(u)') = Cardinality(BuyRows(u)) + 1
      BY <2>4, <3>1, FS_AddElement
    <3>4. Cardinality(Spent(u)') = Cardinality(Spent(u)) + 1
      BY <2>5, <3>1, FS_AddElement
    <3>5. failures * Cardinality(Delivered(u)) \in Nat
      BY <1>1, <3>1, TypeParts, ActivationsAssumption, LossGrows DEF ActivationsInv
    <3> QED BY <3>1, <3>2, <3>3, <3>4, <3>5
  <2> QED BY <1>1, <1>12, <2>1, <2>2, <2>3, <2>6 DEF SpentInv
<1> QED BY <1>17, <1>18 DEF ChargesInv

LEMMA BuyStepKeeps ==
  ASSUME ChargesInv, NEW a \in Activation, BuyStep(a)
  PROVE  ChargesInv'
  BY ReadingStep, ChargeStep DEF BuyStep, PostingStep

-----------------------------------------------------------------------------
(* Saves of an entity.                                                      *)

\* A save over an existing row, of a status no save can reopen it with and of a
\* transaction the activation names already: what is known of rows.
LEMMA RowSaved ==
  ASSUME ActivationsInv, NEW a \in Activation, activation[a].status # "NONE",
         NEW status \in Final \cup {"WAIT_AGAIN"}, NEW t \in Nat,
         Save(a, status, t)
  PROVE  /\ activation' \in [Activation -> ActivationRow]
         /\ \A b \in Activation :
              /\ activation'[b].user = activation[b].user
              /\ activation'[b].cost = activation[b].cost
              /\ activation'[b].status = "NONE" <=> activation[b].status = "NONE"
              /\ activation'[b].status # "SMS_RECIEVED"
         /\ \A b \in Activation \ {a} : activation'[b] = activation[b]
         /\ activation'[a].status = status /\ activation'[a].transactionId = t
         /\ Rented' = Rented
<1> DEFINE x == [activation[a] EXCEPT !.status = status, !.transactionId = t]
<1>1. activation \in [Activation -> ActivationRow] /\ RentedInv
  BY TypeParts DEF ActivationsInv
<1>2. activation' = [activation EXCEPT ![a] = x]
  BY DEF Save
<1>3. /\ x \in ActivationRow /\ x.status = status /\ x.transactionId = t
      /\ x.user = activation[a].user /\ x.cost = activation[a].cost
  BY <1>1 DEF ActivationRow, ActivationStatus, Final
<1>4. x.status \notin {"NONE", "SMS_RECIEVED"}
  BY <1>3 DEF Final
<1> HIDE DEF x
<1>5. activation' \in [Activation -> ActivationRow]
      /\ \A b \in Activation : activation'[b] = IF b = a THEN x ELSE activation[b]
  BY <1>1, <1>2, <1>3
<1>6. Rented' = Rented
  BY <1>4, <1>5 DEF Rented
<1> QED BY <1>1, <1>3, <1>4, <1>5, <1>6 DEF RentedInv

\* Conjuncts that a save over an existing row keeps, whoever saves.
LEMMA SaveKeeps ==
  ASSUME ActivationsInv, NEW a \in Activation, activation[a].status # "NONE",
         NEW status \in Final \cup {"WAIT_AGAIN"}, NEW t \in Nat,
         Save(a, status, t), UNCHANGED <<codes, source>>
  PROVE  RentedInv' /\ CodesOnceInv'
  BY RowSaved DEF ActivationsInv, RentedInv, CodesOnceInv

LEMMA SaveClosedStep ==
  ASSUME ChargesInv, NEW r \in Request, SaveClosed(r)
  PROVE  ChargesInv'
<1>1. /\ ActivationsInv /\ ActivationsTypeOK /\ SpentInv /\ RequestInv /\ CheckedCodeInv
      /\ BuyingInv /\ NamesInv
  BY DEF ChargesInv, ActivationsInv
<1>2. PICK a \in Activation : a = req[r].target
  BY <1>1 DEF RequestInv, SaveClosed
<1>3. PICK t \in Nat : t = req[r].transactionId
  BY <1>1, TypeParts DEF RequestRecord
<1>4. PICK status \in {"CANCELLED", "FINISHED"} : status = req[r].status
  BY <1>1 DEF RequestInv, SaveClosed
<1>5. status \in Final /\ activation[a].status # "NONE" /\ Save(a, status, t)
  BY <1>1, <1>2, <1>3, <1>4 DEF RequestInv, SaveClosed, Final
<1>6. /\ req' = [req EXCEPT ![r] = NoReq]
      /\ UNCHANGED <<ledger, call, codes, source, check, looping, failures>>
  BY DEF SaveClosed, ledgerVars
<1>7. /\ activation' \in [Activation -> ActivationRow]
      /\ \A b \in Activation :
           /\ activation'[b].user = activation[b].user
           /\ activation'[b].cost = activation[b].cost
           /\ activation'[b].status = "NONE" <=> activation[b].status = "NONE"
      /\ \A b \in Activation \ {a} : activation'[b] = activation[b]
      /\ activation'[a].status = status /\ activation'[a].transactionId = t
      /\ Rented' = Rented
  BY <1>1, <1>5, RowSaved
<1>8. /\ \A p \in Request : req'[p] = IF p = r THEN NoReq ELSE req[p]
      /\ req' \in [Request -> RequestRecord]
      /\ NoReq.pc = "none" /\ NoReq.transactionId = 0
  BY <1>1, <1>6, TypeParts, NoReqType DEF NoReq
<1>9. ActivationsTypeOK' /\ ReadInv'
  <2>1. LedgerTypeOK' /\ ReadInv'
    BY <1>1, <1>6, TypeParts DEF LedgerTypeOK, ActivationsInv, ReadInv
  <2> QED BY <1>1, <1>6, <1>7, <1>8, <2>1, TypeParts, TypePartsNext
<1>10. RentedInv' /\ CodesOnceInv'
  BY <1>1, <1>5, <1>6, SaveKeeps
<1>11. RequestInv'
  BY <1>1, <1>6, <1>7, <1>8 DEF RequestInv
<1>12. CheckedCodeInv' /\ BuyingInv'
  BY <1>1, <1>6, <1>7 DEF CheckedCodeInv, CodeKnown, BuyingInv
<1>13. NamesInv'
  <2>1. t # 0 => Names(a, t)
    BY <1>2, <1>3 DEF Names
  <2>2. \A b \in Activation, i \in Nat : Names(b, i)' => Names(b, i)
    BY <1>6, <1>7, <1>8, <2>1 DEF Names
  <2> QED BY <1>1, <1>6, <1>7, <2>2, NamesKept
<1>14. ActivationsInv'
  BY <1>9, <1>10, <1>11, <1>12, <1>13 DEF ActivationsInv
<1>15. SpentInv'
  <2>1. IsFiniteSet(Rented') /\ failures' \in Nat /\ failures' = failures
    BY <1>1, <1>6, <1>7, TypeParts, ActivationsAssumption DEF SpentInv
  <2>2. ASSUME NEW b \in Activation, MayCharge(b)' PROVE MayCharge(b)
    BY <1>5, <1>6, <1>7, <2>2 DEF MayCharge
  <2>3. \A u \in User, b \in Activation :
          /\ b \in Spent(u) => b \in Spent(u)'
          /\ b \in Delivered(u) => b \in Delivered(u)'
    BY <1>6, <1>7, <2>2 DEF Spent, Delivered
  <2> QED BY <1>1, <1>6, <1>14, <2>1, <2>3, SpentKept
<1> QED BY <1>14, <1>15 DEF ChargesInv

\* A check that saves has a status no save reopens a row with.
LEMMA SaveCheckedStep ==
  ASSUME ChargesInv, NEW a \in Activation, SaveChecked(a)
  PROVE  ChargesInv'
<1>1. /\ ActivationsInv /\ ActivationsTypeOK /\ SpentInv /\ RequestInv /\ CheckedCodeInv
      /\ BuyingInv /\ NamesInv
  BY DEF ChargesInv, ActivationsInv
<1>2. check[a] \in Check /\ check[a].pc = "save"
  BY <1>1, TypeParts DEF SaveChecked
<1>3. PICK t \in Nat : t = check[a].transactionId
  BY <1>2 DEF Check
<1>4. PICK status \in Final \cup {"WAIT_AGAIN"} : status = check[a].status
  BY <1>1, <1>2 DEF CheckedCodeInv
<1>5. activation[a].status # "NONE" /\ Save(a, status, t)
  BY <1>1, <1>2, <1>3, <1>4 DEF CheckedCodeInv, SaveChecked
<1>6. UNCHANGED <<ledger, call, codes, source, req, looping, failures>>
  BY DEF SaveChecked, ledgerVars
<1>7. PICK c \in Check :
        /\ check' = [check EXCEPT ![a] = c] /\ c.pc \in {"retry", "off"}
        /\ c.transactionId \in {0, t}
  <2> DEFINE c == [check[a] EXCEPT !.pc = "retry"]
  <2>1. check' = [check EXCEPT ![a] = c] \/ check' = [check EXCEPT ![a] = NoCheck]
    BY DEF SaveChecked
  <2>2. c \in Check /\ c.pc = "retry" /\ c.transactionId = t
    BY <1>2, <1>3 DEF Check
  <2>3. NoCheck \in Check /\ NoCheck.pc = "off" /\ NoCheck.transactionId = 0
    BY NoCheckType DEF NoCheck
  <2> HIDE DEF c
  <2> QED BY <2>1, <2>2, <2>3
<1>8. /\ check' \in [Activation -> Check]
      /\ \A b \in Activation : check'[b] = IF b = a THEN c ELSE check[b]
  BY <1>1, <1>7, TypeParts
<1>9. /\ activation' \in [Activation -> ActivationRow]
      /\ \A b \in Activation :
           /\ activation'[b].user = activation[b].user
           /\ activation'[b].cost = activation[b].cost
           /\ activation'[b].status = "NONE" <=> activation[b].status = "NONE"
      /\ \A b \in Activation \ {a} : activation'[b] = activation[b]
      /\ activation'[a].status = status /\ activation'[a].transactionId = t
      /\ Rented' = Rented
  BY <1>1, <1>5, RowSaved
<1>10. ActivationsTypeOK' /\ ReadInv'
  <2>1. LedgerTypeOK' /\ ReadInv'
    BY <1>1, <1>6, TypeParts DEF LedgerTypeOK, ActivationsInv, ReadInv
  <2> QED BY <1>1, <1>6, <1>8, <1>9, <2>1, TypeParts, TypePartsNext
<1>11. RentedInv' /\ CodesOnceInv'
  BY <1>1, <1>5, <1>6, SaveKeeps
<1>12. RequestInv'
  BY <1>1, <1>6, <1>9 DEF RequestInv
<1>13. CheckedCodeInv' /\ BuyingInv'
  BY <1>1, <1>2, <1>6, <1>7, <1>8, <1>9 DEF CheckedCodeInv, CodeKnown, BuyingInv
<1>14. NamesInv'
  <2>1. t # 0 => Names(a, t)
    BY <1>3 DEF Names
  <2>2. \A b \in Activation, i \in Nat : Names(b, i)' => Names(b, i)
    BY <1>6, <1>7, <1>8, <1>9, <2>1 DEF Names
  <2> QED BY <1>1, <1>6, <1>9, <2>2, NamesKept
<1>15. ActivationsInv'
  BY <1>10, <1>11, <1>12, <1>13, <1>14 DEF ActivationsInv
<1>16. SpentInv'
  <2>1. IsFiniteSet(Rented') /\ failures' \in Nat /\ failures' = failures
    BY <1>1, <1>6, <1>9, TypeParts, ActivationsAssumption DEF SpentInv
  <2>2. ASSUME NEW b \in Activation, MayCharge(b)' PROVE MayCharge(b)
    BY <1>2, <1>3, <1>4, <1>6, <1>7, <1>8, <1>9, <2>2 DEF MayCharge
  <2>3. \A u \in User, b \in Activation :
          /\ b \in Spent(u) => b \in Spent(u)'
          /\ b \in Delivered(u) => b \in Delivered(u)'
    BY <1>6, <1>9, <2>2 DEF Spent, Delivered
  <2> QED BY <1>1, <1>6, <1>15, <2>1, <2>3, SpentKept
<1> QED BY <1>15, <1>16 DEF ChargesInv

\* The check whose buy() is back writes the row it inserted, or none.
LEMMA SaveBoughtStep ==
  ASSUME ChargesInv, NEW a \in Activation, SaveBought(a)
  PROVE  ChargesInv'
<1>1. /\ ActivationsInv /\ ActivationsTypeOK /\ SpentInv /\ RequestInv /\ CheckedCodeInv
      /\ BuyingInv /\ NamesInv /\ LedgerTypeOK /\ ReadInv
  BY TypeParts DEF ChargesInv, ActivationsInv
<1>2. /\ check[a] \in Check /\ check[a].pc = "buy" /\ call[a].pc = "returned"
      /\ call[a] \in Call /\ a \in Handler
  BY <1>1, TypeParts, ActivationsAssumption DEF SaveBought, Return, LedgerTypeOK
<1>3. PICK t \in Nat : t = call[a].row
  BY <1>2 DEF Call
<1>4. PICK status \in Final \cup {"WAIT_AGAIN"} : status = check[a].status
  BY <1>1, <1>2 DEF CheckedCodeInv
<1>5. activation[a].status # "NONE" /\ Save(a, status, t)
  BY <1>1, <1>2, <1>3, <1>4 DEF CheckedCodeInv, SaveBought, Charged
<1>6. /\ call' = [call EXCEPT ![a] = Idle]
      /\ UNCHANGED <<ledger, codes, source, req, looping, failures>>
  BY DEF SaveBought, Return
<1>7. PICK c \in Check :
        /\ check' = [check EXCEPT ![a] = c] /\ c.pc = "retry"
        /\ c.transactionId = check[a].transactionId
  <2> DEFINE c == [check[a] EXCEPT !.pc = "retry"]
  <2>1. check' = [check EXCEPT ![a] = c]
    BY DEF SaveBought
  <2>2. c \in Check /\ c.pc = "retry" /\ c.transactionId = check[a].transactionId
    BY <1>2 DEF Check
  <2> HIDE DEF c
  <2> QED BY <2>1, <2>2
<1>8. /\ check' \in [Activation -> Check]
      /\ \A b \in Activation : check'[b] = IF b = a THEN c ELSE check[b]
      /\ \A b \in Activation : call'[b] = IF b = a THEN Idle ELSE call[b]
  BY <1>1, <1>6, <1>7, TypeParts, ActivationsAssumption DEF LedgerTypeOK
<1>9. /\ activation' \in [Activation -> ActivationRow]
      /\ \A b \in Activation :
           /\ activation'[b].user = activation[b].user
           /\ activation'[b].cost = activation[b].cost
           /\ activation'[b].status = "NONE" <=> activation[b].status = "NONE"
      /\ \A b \in Activation \ {a} : activation'[b] = activation[b]
      /\ activation'[a].status = status /\ activation'[a].transactionId = t
      /\ Rented' = Rented
  BY <1>1, <1>5, RowSaved
<1>10. Idle.pc = "idle" /\ Idle.row = 0 /\ Idle.outcome = "none"
  BY DEF Idle
<1>11. ActivationsTypeOK' /\ ReadInv'
  <2>1. LedgerTypeOK' /\ ReadInv'
    BY <1>1, <1>2, <1>6, <1>10, IdleType, CallReads
  <2> QED BY <1>1, <1>6, <1>8, <1>9, <2>1, TypeParts, TypePartsNext
<1>12. RentedInv' /\ CodesOnceInv'
  BY <1>1, <1>5, <1>6, SaveKeeps
<1>13. RequestInv'
  BY <1>1, <1>6, <1>9 DEF RequestInv
<1>14. CheckedCodeInv' /\ BuyingInv'
  BY <1>1, <1>2, <1>6, <1>7, <1>8, <1>9 DEF CheckedCodeInv, CodeKnown, BuyingInv
<1>15. NamesInv'
  <2>1. t # 0 => Names(a, t)
    BY <1>3 DEF Names
  <2>2. \A b \in Activation, i \in Nat : Names(b, i)' => Names(b, i)
    BY <1>6, <1>7, <1>8, <1>9, <1>10, <2>1 DEF Names
  <2> QED BY <1>1, <1>6, <1>9, <2>2, NamesKept
<1>16. ActivationsInv'
  BY <1>11, <1>12, <1>13, <1>14, <1>15 DEF ActivationsInv
<1>17. SpentInv'
  <2>1. IsFiniteSet(Rented') /\ failures' \in Nat /\ failures' = failures
    BY <1>1, <1>6, <1>9, TypeParts, ActivationsAssumption DEF SpentInv
  <2>2. call[a].outcome = "Inserted" => t # 0
    BY <1>1, <1>2, <1>3 DEF BuyingInv
  <2>3. ASSUME NEW b \in Activation, MayCharge(b)' PROVE MayCharge(b)
    BY <1>2, <1>6, <1>7, <1>8, <1>9, <2>2, <2>3 DEF MayCharge
  <2>4. \A u \in User, b \in Activation :
          /\ b \in Spent(u) => b \in Spent(u)'
          /\ b \in Delivered(u) => b \in Delivered(u)'
    BY <1>6, <1>9, <2>3 DEF Spent, Delivered
  <2> QED BY <1>1, <1>6, <1>16, <2>1, <2>4, SpentKept
<1> QED BY <1>16, <1>17 DEF ChargesInv

\* A new row freezes its cost; nobody else had its number.
LEMMA SaveNewStep ==
  ASSUME ChargesInv, NEW r \in Request, SaveNew(r)
  PROVE  ChargesInv'
<1>1. /\ ActivationsInv /\ ActivationsTypeOK /\ SpentInv /\ RentedInv /\ RequestInv
      /\ CheckedCodeInv /\ BuyingInv /\ NamesInv
  BY DEF ChargesInv, ActivationsInv
<1>2. PICK a \in Activation : a = req[r].target
  BY <1>1 DEF RequestInv, SaveNew
<1>3. /\ req[r] \in RequestRecord /\ req[r].pc = "saveNew" /\ req[r].user \in User
      /\ activation[a].status = "NONE" /\ source[a].state # "none"
      /\ \A p \in Request \ {r} : req[p].pc = "saveNew" => req[p].target # a
  BY <1>1, <1>2, TypeParts DEF RequestInv, SaveNew
<1> DEFINE x == [status |-> "WAIT_CODE", user |-> req[r].user, cost |-> req[r].cost,
                 transactionId |-> 0]
<1>4. /\ x \in ActivationRow /\ x.status = "WAIT_CODE" /\ x.user \in User
      /\ x.transactionId = 0
  BY <1>3 DEF ActivationRow, RequestRecord, ActivationStatus
<1>5. /\ activation' = [activation EXCEPT ![a] = x]
      /\ req' = [req EXCEPT ![r] = NoReq]
      /\ UNCHANGED <<ledger, call, codes, source, check, looping, failures>>
  BY <1>2 DEF SaveNew, ledgerVars
<1> HIDE DEF x
<1>6. /\ \A p \in Request : req'[p] = IF p = r THEN NoReq ELSE req[p]
      /\ req' \in [Request -> RequestRecord]
      /\ NoReq.pc = "none" /\ NoReq.transactionId = 0
  BY <1>1, <1>5, TypeParts, NoReqType DEF NoReq
<1>7. /\ \A b \in Activation : activation'[b] = IF b = a THEN x ELSE activation[b]
      /\ activation' \in [Activation -> ActivationRow]
  BY <1>1, <1>4, <1>5, TypeParts
<1>8. ActivationsTypeOK' /\ ReadInv'
  <2>1. LedgerTypeOK' /\ ReadInv'
    BY <1>1, <1>5, TypeParts DEF LedgerTypeOK, ActivationsInv, ReadInv
  <2> QED BY <1>1, <1>5, <1>6, <1>7, <2>1, TypeParts, TypePartsNext
<1>9. RentedInv' /\ CodesOnceInv'
  BY <1>1, <1>3, <1>4, <1>5, <1>7 DEF ActivationsInv, RentedInv, CodesOnceInv
<1>10. RequestInv'
  BY <1>1, <1>3, <1>4, <1>5, <1>6, <1>7 DEF RequestInv
<1>11. check[a].pc = "off"
  BY <1>1, <1>3 DEF CheckedCodeInv
<1>12. CheckedCodeInv' /\ BuyingInv'
  BY <1>1, <1>4, <1>5, <1>7, <1>11 DEF CheckedCodeInv, CodeKnown, BuyingInv
<1>13. NamesInv'
  <2>1. \A b \in Activation, i \in Nat : Names(b, i)' => Names(b, i)
    BY <1>4, <1>5, <1>6, <1>7 DEF Names
  <2>2. \A b \in Activation :
          activation[b].status # "NONE" => activation'[b] = activation[b]
    BY <1>3, <1>7
  <2> QED BY <1>1, <1>5, <2>1, <2>2, NamesKept
<1>14. ActivationsInv'
  BY <1>8, <1>9, <1>10, <1>12, <1>13 DEF ActivationsInv
<1>15. SpentInv'
  <2>1. Rented' = Rented \cup {a}
    BY <1>4, <1>7 DEF Rented
  <2>2. IsFiniteSet(Rented')
    BY <1>1, <2>1, FS_AddElement DEF SpentInv
  <2>3. ASSUME NEW u \in User, NEW b \in Activation, b \in Delivered(u)
        PROVE  (b \in Spent(u) => b \in Spent(u)') /\ b \in Delivered(u)'
    <3>1. b # a
      BY <1>1, <1>3, <2>3, LedgerAssumption DEF Delivered, RentedInv
    <3> QED BY <1>5, <1>7, <2>3, <3>1 DEF Spent, Delivered, MayCharge
  <2>4. failures' \in Nat /\ failures' = failures
    BY <1>1, <1>5, TypeParts, ActivationsAssumption
  <2>5. \A u \in User, b \in Activation :
          /\ b \in Spent(u) => b \in Spent(u)'
          /\ b \in Delivered(u) => b \in Delivered(u)'
    BY <2>3 DEF Spent
  <2> QED BY <1>1, <1>5, <1>14, <2>2, <2>4, <2>5, SpentKept
<1> QED BY <1>14, <1>15 DEF ChargesInv

-----------------------------------------------------------------------------
(* Failures.                                                                *)

\* A failure may leave every delivered activation to be charged again, and none
\* more than once.
LEMMA SpentFails ==
  ASSUME ChargesInv, failures' = failures + 1, UNCHANGED <<ledger, activation, codes>>
  PROVE  SpentInv'
<1>1. /\ failures \in Nat /\ RentedInv /\ LedgerTypeOK /\ SpentInv /\ IsFiniteSet(Rented)
  BY TypeParts, ActivationsAssumption DEF ChargesInv, ActivationsInv, SpentInv
<1>2. IsFiniteSet(Rented')
  BY <1>1 DEF Rented
<1>3. ASSUME NEW u \in User
      PROVE  Cardinality(BuyRows(u)')
               <= Cardinality(Spent(u)') + failures' * Cardinality(Delivered(u)')
  <2>1. BuyRows(u)' = BuyRows(u) /\ Delivered(u)' = Delivered(u)
    BY DEF BuyRows, Delivered
  <2>2. /\ Cardinality(BuyRows(u)) \in Nat /\ Cardinality(Spent(u)) \in Nat
        /\ IsFiniteSet(Delivered(u)) /\ Cardinality(Delivered(u)) \in Nat
        /\ Cardinality(Spent(u)) <= Cardinality(Delivered(u))
    BY <1>1, SpentFinite
  <2>3. Cardinality(Spent(u)') \in Nat
    <3>1. Spent(u)' \subseteq Delivered(u)
      BY <2>1 DEF Spent
    <3> QED BY <2>2, <3>1, FS_Subset, FS_CardinalityType
  <2>4. /\ failures * Cardinality(Delivered(u)) \in Nat
        /\ (failures + 1) * Cardinality(Delivered(u))
             = failures * Cardinality(Delivered(u)) + Cardinality(Delivered(u))
    BY <1>1, <2>2, LossGrows
  <2>5. Cardinality(BuyRows(u))
          <= Cardinality(Spent(u)) + failures * Cardinality(Delivered(u))
    BY <1>1 DEF SpentInv
  <2> QED BY <2>1, <2>2, <2>3, <2>4, <2>5
<1> QED BY <1>2, <1>3 DEF SpentInv

\* Checks, requests and postings that end leave nothing behind in memory.
LEMMA WorkEnds ==
  ASSUME ActivationsInv, UNCHANGED <<ledger, activation, codes, source>>,
         looping' \in BOOLEAN, failures' \in 0..MaxFailures,
         check' \in [Activation -> Check], req' \in [Request -> RequestRecord],
         call' \in [Handler -> Call],
         \A h \in Handler : call'[h] \in {call[h], Idle},
         \A r \in Request : req'[r] \in {req[r], NoReq},
         \A a \in Activation :
           \/ check'[a] = check[a] /\ call'[a] = call[a]
           \/ check'[a] = NoCheck /\ call'[a] = Idle
  PROVE  ActivationsInv'
<1>1. /\ ActivationsTypeOK /\ LedgerTypeOK /\ ReadInv /\ RentedInv /\ RequestInv
      /\ CheckedCodeInv /\ BuyingInv /\ NamesInv /\ CodesOnceInv
  BY TypeParts DEF ActivationsInv
<1>2. /\ Idle.pc = "idle" /\ Idle.row = 0
      /\ NoCheck.pc = "off" /\ NoCheck.transactionId = 0
      /\ NoReq.pc = "none" /\ NoReq.transactionId = 0
  BY DEF Idle, NoCheck, NoReq
<1>3. ActivationsTypeOK' /\ ReadInv'
  <2>1. LedgerTypeOK' /\ ReadInv'
    BY <1>1, <1>2 DEF LedgerTypeOK, ReadInv
  <2> QED BY <1>1, <2>1, TypeParts, TypePartsNext
<1>4. RentedInv' /\ CodesOnceInv'
  BY <1>1 DEF RentedInv, CodesOnceInv
<1>5. RequestInv'
  BY <1>1, <1>2 DEF RequestInv
<1>6. CheckedCodeInv' /\ BuyingInv'
  BY <1>1, <1>2 DEF CheckedCodeInv, CodeKnown, BuyingInv
<1>7. NamesInv'
  <2>1. \A b \in Activation, i \in Nat : Names(b, i)' => Names(b, i)
    BY <1>2 DEF Names
  <2> QED BY <1>1, <2>1, NamesKept
<1> QED BY <1>3, <1>4, <1>5, <1>6, <1>7 DEF ActivationsInv

LEMMA FailureStep ==
  ASSUME ChargesInv, LoopDies \/ Crash \/ \E a \in Activation : CheckFails(a)
  PROVE  ChargesInv'
<1>1. ActivationsInv /\ ActivationsTypeOK /\ LedgerTypeOK
  BY TypeParts DEF ChargesInv, ActivationsInv
<1>2. /\ failures' = failures + 1 /\ failures < MaxFailures
      /\ UNCHANGED <<ledger, activation, codes, source>> /\ looping' \in BOOLEAN
  BY <1>1, TypeParts DEF LoopDies, Crash, CheckFails, ledgerVars
<1>3. failures' \in 0..MaxFailures
  BY <1>1, <1>2, TypeParts, ActivationsAssumption
<1>4. SpentInv'
  BY <1>2, SpentFails
<1>5. /\ check \in [Activation -> Check] /\ req \in [Request -> RequestRecord]
      /\ call \in [Handler -> Call] /\ Activation \subseteq Handler
      /\ \A a \in Activation : a \in Handler
  BY <1>1, TypeParts, ActivationsAssumption DEF LedgerTypeOK
<1>6. CASE LoopDies
  BY <1>1, <1>2, <1>3, <1>4, <1>5, <1>6, WorkEnds DEF LoopDies, ledgerVars, ChargesInv
<1>7. CASE Crash
  BY <1>1, <1>2, <1>3, <1>4, <1>5, <1>7, NoCheckType, NoReqType, IdleType, WorkEnds
  DEF Crash, ChargesInv
<1>8. ASSUME NEW a \in Activation, CheckFails(a) PROVE ChargesInv'
  BY <1>1, <1>2, <1>3, <1>4, <1>5, <1>8, NoCheckType, IdleType, WorkEnds
  DEF CheckFails, ChargesInv
<1> QED BY <1>6, <1>7, <1>8

-----------------------------------------------------------------------------
(* The theorems.                                                            *)

LEMMA ActivationsStepKeeps ==
  ASSUME ChargesInv, [ActivationsNext]_vars
  PROVE  ChargesInv'
<1>1. CASE UNCHANGED vars
  <2>1. UNCHANGED <<ledger, call, activation, codes, source, check, req, looping, failures>>
    BY <1>1 DEF vars, ledgerVars, ownVars
  <2>2. SourceMoves /\ check' \in [Activation -> Check]
    BY <2>1, TypeParts DEF SourceMoves, ChargesInv, ActivationsInv, RentedInv
  <2> QED BY <2>1, <2>2, ChecksMove
<1>2. ASSUME NEW r \in Request, RequestStep(r) PROVE ChargesInv'
  BY <1>2, CreateStep, CheckMoneyStep, GetNumberStep, SaveNewStep, FindToCloseStep,
     SourceClosesStep, SaveClosedStep, RequestFailsStep
  DEF RequestStep
<1>3. ASSUME NEW a \in Activation, CheckStep(a) PROVE ChargesInv'
  BY <1>3, FindCodeStep, InsertCodeStep, BuyStepKeeps, SaveBoughtStep, SaveCheckedStep,
     CheckEndStep
  DEF CheckStep
<1>4. ASSUME NEW a \in Activation, SmsArrives(a) \/ SourceCancels(a) PROVE ChargesInv'
  BY <1>4, SourceStep
<1>5. ASSUME NEW a \in Activation, GetStatus(a) PROVE ChargesInv'
  BY <1>5, GetStatusStep
<1>6. ASSUME NEW a \in Activation, SourceSilent(a) PROVE ChargesInv'
  BY <1>6, CheckEndStep
<1>7. CASE StartRound
  BY <1>7, StartRoundStep
<1>8. CASE LoopDies \/ Crash \/ \E a \in Activation : CheckFails(a)
  BY <1>8, FailureStep
<1> QED BY <1>1, <1>2, <1>3, <1>4, <1>5, <1>6, <1>7, <1>8
        DEF ActivationsNext, ActivationsStep

LEMMA ChargesInvAlways == ActivationsSpec => []ChargesInv
<1>1. ActivationsInit => ChargesInv
  BY ActivationsInitInv
<1>2. ChargesInv /\ [ActivationsNext]_vars => ChargesInv'
  BY ActivationsStepKeeps
<1> QED BY <1>1, <1>2, PTL DEF ActivationsSpec

\* Rows, codes, checks, requests and postings are well formed, whatever stale
\* entity is saved and whenever a query rejects or the process dies.
THEOREM ActivationsTypeCorrect == ActivationsSpec => []ActivationsTypeOK
<1>1. ChargesInv => ActivationsTypeOK
  BY DEF ChargesInv, ActivationsInv
<1> QED BY <1>1, ChargesInvAlways, PTL

\* A code is stored once, however often rounds, retries and restarts read it.
THEOREM CodesStoredOnce == ActivationsSpec => []CodesOnceInv
<1>1. ChargesInv => CodesOnceInv
  BY DEF ChargesInv, ActivationsInv
<1> QED BY <1>1, ChargesInvAlways, PTL

\* The transaction of an activation is a Buy of its user for its cost, and of
\* no other activation, although stale saves may write an older one back.
THEOREM ChargeOfActivation == ActivationsSpec => []ChargeInv
<1>1. ChargesInv => ChargeInv
  <2> SUFFICES ASSUME ChargesInv, NEW a \in Activation,
                      activation[a].transactionId # 0
               PROVE  LET t == activation[a].transactionId
                          rows == ledger[activation[a].user] IN
                      /\ t \in 1..Len(rows)
                      /\ rows[t].type = "Buy" /\ rows[t].amount = -activation[a].cost
                      /\ \A b \in Activation \ {a} :
                           activation[b].user = activation[a].user
                             => activation[b].transactionId # t
    BY DEF ChargeInv
  <2>1. NamesInv /\ activation[a].transactionId \in Nat
    BY TypeParts DEF ChargesInv, ActivationsInv, ActivationRow
  <2>2. \A b \in Activation :
          activation[b].transactionId = activation[a].transactionId
            => Names(b, activation[a].transactionId)
    BY DEF Names
  <2> QED BY <2>1, <2>2 DEF NamesInv
<1> QED BY <1>1, ChargesInvAlways, PTL

\* A user pays at most once for each activation that has received a code, and at
\* most once more for each after a failure: every charge has an activation that is
\* charged no more, or a failure that lost its trace.
THEOREM ChargedOnce == ActivationsSpec => []ChargedOnceInv
<1>1. ChargesInv => ChargedOnceInv
  <2> SUFFICES ASSUME ChargesInv, NEW u \in User
               PROVE  Cardinality(BuyRows(u)) <= (failures + 1) * Cardinality(Delivered(u))
    BY DEF ChargedOnceInv
  <2>1. /\ failures \in Nat /\ RentedInv /\ LedgerTypeOK /\ SpentInv /\ IsFiniteSet(Rented)
    BY TypeParts, ActivationsAssumption DEF ChargesInv, ActivationsInv, SpentInv
  <2>2. /\ Cardinality(BuyRows(u)) \in Nat /\ Cardinality(Spent(u)) \in Nat
        /\ Cardinality(Delivered(u)) \in Nat
        /\ Cardinality(Spent(u)) <= Cardinality(Delivered(u))
    BY <2>1, SpentFinite
  <2>3. Cardinality(BuyRows(u))
          <= Cardinality(Spent(u)) + failures * Cardinality(Delivered(u))
    BY <2>1 DEF SpentInv
  <2>4. /\ failures * Cardinality(Delivered(u)) \in Nat
        /\ (failures + 1) * Cardinality(Delivered(u))
             = failures * Cardinality(Delivered(u)) + Cardinality(Delivered(u))
    BY <2>1, <2>2, LossGrows
  <2> QED BY <2>2, <2>3, <2>4
<1> QED BY <1>1, ChargesInvAlways, PTL

\* Money an activation no longer freezes stays released: no stale entity that a
\* user's request or a check saves makes an old row wait for its first code again.
THEOREM ReleasedForGood == ActivationsSpec => ReleasedOnce
<1>1. ChargesInv /\ [ActivationsNext]_vars
        => [\A a \in Activation :
              activation'[a].status = "WAIT_CODE"
                => activation[a].status \in {"NONE", "WAIT_CODE"}]_vars
  <2> SUFFICES ASSUME ChargesInv, ActivationsNext, NEW a \in Activation,
                      activation'[a].status = "WAIT_CODE"
               PROVE  activation[a].status \in {"NONE", "WAIT_CODE"}
    BY Zenon
  <2>1. ActivationsInv /\ RequestInv /\ CheckedCodeInv
    BY DEF ChargesInv, ActivationsInv
  <2>2. CASE UNCHANGED activation
    BY <2>2
  <2>3. ASSUME NEW r \in Request, SaveNew(r)
        PROVE  activation[a].status \in {"NONE", "WAIT_CODE"}
    BY <2>1, <2>3 DEF SaveNew, RequestInv
  <2>4. ASSUME NEW b \in Activation, activation[b].status # "NONE",
               NEW status \in Final \cup {"WAIT_AGAIN"}, NEW t \in Nat, Save(b, status, t)
        PROVE  activation[a].status \in {"NONE", "WAIT_CODE"}
    BY <2>1, <2>4, RowSaved DEF Final
  <2>5. ASSUME NEW r \in Request, SaveClosed(r)
        PROVE  activation[a].status \in {"NONE", "WAIT_CODE"}
    <3>1. /\ req[r].target \in Activation /\ activation[req[r].target].status # "NONE"
          /\ req[r].status \in Final /\ req[r].transactionId \in Nat
      BY <2>1, <2>5, TypeParts
      DEF SaveClosed, RequestInv, ActivationsInv, RequestRecord, Final
    <3> QED BY <2>4, <2>5, <3>1 DEF SaveClosed
  <2>6. ASSUME NEW b \in Activation, SaveBought(b) \/ SaveChecked(b)
        PROVE  activation[a].status \in {"NONE", "WAIT_CODE"}
    <3>1. /\ activation[b].status # "NONE" /\ check[b].status \in Final \cup {"WAIT_AGAIN"}
          /\ check[b].transactionId \in Nat /\ Charged(b) \in Nat
      BY <2>1, <2>6, TypeParts, ActivationsAssumption
      DEF SaveBought, SaveChecked, CheckedCodeInv, ActivationsInv, Check, Charged,
          LedgerTypeOK, Call
    <3> QED BY <2>4, <2>6, <3>1 DEF SaveBought, SaveChecked
  <2>7. \/ UNCHANGED activation
        \/ \E r \in Request : SaveNew(r) \/ SaveClosed(r)
        \/ \E b \in Activation : SaveBought(b) \/ SaveChecked(b)
    BY DEF ActivationsNext, ActivationsStep, RequestStep, CheckStep, StartRound, LoopDies,
           Crash, Create, CheckMoney, GetNumber, FindToClose, SourceCloses, RequestFails,
           SmsArrives, SourceCancels, GetStatus, FindCode, InsertCode, BuyStep, ownVars,
           Retry, SourceSilent, CheckFails
  <2> QED BY <2>2, <2>3, <2>5, <2>6, <2>7
<1> QED BY <1>1, ChargesInvAlways, PTL DEF ActivationsSpec, ReleasedOnce

=============================================================================
