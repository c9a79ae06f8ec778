---------------------------- MODULE OrdersProofs ----------------------------
(***************************************************************************)
(* Theorems about Orders, for all users, handlers, amounts and bounds.     *)
(***************************************************************************)
EXTENDS Orders, LedgerProofs, SequenceTheorems, FiniteSetTheorems

-----------------------------------------------------------------------------
(* The inductive invariant.                                                 *)

\* The postings a request may be waiting for.
Running == {"last", "frozen", "base", "insert", "returned"}

\* Every payment and every request serves an order that exists, unless it was
\* forced; and only a request that waits for pay() has a posting in flight, one
\* for the user of its order and for the money it was started with.
ServingInv ==
  /\ \A p \in 1..Len(payments) : payments[p].order \in 1..Len(orders)
  /\ \A h \in Handler :
       LET r == request[h]
           c == call[h]
       IN  /\ r.pc = "none" => r.order = 0
           /\ r.pc # "none" =>
                IF r.payment = 0 THEN r.order \in disturbed
                                 ELSE r.order \in 1..Len(orders)
           /\ r.pc # "pay" => c = Idle
           /\ r.pc = "pay" =>
                /\ r.order \in 1..Len(orders)
                /\ c.pc \in Running
                /\ c.user = orders[r.order].user
                /\ c.amount = Floor(r.money)
                /\ c.type = "Payment"

\* The posting of h has inserted its row, and its order does not show it yet.
Holds(h) == call[h].outcome = "Inserted"

Paid(o) == orders[o].status = "PAID"

\* A row that is held is a Payment row for the amount of its posting, and no
\* other request and no paid order has it.
HeldInv ==
  \A h \in Handler :
    LET c == call[h]
        rows == ledger[c.user]
    IN  Holds(h) =>
          /\ c.pc = "returned"
          /\ c.row \in 1..Len(rows)
          /\ rows[c.row].type = "Payment"
          /\ rows[c.row].amount = c.amount
          /\ \A g \in Handler \ {h} :
               Holds(g) /\ call[g].user = c.user => call[g].row # c.row
          /\ \A o \in 1..Len(orders) :
               Paid(o) /\ orders[o].user = c.user
                 => orders[o].transactionId # c.row

RowsInv == HeldInv /\ PaidInv /\ OneOrderPerRowInv

OrdersInv == OrdersTypeOK /\ PostingInv /\ ServingInv /\ RowsInv

\* An order that was not disturbed is served by one request at a time, and is
\* not paid while its money is being posted.
AloneInv ==
  /\ \A g, h \in Handler :
       /\ request[g].pc # "none" /\ request[h].pc # "none"
       /\ request[g].order = request[h].order /\ request[g].order \notin disturbed
       => g = h
  /\ \A h \in Handler :
       request[h].pc = "pay" /\ request[h].order \notin disturbed
         => ~Paid(request[h].order)

\* None of u's orders was disturbed.
Undisturbed(u) == \A o \in disturbed \cap (1..Len(orders)) : orders[o].user # u

\* Order o shows row i, or a request is about to write it there.
Owns(o, i) ==
  \/ Paid(o) /\ orders[o].transactionId = i
  \/ \E h \in Handler : request[h].order = o /\ Holds(h) /\ call[h].row = i

\* Every Payment row of a user whose orders were not disturbed has its order.
OwnedInv ==
  \A u \in User : Undisturbed(u) =>
    \A i \in PaymentRows(u) :
      \E o \in 1..Len(orders) : orders[o].user = u /\ Owns(o, i)

OnceInv == OrdersInv /\ AloneInv /\ OwnedInv

-----------------------------------------------------------------------------
(* Type correctness and the postings.                                       *)

LEMMA OrdersInitInv == OrdersInit => OnceInv
<1> SUFFICES ASSUME OrdersInit PROVE OnceInv
  OBVIOUS
<1>1. PostingInv /\ LedgerTypeOK
  BY TypeInit DEF OrdersInit, PostingInv
<1>2. OrdersTypeOK
  BY <1>1, OrdersAssumption, EmptySeq
  DEF OrdersInit, OrdersTypeOK, Completion, NoRequest
<1>3. /\ Len(orders) = 0 /\ Len(payments) = 0
      /\ \A u \in User : Len(ledger[u]) = 0
      /\ \A h \in Handler : request[h] = NoRequest /\ call[h] = Idle
  BY DEF OrdersInit, LedgerInit
<1>4. ServingInv
  BY <1>3 DEF ServingInv, NoRequest
<1>5. RowsInv
  BY <1>3 DEF RowsInv, HeldInv, Holds, Idle, PaidInv, OneOrderPerRowInv
<1>6. AloneInv /\ OwnedInv
  BY <1>3 DEF AloneInv, OwnedInv, NoRequest, PaymentRows
<1> QED BY <1>1, <1>2, <1>4, <1>5, <1>6 DEF OnceInv, OrdersInv

\* Starting pay() for an order, and the end of a request.
LEMMA PayKeepsPosting ==
  ASSUME PostingInv, NEW h \in Handler, NEW u \in User, NEW m \in Int, Pay(h, u, m)
  PROVE  PostingInv'
<1> DEFINE c == Posting(u, Floor(m), "Payment", "last")
<1>1. c \in Call
  BY FloorType, PostingType DEF Pc, TransactionType
<1>2. c.pc = "last" /\ c.user = u
  BY DEF Posting, Idle
<1> QED BY <1>1, <1>2, CallOnlyStep DEF Pay

LEMMA EndKeepsPosting ==
  ASSUME PostingInv, NEW h \in Handler,
         call' = [call EXCEPT ![h] = Idle], UNCHANGED ledger
  PROVE  PostingInv'
<1>1. Idle.pc = "idle"
  BY DEF Idle
<1> QED BY <1>1, IdleType, CallOnlyStep

\* A query of a posting is a step of the ledger, and it either inserts the row
\* or leaves the rows alone and the posting for the same user and money.
LEMMA QueryStep ==
  ASSUME PostingInv, NEW h \in Handler, NEW f \in Frozen, PostingStep(h, f)
  PROVE  /\ PostingInv'
         /\ \/ Insert(h)
            \/ \E c \in Call :
                 /\ UNCHANGED ledger
                 /\ call' = [call EXCEPT ![h] = c]
                 /\ c.user = call[h].user /\ c.type = call[h].type
                 /\ c.amount = call[h].amount
                 /\ c.pc \in Running
                 /\ c.outcome \in {call[h].outcome, "NoMoney"}
                 /\ call[h].pc # "returned"
<1>1. PostingInv'
  BY PostingNext DEF LedgerNext
<1>2. call[h] \in Call
  BY DEF PostingInv, LedgerTypeOK
<1>3. CASE ReadLast(h)
  <2>1. call[h].user \in User /\ Len(ledger[call[h].user]) \in Nat
    BY <1>3 DEF PostingInv, LedgerTypeOK, ReadInv, ReadLast
  <2> QED BY <1>1, <1>2, <1>3, <2>1 DEF ReadLast, Running, Call, Pc
<1>4. CASE ReadFrozen(h, f)
  <2>1. CASE Covered(call[h], f)
    BY <1>1, <1>2, <1>4, <2>1 DEF ReadFrozen, Running, Call, Pc
  <2>2. CASE ~Covered(call[h], f)
    <3>1. Returning(call[h], "NoMoney", 0) \in Call
      BY <1>2, ReturningType DEF Outcome
    <3> QED BY <1>1, <1>2, <1>4, <2>2, <3>1
        DEF ReadFrozen, Running, Call, Pc, Returning
  <2> QED BY <2>1, <2>2
<1>5. CASE ReadBase(h)
  <2>1. call[h].user \in User /\ Len(ledger[call[h].user]) \in Nat
    BY <1>5 DEF PostingInv, LedgerTypeOK, ReadInv, ReadBase
  <2> QED BY <1>1, <1>2, <1>5, <2>1 DEF ReadBase, Running, Call, Pc
<1> QED BY <1>1, <1>3, <1>4, <1>5 DEF PostingStep

-----------------------------------------------------------------------------
(* Orders, payments and requests, action by action.                         *)

LEMMA CreateOrderStep ==
  ASSUME OnceInv, NEW u \in User, NEW m \in Money, CreateOrder(u, m)
  PROVE  OnceInv'
<1> DEFINE new == [user |-> u, amount |-> Ceil(m), status |-> "WAIT_PAY",
                   transactionId |-> 0, paymentId |-> 0]
<1>1. OrdersInv /\ OrdersTypeOK /\ PostingInv /\ ServingInv /\ RowsInv
  BY DEF OnceInv, OrdersInv
<1>2. /\ orders' = Append(orders, new)
      /\ UNCHANGED <<ledger, call, payments, request, disturbed, failures>>
  BY DEF CreateOrder, ledgerVars
<1>3. new \in Order
  <2>1. Ceil(m) \in Int
    BY LedgerAssumption DEF Ceil
  <2> QED BY <2>1 DEF Order, OrderStatus
<1>4. /\ orders \in Seq(Order) /\ Len(orders) \in Nat
      /\ orders' \in Seq(Order) /\ Len(orders') = Len(orders) + 1
      /\ \A o \in 1..Len(orders) : orders'[o] = orders[o]
      /\ orders'[Len(orders) + 1] = new
  BY <1>1, <1>2, <1>3, AppendProperties DEF OrdersTypeOK
<1>5. /\ \A o \in 1..Len(orders) : o \in 1..Len(orders')
      /\ \A o \in 1..Len(orders') : o \in 1..Len(orders) \/ o = Len(orders) + 1
      /\ new.status # "PAID"
  BY <1>4
<1> HIDE DEF new
<1>6. OrdersTypeOK' /\ PostingInv'
  BY <1>1, <1>2, <1>4
  DEF OrdersTypeOK, LedgerTypeOK, PostingInv, ReadInv, CheckedInv
<1>7. ServingInv'
  BY <1>1, <1>2, <1>4, <1>5 DEF ServingInv
<1>8. HeldInv'
  BY <1>1, <1>2, <1>4, <1>5 DEF RowsInv, HeldInv, Holds, Paid
<1>9. PaidInv'
  BY <1>1, <1>2, <1>4, <1>5 DEF RowsInv, PaidInv
<1>10. OneOrderPerRowInv'
  BY <1>1, <1>2, <1>4, <1>5 DEF RowsInv, OneOrderPerRowInv
<1>11. AloneInv'
  BY <1>1, <1>2, <1>4, <1>5 DEF OnceInv, AloneInv, ServingInv, Paid
<1>12. OwnedInv'
  <2> SUFFICES ASSUME NEW v \in User, Undisturbed(v)', NEW i \in PaymentRows(v)'
               PROVE  \E o \in 1..Len(orders') : orders'[o].user = v /\ Owns(o, i)'
    BY DEF OwnedInv
  <2>1. Undisturbed(v) /\ i \in PaymentRows(v)
    BY <1>2, <1>4, <1>5 DEF Undisturbed, PaymentRows
  <2>2. PICK o \in 1..Len(orders) : orders[o].user = v /\ Owns(o, i)
    BY <2>1 DEF OnceInv, OwnedInv
  <2> QED BY <1>2, <1>4, <1>5, <2>2 DEF Owns, Paid, Holds
<1> QED BY <1>6, <1>7, <1>8, <1>9, <1>10, <1>11, <1>12
        DEF OnceInv, OrdersInv, RowsInv

\* Steps that touch neither the rows, the postings nor the orders keep what is
\* said of them, if they end no request that is posting and do not turn one
\* order into another.
LEMMA RowsUntouched ==
  ASSUME OnceInv, UNCHANGED <<ledger, call, orders>>, disturbed \subseteq disturbed',
         \A h \in Handler : Holds(h) => request'[h].order = request[h].order
  PROVE  PostingInv' /\ LedgerTypeOK' /\ RowsInv' /\ OwnedInv'
<1>1. PostingInv' /\ LedgerTypeOK'
  BY DEF OnceInv, OrdersInv, PostingInv, LedgerTypeOK, ReadInv, CheckedInv
<1>2. RowsInv'
  BY DEF OnceInv, OrdersInv, RowsInv, HeldInv, Holds, Paid, PaidInv, OneOrderPerRowInv
<1>3. OwnedInv'
  <2> SUFFICES ASSUME NEW v \in User, Undisturbed(v)', NEW i \in PaymentRows(v)'
               PROVE  \E o \in 1..Len(orders') : orders'[o].user = v /\ Owns(o, i)'
    BY DEF OwnedInv
  <2>1. Undisturbed(v) /\ i \in PaymentRows(v)
    BY DEF Undisturbed, PaymentRows
  <2>2. PICK o \in 1..Len(orders) : orders[o].user = v /\ Owns(o, i)
    BY <2>1 DEF OnceInv, OwnedInv
  <2> QED BY <2>2 DEF Owns, Paid, Holds
<1> QED BY <1>1, <1>2, <1>3

LEMMA PayFormStep ==
  ASSUME OnceInv, NEW o \in 1..MaxOrders, NEW m \in Money, PayForm(o, m)
  PROVE  OnceInv'
<1> DEFINE new == [order |-> o, money |-> m, answered |-> FALSE]
<1>1. OrdersTypeOK /\ ServingInv
  BY DEF OnceInv, OrdersInv
<1>2. /\ payments' = Append(payments, new)
      /\ UNCHANGED <<ledger, call, orders, request, disturbed, failures>>
      /\ o \in 1..Len(orders)
  BY DEF PayForm, ledgerVars
<1>3. new \in Payment
  BY OrdersAssumption DEF Payment
<1>4. /\ payments' \in Seq(Payment) /\ Len(payments) \in Nat
      /\ Len(payments') = Len(payments) + 1
      /\ \A p \in 1..Len(payments) : payments'[p] = payments[p]
      /\ payments'[Len(payments) + 1].order = o
  BY <1>1, <1>2, <1>3, AppendProperties DEF OrdersTypeOK
<1>5. PostingInv' /\ LedgerTypeOK' /\ RowsInv' /\ OwnedInv'
  BY <1>2, RowsUntouched
<1>6. OrdersTypeOK'
  BY <1>1, <1>2, <1>4, <1>5 DEF OrdersTypeOK
<1>7. ServingInv'
  BY <1>1, <1>2, <1>4 DEF ServingInv
<1>8. AloneInv'
  BY <1>2 DEF OnceInv, AloneInv, Paid
<1> QED BY <1>5, <1>6, <1>7, <1>8 DEF OnceInv, OrdersInv

\* A request that starts or ends without a posting.
LEMMA RequestStep ==
  ASSUME OnceInv, NEW h \in Handler, NEW r \in Completion,
         request[h].pc # "pay", r.pc # "pay",
         request' = [request EXCEPT ![h] = r],
         UNCHANGED <<ledger, call, orders, payments, failures>>,
         disturbed \subseteq disturbed', disturbed' \subseteq Nat,
         r.pc = "none" => r.order = 0,
         r.pc # "none" => IF r.payment = 0 THEN r.order \in disturbed'
                                           ELSE r.order \in 1..Len(orders),
         r.pc # "none" /\ r.order \notin disturbed'
           => \A g \in Handler \ {h} :
                request[g].pc # "none" => request[g].order # r.order
  PROVE  OnceInv'
<1>1. OrdersTypeOK /\ ServingInv /\ AloneInv
  BY DEF OnceInv, OrdersInv
<1>2. \A g \in Handler : request'[g] = IF g = h THEN r ELSE request[g]
  BY <1>1 DEF OrdersTypeOK
<1>0. \A o : o \in disturbed => o \in disturbed'
  OBVIOUS
<1>3. ~Holds(h)
  BY <1>1 DEF ServingInv, Holds, Idle
<1>4. PostingInv' /\ LedgerTypeOK' /\ RowsInv' /\ OwnedInv'
  BY <1>2, <1>3, RowsUntouched
<1>5. OrdersTypeOK'
  BY <1>1, <1>4 DEF OrdersTypeOK
<1>6. ServingInv'
  <2>1. \A p \in 1..Len(payments') : payments'[p].order \in 1..Len(orders')
    BY <1>1 DEF ServingInv
  <2> SUFFICES ASSUME NEW g \in Handler
               PROVE  /\ request'[g].pc = "none" => request'[g].order = 0
                      /\ request'[g].pc # "none" =>
                           IF request'[g].payment = 0
                             THEN request'[g].order \in disturbed'
                             ELSE request'[g].order \in 1..Len(orders')
                      /\ request'[g].pc # "pay" => call'[g] = Idle
                      /\ request'[g].pc = "pay" =>
                           /\ request'[g].order \in 1..Len(orders')
                           /\ call'[g].pc \in Running
                           /\ call'[g].user = orders'[request'[g].order].user
                           /\ call'[g].amount = Floor(request'[g].money)
                           /\ call'[g].type = "Payment"
    BY <2>1 DEF ServingInv
  <2>2. CASE g = h
    BY <1>1, <1>2, <2>2 DEF ServingInv
  <2>3. CASE g # h
    BY <1>0, <1>1, <1>2, <2>3 DEF ServingInv
  <2> QED BY <2>2, <2>3
<1>7. AloneInv'
  <2>1. ASSUME NEW f \in Handler, NEW g \in Handler,
               request'[f].pc # "none", request'[g].pc # "none",
               request'[f].order = request'[g].order,
               request'[f].order \notin disturbed'
        PROVE  f = g
    <3>1. CASE f # h /\ g # h
      BY <1>0, <1>1, <1>2, <2>1, <3>1 DEF AloneInv
    <3>2. CASE f = h /\ g # h
      BY <1>2, <2>1, <3>2
    <3>3. CASE f # h /\ g = h
      BY <1>2, <2>1, <3>3
    <3> QED BY <3>1, <3>2, <3>3
  <2>2. ASSUME NEW g \in Handler, request'[g].pc = "pay",
               request'[g].order \notin disturbed'
        PROVE  ~Paid(request[g].order)'
    BY ZenonT(30), <1>1, <1>2, <2>2 DEF AloneInv, Paid
  <2> QED BY <2>1, <2>2 DEF AloneInv
<1> QED BY <1>4, <1>5, <1>6, <1>7 DEF OnceInv, OrdersInv

LEMMA NotifyStep ==
  ASSUME OnceInv, NEW h \in Handler, NEW p \in 1..MaxPayments, Notify(h, p)
  PROVE  OnceInv'
<1> DEFINE r == [pc |-> "get", order |-> payments[p].order,
                 payment |-> p, money |-> payments[p].money]
<1>1. OrdersTypeOK /\ ServingInv
  BY DEF OnceInv, OrdersInv
<1>2. /\ p \in 1..Len(payments) /\ p \in Nat \ {0}
      /\ payments[p] \in Payment /\ payments[p].order \in 1..Len(orders)
  BY <1>1, ElementOfSeq DEF OrdersTypeOK, ServingInv, Notify
<1>3. payments[p].money \in Int /\ payments[p].order \in Nat \ {0}
  BY <1>2, LedgerAssumption DEF Payment
<1>4. r \in Completion
  BY <1>2, <1>3 DEF Completion
<1>5. /\ request[h].pc = "none"
      /\ request' = [request EXCEPT ![h] = r]
      /\ disturbed' = IF BeingServed(r.order) THEN disturbed \cup {r.order}
                                             ELSE disturbed
      /\ UNCHANGED <<ledger, call, orders, payments, failures>>
  BY DEF Notify, ledgerVars
<1>6. disturbed \subseteq disturbed' /\ disturbed' \subseteq Nat
  BY <1>1, <1>3, <1>5 DEF OrdersTypeOK
<1>7. r.order \notin disturbed' => \A g \in Handler : request[g].order # r.order
  BY <1>5 DEF BeingServed
<1> QED BY <1>2, <1>4, <1>5, <1>6, <1>7, RequestStep

LEMMA ForceConfirmStep ==
  ASSUME OnceInv, NEW h \in Handler, NEW o \in Forced, ForceConfirm(h, o)
  PROVE  OnceInv'
<1> DEFINE r == [pc |-> "get", order |-> o, payment |-> 0, money |-> 0]
<1>1. o \in Nat /\ r \in Completion
  BY OrdersAssumption DEF Completion
<1>2. /\ request[h].pc = "none"
      /\ request' = [request EXCEPT ![h] = r]
      /\ disturbed' = disturbed \cup {o}
      /\ UNCHANGED <<ledger, call, orders, payments, failures>>
  BY DEF ForceConfirm, ledgerVars
<1>3. disturbed \subseteq disturbed' /\ disturbed' \subseteq Nat
      /\ r.order \in disturbed'
  BY <1>1, <1>2 DEF OnceInv, OrdersInv, OrdersTypeOK
<1> QED BY <1>1, <1>2, <1>3, RequestStep

LEMMA NoRequestType ==
  NoRequest \in Completion /\ NoRequest.pc = "none" /\ NoRequest.order = 0
  BY DEF NoRequest, Completion

LEMMA RejectOrderStep ==
  ASSUME OnceInv, NEW h \in Handler, RejectOrder(h)
  PROVE  OnceInv'
<1>1. /\ request[h].pc = "get"
      /\ request' = [request EXCEPT ![h] = NoRequest]
      /\ UNCHANGED <<ledger, call, orders, payments, disturbed, failures>>
  BY DEF RejectOrder, ledgerVars
<1>2. disturbed \subseteq disturbed' /\ disturbed' \subseteq Nat
  BY <1>1 DEF OnceInv, OrdersInv, OrdersTypeOK
<1> QED BY <1>1, <1>2, NoRequestType, RequestStep

LEMMA AnswerStep ==
  ASSUME OnceInv, NEW h \in Handler, Answer(h)
  PROVE  OnceInv'
<1>1. OrdersTypeOK /\ ServingInv /\ AloneInv
  BY DEF OnceInv, OrdersInv
<1>2. /\ request[h].pc = "answer"
      /\ payments' = [payments EXCEPT ![request[h].payment].answered = TRUE]
      /\ request' = [request EXCEPT ![h] = NoRequest]
      /\ UNCHANGED <<ledger, call, orders, disturbed, failures>>
  BY DEF Answer, ledgerVars
<1>3. \A g \in Handler : request'[g] = IF g = h THEN NoRequest ELSE request[g]
  BY <1>1, <1>2 DEF OrdersTypeOK
<1>4. /\ payments' \in Seq(Payment) /\ Len(payments') = Len(payments)
      /\ \A p \in 1..Len(payments) : payments'[p].order = payments[p].order
  <2> DEFINE q == request[h].payment
  <2>1. CASE q \in 1..Len(payments)
    <3>1. payments[q] \in Payment
      BY <1>1, <2>1, ElementOfSeq DEF OrdersTypeOK
    <3>2. [payments[q] EXCEPT !.answered = TRUE] \in Payment
          /\ [payments[q] EXCEPT !.answered = TRUE].order = payments[q].order
      BY <3>1 DEF Payment
    <3> QED BY <1>1, <1>2, <2>1, <3>2, ExceptSeq DEF OrdersTypeOK
  <2>2. CASE q \notin 1..Len(payments)
    <3>1. payments' = payments
      BY <1>1, <1>2, <2>2, LenProperties DEF OrdersTypeOK
    <3> QED BY <1>1, <3>1 DEF OrdersTypeOK
  <2> QED BY <2>1, <2>2
<1>5. ~Holds(h)
  BY <1>1, <1>2 DEF ServingInv, Holds, Idle
<1>6. PostingInv' /\ LedgerTypeOK' /\ RowsInv' /\ OwnedInv'
  BY <1>2, <1>3, <1>5, RowsUntouched
<1>7. OrdersTypeOK'
  BY <1>1, <1>2, <1>4, <1>6, NoRequestType DEF OrdersTypeOK
<1>8. ServingInv'
  BY <1>1, <1>2, <1>3, <1>4, NoRequestType DEF ServingInv
<1>9. AloneInv'
  BY <1>1, <1>2, <1>3, NoRequestType DEF AloneInv, Paid
<1> QED BY <1>6, <1>7, <1>8, <1>9 DEF OnceInv, OrdersInv

-----------------------------------------------------------------------------
(* Steps of a posting.                                                      *)

\* A posting that begins, goes on without a row, or is lost.  If it held a row
\* then its order is disturbed from now on.
LEMMA RowsKept ==
  ASSUME OnceInv, NEW h \in Handler, NEW c, c.outcome # "Inserted",
         call' = [call EXCEPT ![h] = c], UNCHANGED <<ledger, orders>>,
         disturbed \subseteq disturbed',
         Holds(h) => request[h].order \in disturbed',
         \A g \in Handler \ {h} : request'[g] = request[g]
  PROVE  RowsInv' /\ OwnedInv'
<1>1. LedgerTypeOK /\ ServingInv /\ RowsInv
  BY DEF OnceInv, OrdersInv, PostingInv
<1>2. \A g \in Handler : call'[g] = IF g = h THEN c ELSE call[g]
  BY <1>1 DEF LedgerTypeOK
<1>3. \A g \in Handler : Holds(g)' => g # h /\ Holds(g) /\ call'[g] = call[g]
  BY <1>2 DEF Holds
<1>4. \A o : o \in disturbed => o \in disturbed'
  OBVIOUS
<1>5. HeldInv'
  BY <1>1, <1>3 DEF RowsInv, HeldInv, Paid
<1>6. PaidInv' /\ OneOrderPerRowInv'
  BY <1>1 DEF RowsInv, PaidInv, OneOrderPerRowInv
<1>7. OwnedInv'
  <2> SUFFICES ASSUME NEW v \in User, Undisturbed(v)', NEW i \in PaymentRows(v)'
               PROVE  \E o \in 1..Len(orders') : orders'[o].user = v /\ Owns(o, i)'
    BY DEF OwnedInv
  <2>1. Undisturbed(v) /\ i \in PaymentRows(v)
    BY <1>4 DEF Undisturbed, PaymentRows
  <2>2. PICK o \in 1..Len(orders) : orders[o].user = v /\ Owns(o, i)
    BY <2>1 DEF OnceInv, OwnedInv
  <2>3. o \notin disturbed'
    BY <2>2 DEF Undisturbed
  <2>4. CASE Paid(o) /\ orders[o].transactionId = i
    BY <2>2, <2>4 DEF Owns, Paid
  <2>5. CASE \E g \in Handler : request[g].order = o /\ Holds(g) /\ call[g].row = i
    <3>1. PICK g \in Handler : request[g].order = o /\ Holds(g) /\ call[g].row = i
      BY <2>5
    <3>2. g # h
      BY <2>3, <3>1
    <3>3. request'[g].order = o /\ Holds(g)' /\ call'[g].row = i
      BY <1>2, <3>1, <3>2 DEF Holds
    <3> QED BY <2>2, <3>3 DEF Owns
  <2> QED BY <2>2, <2>4, <2>5 DEF Owns
<1> QED BY <1>5, <1>6, <1>7 DEF RowsInv

LEMMA OrderAt ==
  ASSUME OrdersTypeOK, NEW o \in 1..Len(orders)
  PROVE  orders[o] \in Order /\ orders[o].user \in User
<1>1. orders[o] \in Order
  BY ElementOfSeq DEF OrdersTypeOK
<1> QED BY <1>1 DEF Order

LEMMA StartPayStep ==
  ASSUME OnceInv, NEW h \in Handler, StartPay(h)
  PROVE  OnceInv'
<1> DEFINE o == request[h].order
           u == orders[o].user
           m == Incoming(h)
           c == Posting(u, Floor(m), "Payment", "last")
           r == [request[h] EXCEPT !.pc = "pay", !.money = m]
<1>1. OrdersTypeOK /\ LedgerTypeOK /\ PostingInv /\ ServingInv /\ AloneInv
  BY DEF OnceInv, OrdersInv, PostingInv
<1>2. /\ request[h].pc = "get" /\ o \in 1..Len(orders) /\ ~Refused(h)
      /\ Pay(h, u, m)
      /\ request' = [request EXCEPT ![h] = r]
      /\ UNCHANGED <<orders, payments, disturbed, failures>>
  BY <1>1 DEF StartPay, OrdersTypeOK
<1>3. request[h] \in Completion /\ orders[o] \in Order /\ u \in User
  BY <1>1, <1>2, OrderAt DEF OrdersTypeOK
<1>4. m \in Int
  BY <1>3, LedgerAssumption DEF Incoming, Order, Completion
<1>5. PostingInv' /\ LedgerTypeOK'
  BY <1>1, <1>2, <1>3, <1>4, PayKeepsPosting DEF PostingInv
<1>6. call' = [call EXCEPT ![h] = c] /\ UNCHANGED ledger
  BY <1>2 DEF Pay
<1>7. /\ c.pc = "last" /\ c.user = u /\ c.amount = Floor(m)
      /\ c.type = "Payment" /\ c.outcome = "none"
  BY DEF Posting, Idle
<1>8. /\ r \in Completion /\ r.pc = "pay" /\ r.order = o /\ r.money = m
      /\ r.payment = request[h].payment
  BY <1>3, <1>4 DEF Completion
<1> HIDE DEF r, c, m
<1>9. \A g \in Handler : /\ request'[g] = IF g = h THEN r ELSE request[g]
                         /\ call'[g] = IF g = h THEN c ELSE call[g]
  BY <1>1, <1>2, <1>6 DEF OrdersTypeOK, LedgerTypeOK
<1>10. ~Holds(h)
  BY <1>1, <1>2 DEF ServingInv, Holds, Idle
<1>11. RowsInv' /\ OwnedInv'
  BY ZenonT(30), <1>2, <1>6, <1>7, <1>9, <1>10, RowsKept
<1>12. OrdersTypeOK'
  BY <1>1, <1>2, <1>5, <1>8 DEF OrdersTypeOK
<1>13. ServingInv'
  <2>1. \A p \in 1..Len(payments') : payments'[p].order \in 1..Len(orders')
    BY <1>1, <1>2 DEF ServingInv
  <2>2. r.payment = 0 => o \in disturbed
    BY <1>1, <1>2, <1>8 DEF ServingInv
  <2> QED BY <1>1, <1>2, <1>7, <1>8, <1>9, <2>1, <2>2 DEF ServingInv, Running
<1>14. AloneInv'
  <2>1. o \notin disturbed => ~Paid(o)
    BY <1>1, <1>2 DEF ServingInv, Refused, ByGateway, Paid
  <2> QED BY <1>1, <1>2, <1>8, <1>9, <2>1 DEF AloneInv, Paid
<1> QED BY <1>5, <1>11, <1>12, <1>13, <1>14 DEF OnceInv, OrdersInv

\* The end of a posting without a row for the order: refused, or failed.
LEMMA EndStep ==
  ASSUME OnceInv, NEW h \in Handler,
         call' = [call EXCEPT ![h] = Idle],
         request' = [request EXCEPT ![h] = NoRequest],
         UNCHANGED <<ledger, orders, payments>>,
         failures' \in 0..MaxFailures,
         disturbed \subseteq disturbed', disturbed' \subseteq Nat,
         Holds(h) => request[h].order \in disturbed'
  PROVE  OnceInv'
<1>1. OrdersTypeOK /\ LedgerTypeOK /\ PostingInv /\ ServingInv /\ AloneInv
  BY DEF OnceInv, OrdersInv, PostingInv
<1>2. PostingInv' /\ LedgerTypeOK'
  BY <1>1, EndKeepsPosting DEF PostingInv
<1>3. \A g \in Handler :
        /\ request'[g] = IF g = h THEN NoRequest ELSE request[g]
        /\ call'[g] = IF g = h THEN Idle ELSE call[g]
  BY <1>1 DEF OrdersTypeOK, LedgerTypeOK
<1>4. Idle.outcome # "Inserted"
  BY DEF Idle
<1>5. RowsInv' /\ OwnedInv'
  BY <1>3, <1>4, RowsKept
<1>6. OrdersTypeOK'
  BY <1>1, <1>2, NoRequestType DEF OrdersTypeOK
<1>7. \A o : o \in disturbed => o \in disturbed'
  OBVIOUS
<1>8. ServingInv'
  BY <1>1, <1>3, <1>7, NoRequestType DEF ServingInv
<1>9. AloneInv'
  BY <1>1, <1>3, <1>7, NoRequestType DEF AloneInv, Paid
<1> QED BY <1>2, <1>5, <1>6, <1>8, <1>9 DEF OnceInv, OrdersInv

LEMMA PayRefusedStep ==
  ASSUME OnceInv, NEW h \in Handler, PayRefused(h)
  PROVE  OnceInv'
<1>1. /\ call[h].outcome = "NoMoney"
      /\ call' = [call EXCEPT ![h] = Idle]
      /\ request' = [request EXCEPT ![h] = NoRequest]
      /\ UNCHANGED <<ledger, orders, payments, disturbed, failures>>
  BY DEF PayRefused, Return
<1>2. ~Holds(h)
  BY <1>1 DEF Holds
<1>3. /\ failures' \in 0..MaxFailures
      /\ disturbed \subseteq disturbed' /\ disturbed' \subseteq Nat
  BY <1>1 DEF OnceInv, OrdersInv, OrdersTypeOK
<1> QED BY <1>1, <1>2, <1>3, EndStep

LEMMA FailStep ==
  ASSUME OnceInv, NEW h \in Handler, Fail(h)
  PROVE  OnceInv'
<1>1. OrdersTypeOK /\ ServingInv
  BY DEF OnceInv, OrdersInv
<1>2. /\ failures < MaxFailures /\ failures' = failures + 1
      /\ call' = [call EXCEPT ![h] = Idle]
      /\ request' = [request EXCEPT ![h] = NoRequest]
      /\ UNCHANGED <<ledger, orders, payments>>
      /\ disturbed' = IF HalfDone(h) THEN disturbed \cup {request[h].order}
                                    ELSE disturbed
  BY DEF Fail
<1>3. failures' \in 0..MaxFailures
  BY <1>1, <1>2, OrdersAssumption DEF OrdersTypeOK
<1>4. request[h].order \in Nat
  BY <1>1 DEF OrdersTypeOK, Completion
<1>5. disturbed \subseteq disturbed' /\ disturbed' \subseteq Nat
  BY <1>1, <1>2, <1>4 DEF OrdersTypeOK
<1>6. Holds(h) => request[h].order \in disturbed'
  BY <1>1, <1>2 DEF ServingInv, Holds, Idle, HalfDone
<1> QED BY <1>2, <1>3, <1>5, <1>6, EndStep

\* A query that inserts nothing.
LEMMA QueryOnlyStep ==
  ASSUME OnceInv, PostingInv', NEW h \in Handler, NEW c \in Call,
         call' = [call EXCEPT ![h] = c],
         UNCHANGED <<ledger, orders, payments, request, disturbed, failures>>,
         call[h].pc \in Running \ {"returned"},
         c.user = call[h].user, c.type = call[h].type, c.amount = call[h].amount,
         c.pc \in Running, c.outcome \in {call[h].outcome, "NoMoney"}
  PROVE  OnceInv'
<1>1. OrdersTypeOK /\ LedgerTypeOK /\ ServingInv /\ AloneInv /\ RowsInv /\ LedgerTypeOK'
  BY DEF OnceInv, OrdersInv, PostingInv
<1>2. \A g \in Handler : call'[g] = IF g = h THEN c ELSE call[g]
  BY <1>1 DEF LedgerTypeOK
<1>3. ~Holds(h) /\ c.outcome # "Inserted"
  BY <1>1 DEF RowsInv, HeldInv, Holds
<1>4. RowsInv' /\ OwnedInv'
  BY <1>3, RowsKept
<1>5. OrdersTypeOK'
  BY <1>1 DEF OrdersTypeOK
<1>6. request[h].pc = "pay"
  BY <1>1 DEF ServingInv, Idle, Running
<1>7. ServingInv'
  BY <1>1, <1>2, <1>6 DEF ServingInv
<1>8. AloneInv'
  BY <1>1 DEF AloneInv, Paid
<1> QED BY <1>4, <1>5, <1>7, <1>8 DEF OnceInv, OrdersInv

\* The row is inserted: it is a new row, so nobody else holds or shows it.
LEMMA InsertKeepsOnce ==
  ASSUME OnceInv, PostingInv', NEW h \in Handler, Insert(h),
         UNCHANGED <<orders, payments, request, disturbed, failures>>
  PROVE  OnceInv'
<1> DEFINE u == call[h].user
           n == Len(ledger[u])
           c == Returning(call[h], "Inserted", n + 1)
<1>1. /\ OrdersTypeOK /\ LedgerTypeOK /\ PostingInv /\ ServingInv /\ AloneInv
      /\ RowsInv /\ LedgerTypeOK'
  BY DEF OnceInv, OrdersInv, PostingInv
<1>2. /\ u \in User /\ n \in Nat
      /\ \A v \in User \ {u} : ledger'[v] = ledger[v]
      /\ Len(ledger'[u]) = n + 1
      /\ \A i \in 1..n : ledger'[u][i] = ledger[u][i]
      /\ ledger'[u][n + 1].amount = call[h].amount
  BY <1>1, InsertRows DEF PostingInv
<1>3. call' = [call EXCEPT ![h] = c] /\ call[h].pc = "insert" /\ call[h] \in Call
  BY <1>1, InsertType DEF PostingInv, Insert
<1>4. \A g \in Handler : call'[g] = IF g = h THEN c ELSE call[g]
  BY <1>1, <1>3 DEF LedgerTypeOK
<1>5. /\ c.pc = "returned" /\ c.row = n + 1 /\ c.outcome = "Inserted"
      /\ c.user = u /\ c.amount = call[h].amount /\ c.type = call[h].type
  BY <1>3 DEF Returning, Call
<1>6. request[h].pc = "pay"
  BY <1>1, <1>3 DEF ServingInv, Idle
<1>7. ledger'[u][n + 1].type = "Payment"
  <2>1. /\ ledger' = [ledger EXCEPT ![u] = Append(ledger[u], NewRow(call[h]))]
        /\ ledger[u] \in Seq(Row) /\ NewRow(call[h]) \in Row
    BY <1>1, InsertType DEF PostingInv
  <2>2. ledger'[u] = Append(ledger[u], NewRow(call[h]))
    BY <1>1, <1>2, <2>1 DEF LedgerTypeOK
  <2>3. ledger'[u][n + 1] = NewRow(call[h])
    BY <2>1, <2>2, AppendProperties
  <2>4. call[h].type = "Payment"
    BY <1>1, <1>6 DEF ServingInv
  <2> QED BY <2>3, <2>4 DEF NewRow
<1> HIDE DEF c, n, u
<1>8. \A o \in 1..Len(orders) : orders[o].user \in User
  BY <1>1, OrderAt
<1>9. \A g \in Handler \ {h} : Holds(g)' => Holds(g) /\ call'[g] = call[g]
  BY <1>4 DEF Holds
<1>10. \A g \in Handler : Holds(g) => call[g].user \in User
  BY <1>1, <1>8 DEF ServingInv, Holds, Idle
<1>11. \A v \in User : \A i \in 1..Len(ledger[v]) :
         i \in 1..Len(ledger'[v]) /\ ledger'[v][i] = ledger[v][i]
  BY <1>2 DEF n
<1>12. \A g \in Handler : Holds(g) /\ call[g].user = u => call[g].row \in 1..n
  BY <1>1 DEF RowsInv, HeldInv, n
<1>13. \A o \in 1..Len(orders) :
         Paid(o) /\ orders[o].user = u => orders[o].transactionId \in 1..n
  BY <1>1 DEF RowsInv, PaidInv, Paid, n
<1>14. HeldInv'
  <2>1. ASSUME NEW g \in Handler \ {h}, Holds(g)'
        PROVE  LET d == call'[g]
                   rows == ledger'[d.user]
               IN  /\ d.pc = "returned"
                   /\ d.row \in 1..Len(rows)
                   /\ rows[d.row].type = "Payment"
                   /\ rows[d.row].amount = d.amount
                   /\ \A f \in Handler \ {g} :
                        Holds(f)' /\ call'[f].user = d.user => call'[f].row # d.row
                   /\ \A o \in 1..Len(orders') :
                        Paid(o)' /\ orders'[o].user = d.user
                          => orders'[o].transactionId # d.row
    <3>1. Holds(g) /\ call'[g] = call[g] /\ call[g].user \in User
      BY <1>9, <1>10, <2>1
    <3>2. /\ call[g].pc = "returned"
          /\ call[g].row \in 1..Len(ledger[call[g].user])
          /\ ledger[call[g].user][call[g].row].type = "Payment"
          /\ ledger[call[g].user][call[g].row].amount = call[g].amount
          /\ \A o \in 1..Len(orders) :
                Paid(o) /\ orders[o].user = call[g].user
                  => orders[o].transactionId # call[g].row
      BY <1>1, <3>1 DEF RowsInv, HeldInv
    <3>3. ASSUME NEW f \in Handler \ {g}, Holds(f)', call'[f].user = call[g].user
          PROVE  call'[f].row # call[g].row
      <4>1. CASE f = h
        BY <1>2, <1>4, <1>5, <1>12, <3>1, <3>3, <4>1
      <4>2. CASE f # h
        BY <1>1, <1>9, <3>1, <3>3, <4>2 DEF RowsInv, HeldInv
      <4> QED BY <4>1, <4>2
    <3> QED BY <1>11, <3>1, <3>2, <3>3 DEF Paid
  <2>2. LET d == call'[h]
            rows == ledger'[d.user]
        IN  /\ d.pc = "returned"
            /\ d.row \in 1..Len(rows)
            /\ rows[d.row].type = "Payment"
            /\ rows[d.row].amount = d.amount
    BY <1>2, <1>4, <1>5, <1>7
  <2>3. ASSUME NEW g \in Handler \ {h}, Holds(g)', call'[g].user = u
        PROVE  call'[g].row # c.row
    BY <1>2, <1>5, <1>9, <1>12, <2>3
  <2>4. ASSUME NEW o \in 1..Len(orders'), Paid(o)', orders'[o].user = u
        PROVE  orders'[o].transactionId # c.row
    BY <1>2, <1>5, <1>13, <2>4 DEF Paid
  <2>5. call'[h] = c /\ c.user = u
    BY <1>4, <1>5
  <2> QED BY <2>1, <2>2, <2>3, <2>4, <2>5 DEF HeldInv
<1>15. PaidInv'
  BY <1>1, <1>8, <1>11 DEF RowsInv, PaidInv
<1>16. OneOrderPerRowInv'
  BY <1>1 DEF RowsInv, OneOrderPerRowInv
<1>17. OrdersTypeOK'
  BY <1>1 DEF OrdersTypeOK
<1>18. ServingInv'
  BY <1>1, <1>4, <1>5, <1>6 DEF ServingInv, Running, u
<1>19. AloneInv'
  BY <1>1 DEF AloneInv, Paid
<1>20. OwnedInv'
  <2> SUFFICES ASSUME NEW v \in User, Undisturbed(v)', NEW i \in PaymentRows(v)'
               PROVE  \E o \in 1..Len(orders') : orders'[o].user = v /\ Owns(o, i)'
    BY DEF OwnedInv
  <2>1. Undisturbed(v)
    BY DEF Undisturbed
  <2>2. CASE i \in PaymentRows(v)
    <3>1. PICK o \in 1..Len(orders) : orders[o].user = v /\ Owns(o, i)
      BY <2>1, <2>2 DEF OnceInv, OwnedInv
    <3>2. CASE Paid(o) /\ orders[o].transactionId = i
      BY <3>1, <3>2 DEF Owns, Paid
    <3>3. CASE \E g \in Handler : request[g].order = o /\ Holds(g) /\ call[g].row = i
      <4>1. PICK g \in Handler : request[g].order = o /\ Holds(g) /\ call[g].row = i
        BY <3>3
      <4>2. g # h
        BY <1>1, <1>3, <4>1 DEF RowsInv, HeldInv
      <4>3. request'[g].order = o /\ Holds(g)' /\ call'[g].row = i
        BY <1>4, <4>1, <4>2 DEF Holds
      <4> QED BY <3>1, <4>3 DEF Owns
    <3> QED BY <3>1, <3>2, <3>3 DEF Owns
  <2>3. CASE i \notin PaymentRows(v)
    <3>1. v = u /\ i = n + 1
      BY <1>2, <2>3 DEF PaymentRows, n
    <3>2. request[h].order \in 1..Len(orders) /\ orders[request[h].order].user = u
      BY <1>1, <1>6 DEF ServingInv, u
    <3>3. Holds(h)' /\ call'[h].row = i
      BY <1>4, <1>5, <3>1 DEF Holds
    <3> QED BY <3>1, <3>2, <3>3 DEF Owns
  <2> QED BY <2>2, <2>3
<1> QED BY <1>14, <1>15, <1>16, <1>17, <1>18, <1>19, <1>20
        DEF OnceInv, OrdersInv, RowsInv

LEMMA PayStepStep ==
  ASSUME OnceInv, NEW h \in Handler, NEW f \in Frozen, PayStep(h, f)
  PROVE  OnceInv'
<1>1. PostingInv /\ ServingInv /\ PostingStep(h, f)
      /\ UNCHANGED <<orders, payments, request, disturbed, failures>>
  BY DEF OnceInv, OrdersInv, PayStep
<1>2. PostingInv'
  BY <1>1, QueryStep
<1>3. CASE Insert(h)
  BY <1>1, <1>2, <1>3, InsertKeepsOnce
<1>4. CASE ~Insert(h)
  <2>1. PICK c \in Call :
          /\ UNCHANGED ledger
          /\ call' = [call EXCEPT ![h] = c]
          /\ c.user = call[h].user /\ c.type = call[h].type
          /\ c.amount = call[h].amount
          /\ c.pc \in Running
          /\ c.outcome \in {call[h].outcome, "NoMoney"}
          /\ call[h].pc # "returned"
    BY <1>1, <1>4, QueryStep
  <2>2. call[h].pc \in Running
    BY <1>1 DEF PostingStep, ReadLast, ReadFrozen, ReadBase, Insert, Running
  <2> QED BY <1>1, <1>2, <2>1, <2>2, QueryOnlyStep
<1> QED BY <1>3, <1>4

-----------------------------------------------------------------------------
(* complete(): the order shows the row its request held.                    *)

LEMMA CompleteStep ==
  ASSUME OnceInv, NEW h \in Handler, Complete(h)
  PROVE  OnceInv'
<1> DEFINE o == request[h].order
           u == call[h].user
           new == Completed(h, orders[o])
           r == IF ByGateway(h) THEN [request[h] EXCEPT !.pc = "answer"]
                                ELSE NoRequest
<1>1. /\ OrdersTypeOK /\ LedgerTypeOK /\ PostingInv /\ ServingInv /\ AloneInv
      /\ RowsInv
  BY DEF OnceInv, OrdersInv, PostingInv
<1>2. /\ request[h].pc = "pay" /\ Holds(h)
      /\ call' = [call EXCEPT ![h] = Idle]
      /\ orders' = [orders EXCEPT ![o] = new]
      /\ request' = [request EXCEPT ![h] = r]
      /\ UNCHANGED <<ledger, payments, disturbed, failures>>
  BY <1>1 DEF Complete, Return, Holds, OrdersTypeOK
<1>3. /\ o \in 1..Len(orders) /\ Len(orders) \in Nat
      /\ orders[o] \in Order /\ orders[o].user \in User
      /\ u = orders[o].user /\ call[h].amount = Floor(request[h].money)
  BY <1>1, <1>2, OrderAt, LenProperties DEF ServingInv, OrdersTypeOK
<1>4. request[h] \in Completion /\ call[h] \in Call
  BY <1>1 DEF OrdersTypeOK, LedgerTypeOK
<1>5. /\ new \in Order /\ new.user = u /\ new.status = "PAID"
      /\ new.transactionId = call[h].row /\ new.amount = call[h].amount
  <2>1. Floor(request[h].money) \in Int
    BY <1>4, FloorType DEF Completion
  <2> QED BY <1>3, <1>4, <2>1 DEF Completed, Order, OrderStatus, Call, Completion
<1>6. /\ r \in Completion /\ r.pc \in {"answer", "none"}
      /\ r.pc = "none" => r.order = 0
      /\ r.pc = "answer" => r.order = o /\ r.payment = request[h].payment /\ r.payment # 0
  BY <1>4, NoRequestType DEF Completion, ByGateway
<1> HIDE DEF new, r
<1>7. /\ orders' \in Seq(Order) /\ Len(orders') = Len(orders)
      /\ \A q \in 1..Len(orders) : orders'[q] = IF q = o THEN new ELSE orders[q]
  BY <1>1, <1>2, <1>3, <1>5, ExceptSeq DEF OrdersTypeOK
<1>8. \A g \in Handler : /\ request'[g] = IF g = h THEN r ELSE request[g]
                         /\ call'[g] = IF g = h THEN Idle ELSE call[g]
  BY <1>1, <1>2 DEF OrdersTypeOK, LedgerTypeOK
<1>9. \A g \in Handler : Holds(g)' => g # h /\ Holds(g) /\ call'[g] = call[g]
  BY <1>8 DEF Holds, Idle
<1>10. \A q \in 1..Len(orders) : orders'[q].user = orders[q].user
  BY <1>3, <1>5, <1>7
<1>11. /\ call[h].row \in 1..Len(ledger[u])
       /\ ledger[u][call[h].row].type = "Payment"
       /\ ledger[u][call[h].row].amount = call[h].amount
       /\ \A g \in Handler \ {h} :
            Holds(g) /\ call[g].user = u => call[g].row # call[h].row
       /\ \A q \in 1..Len(orders) :
            Paid(q) /\ orders[q].user = u => orders[q].transactionId # call[h].row
  BY <1>1, <1>2 DEF RowsInv, HeldInv
<1> HIDE DEF u, o
<1>12. PostingInv' /\ LedgerTypeOK'
  BY <1>1, <1>2, EndKeepsPosting DEF PostingInv
<1>13. OrdersTypeOK'
  BY <1>1, <1>2, <1>6, <1>7, <1>12 DEF OrdersTypeOK
<1>14. ServingInv'
  <2>1. \A p \in 1..Len(payments') : payments'[p].order \in 1..Len(orders')
    BY <1>1, <1>2, <1>7 DEF ServingInv
  <2>2. \A g \in Handler \ {h} :
          request'[g] = request[g] /\ call'[g] = call[g] /\ g \in Handler
    BY <1>8
  <2>3. request'[h] = r /\ call'[h] = Idle
    BY <1>8
  <2> QED BY <1>1, <1>2, <1>3, <1>6, <1>7, <1>10, <2>1, <2>2, <2>3
          DEF ServingInv
<1>15. HeldInv'
  <2> SUFFICES ASSUME NEW g \in Handler, Holds(g)'
               PROVE  LET c == call'[g]
                          rows == ledger'[c.user]
                      IN  /\ c.pc = "returned"
                          /\ c.row \in 1..Len(rows)
                          /\ rows[c.row].type = "Payment"
                          /\ rows[c.row].amount = c.amount
                          /\ \A f \in Handler \ {g} :
                               Holds(f)' /\ call'[f].user = c.user => call'[f].row # c.row
                          /\ \A q \in 1..Len(orders') :
                               Paid(q)' /\ orders'[q].user = c.user
                                 => orders'[q].transactionId # c.row
    BY DEF HeldInv
  <2>1. g # h /\ Holds(g) /\ call'[g] = call[g]
    BY <1>9
  <2>2. /\ call[g].pc = "returned"
        /\ call[g].row \in 1..Len(ledger[call[g].user])
        /\ ledger[call[g].user][call[g].row].type = "Payment"
        /\ ledger[call[g].user][call[g].row].amount = call[g].amount
        /\ \A f \in Handler \ {g} :
             Holds(f) /\ call[f].user = call[g].user => call[f].row # call[g].row
        /\ \A q \in 1..Len(orders) :
             Paid(q) /\ orders[q].user = call[g].user
               => orders[q].transactionId # call[g].row
    BY <1>1, <2>1 DEF RowsInv, HeldInv
  <2>3. ASSUME NEW f \in Handler \ {g}, Holds(f)', call'[f].user = call[g].user
        PROVE  call'[f].row # call[g].row
    BY <1>9, <2>2, <2>3
  <2>4. ASSUME NEW q \in 1..Len(orders'), Paid(q)', orders'[q].user = call[g].user
        PROVE  orders'[q].transactionId # call[g].row
    BY <1>5, <1>7, <1>11, <2>1, <2>2, <2>4 DEF Paid
  <2> QED BY <1>2, <2>1, <2>2, <2>3, <2>4
<1>16. PaidInv'
  BY SMTT(30), <1>1, <1>2, <1>5, <1>7, <1>11 DEF RowsInv, PaidInv
<1>17. OneOrderPerRowInv'
  BY <1>1, <1>3, <1>5, <1>7, <1>11 DEF RowsInv, OneOrderPerRowInv, Paid
<1>18. AloneInv'
  <2>1. ASSUME NEW f \in Handler, NEW g \in Handler,
               request'[f].pc # "none", request'[g].pc # "none",
               request'[f].order = request'[g].order,
               request'[f].order \notin disturbed'
        PROVE  f = g
    BY <1>1, <1>2, <1>6, <1>8, <2>1 DEF AloneInv, o
  <2>2. ASSUME NEW g \in Handler, request'[g].pc = "pay",
               request'[g].order \notin disturbed'
        PROVE  ~Paid(request[g].order)'
    <3>1. g # h /\ request'[g] = request[g]
      BY <1>6, <1>8, <2>2
    <3>2. request[g].order # o
      BY <1>1, <1>2, <2>2, <3>1 DEF AloneInv, o
    <3>3. request[g].order \in 1..Len(orders) /\ ~Paid(request[g].order)
      BY <1>1, <1>2, <2>2, <3>1 DEF AloneInv, ServingInv
    <3> QED BY <1>7, <3>1, <3>2, <3>3 DEF Paid
  <2> QED BY <2>1, <2>2 DEF AloneInv
<1>19. OwnedInv'
  <2> SUFFICES ASSUME NEW v \in User, Undisturbed(v)', NEW i \in PaymentRows(v)'
               PROVE  \E q \in 1..Len(orders') : orders'[q].user = v /\ Owns(q, i)'
    BY DEF OwnedInv
  <2>1. Undisturbed(v) /\ i \in PaymentRows(v)
    BY <1>2, <1>7, <1>10 DEF Undisturbed, PaymentRows
  <2>2. PICK q \in 1..Len(orders) : orders[q].user = v /\ Owns(q, i)
    BY <2>1 DEF OnceInv, OwnedInv
  <2>3. q \in 1..Len(orders') /\ orders'[q].user = v
    BY <1>7, <1>10, <2>2
  <2>4. CASE Paid(q) /\ orders[q].transactionId = i
    <3>1. q # o
      BY <1>1, <1>2, <2>1, <2>2, <2>4 DEF AloneInv, Undisturbed, o
    <3> QED BY <1>7, <2>2, <2>3, <2>4, <3>1 DEF Owns, Paid
  <2>5. CASE \E g \in Handler : request[g].order = q /\ Holds(g) /\ call[g].row = i
    <3>1. PICK g \in Handler : request[g].order = q /\ Holds(g) /\ call[g].row = i
      BY <2>5
    <3>2. CASE g = h
      <4>1. q = o /\ orders'[q] = new
        BY <1>7, <2>2, <3>1, <3>2 DEF o
      <4> QED BY <1>5, <2>3, <3>1, <3>2, <4>1 DEF Owns, Paid
    <3>3. CASE g # h
      <4>1. request'[g].order = q /\ Holds(g)' /\ call'[g].row = i
        BY <1>8, <3>1, <3>3 DEF Holds
      <4> QED BY <2>3, <4>1 DEF Owns
    <3> QED BY <3>2, <3>3
  <2> QED BY <2>2, <2>4, <2>5 DEF Owns
<1> QED BY <1>12, <1>13, <1>14, <1>15, <1>16, <1>17, <1>18, <1>19
        DEF OnceInv, OrdersInv, RowsInv

-----------------------------------------------------------------------------
(* The theorems.                                                            *)

LEMMA OrdersStep ==
  ASSUME OnceInv, [OrdersNext]_vars
  PROVE  OnceInv'
<1>1. CASE UNCHANGED vars
  <2>1. UNCHANGED <<orders, payments, request, disturbed, failures, ledger, call>>
    BY <1>1 DEF vars, ledgerVars
  <2>2. OrdersTypeOK' /\ PostingInv' /\ ServingInv'
    BY <2>1 DEF OnceInv, OrdersInv, OrdersTypeOK, PostingInv, LedgerTypeOK, ReadInv,
         CheckedInv, ServingInv
  <2>3. HeldInv' /\ PaidInv' /\ OneOrderPerRowInv'
    BY <2>1 DEF OnceInv, OrdersInv, RowsInv, HeldInv, Holds, PaidInv, Paid, OneOrderPerRowInv
  <2>4. AloneInv' /\ OwnedInv'
    BY <2>1 DEF OnceInv, AloneInv, Paid, OwnedInv, Undisturbed, PaymentRows, Owns, Holds
  <2> QED BY <2>2, <2>3, <2>4 DEF OnceInv, OrdersInv, RowsInv
<1>2. ASSUME NEW u \in User, NEW m \in Money, CreateOrder(u, m)
      PROVE  OnceInv'
  BY <1>2, CreateOrderStep
<1>3. ASSUME NEW o \in 1..MaxOrders, NEW m \in Money, PayForm(o, m)
      PROVE  OnceInv'
  BY <1>3, PayFormStep
<1>4. ASSUME NEW h \in Handler,
             \/ \E p \in 1..MaxPayments : Notify(h, p)
             \/ \E o \in Forced : ForceConfirm(h, o)
             \/ Serve(h)
             \/ Fail(h)
      PROVE  OnceInv'
  BY <1>4, NotifyStep, ForceConfirmStep, RejectOrderStep, StartPayStep, PayStepStep,
     CompleteStep, PayRefusedStep, AnswerStep, FailStep
  DEF Serve
<1> QED BY <1>1, <1>2, <1>3, <1>4 DEF OrdersNext

\* The inductive invariant holds in every state of every behaviour.
LEMMA OnceInvAlways == OrdersSpec => []OnceInv
<1>1. OrdersInit => OnceInv
  BY OrdersInitInv
<1>2. OnceInv /\ [OrdersNext]_vars => OnceInv'
  BY OrdersStep
<1> QED BY <1>1, <1>2, PTL DEF OrdersSpec

\* Whatever races, the orders, the payments, the requests in flight and the
\* ledger stay well formed (completeOrder and pay, whole).
THEOREM OrdersTypeCorrect == OrdersSpec => []OrdersTypeOK
<1>1. OnceInv => OrdersTypeOK
  BY DEF OnceInv, OrdersInv
<1> QED BY <1>1, OnceInvAlways, PTL

\* Whatever races, a paid order names a Payment row of its own user whose amount
\* is the order's (complete, lines 57-65).
THEOREM OrdersPaidByRow == OrdersSpec => []PaidInv
<1>1. OnceInv => PaidInv
  BY DEF OnceInv, OrdersInv, RowsInv
<1> QED BY <1>1, OnceInvAlways, PTL

\* Whatever races, no row pays for two orders: the row a request carries from
\* pay to complete is held by no other request and named by no other order
\* (completeOrder, lines 107-122).
THEOREM OrdersOneOrderPerRow == OrdersSpec => []OneOrderPerRowInv
<1>1. OnceInv => OneOrderPerRowInv
  BY DEF OnceInv, OrdersInv, RowsInv
<1> QED BY <1>1, OnceInvAlways, PTL

\* For a user none of whose orders was disturbed, the order a Payment row is for
\* is an injection into the orders that are credited.
LEMMA CreditedBound ==
  ASSUME OnceInv, NEW u \in User, Undisturbed(u)
  PROVE  CreditedOnce(u)
<1> DEFINE OrderOf(i) == CHOOSE o \in 1..Len(orders) : orders[o].user = u /\ Owns(o, i)
           f == [i \in PaymentRows(u) |-> OrderOf(i)]
<1>1. OrdersTypeOK /\ ServingInv /\ AloneInv /\ RowsInv
  BY DEF OnceInv, OrdersInv
<1>2. \A i \in PaymentRows(u) :
        /\ OrderOf(i) \in 1..Len(orders)
        /\ orders[OrderOf(i)].user = u
        /\ Owns(OrderOf(i), i)
  BY DEF OnceInv, OwnedInv
<1> HIDE DEF OrderOf
<1>3. \A i \in PaymentRows(u) : OrderOf(i) \in CreditedOrders(u)
  BY <1>2 DEF CreditedOrders, Owns, Paid, Holds
<1>4. ASSUME NEW i \in PaymentRows(u), NEW j \in PaymentRows(u),
             OrderOf(i) = OrderOf(j)
      PROVE  i = j
  <2> DEFINE o == OrderOf(i)
  <2>1. o \in 1..Len(orders) /\ o \notin disturbed /\ Owns(o, i) /\ Owns(o, j)
    BY <1>2, <1>4 DEF Undisturbed
  <2> HIDE DEF o
  <2>2. ASSUME NEW h \in Handler, request[h].order = o, Holds(h)
        PROVE  request[h].pc = "pay" /\ ~Paid(o)
    BY <1>1, <2>1, <2>2 DEF ServingInv, AloneInv, Holds, Idle
  <2>3. ASSUME NEW g \in Handler, NEW h \in Handler,
               request[g].order = o, Holds(g), request[h].order = o, Holds(h)
        PROVE  g = h
    BY <1>1, <2>1, <2>2, <2>3 DEF AloneInv
  <2> QED BY <2>1, <2>2, <2>3 DEF Owns
<1>5. f \in Injection(PaymentRows(u), CreditedOrders(u))
  BY <1>3, <1>4 DEF Injection, IsInjective
<1>6. IsFiniteSet(CreditedOrders(u))
  <2>1. Len(orders) \in Nat /\ CreditedOrders(u) \in SUBSET (1..Len(orders))
    BY <1>1, LenProperties DEF OrdersTypeOK, CreditedOrders
  <2>2. IsFiniteSet(1..Len(orders))
    BY <2>1, FS_Interval
  <2> QED BY <2>1, <2>2, FS_Subset
<1> QED BY <1>5, <1>6, FS_Injection DEF CreditedOnce

\* Repeated notifications and overlapping postings of other orders never credit
\* an order twice: a user none of whose orders was disturbed has no more Payment
\* rows than credited orders (completeOrder, lines 86-88).
THEOREM OrdersCreditedOnce == OrdersSpec => []UndisturbedOnceInv
<1>1. OrdersInit => OnceInv
  BY OrdersInitInv
<1>2. OnceInv /\ [OrdersNext]_vars => OnceInv'
  BY OrdersStep
<1>3. OnceInv => UndisturbedOnceInv
  BY CreditedBound DEF UndisturbedOnceInv, Undisturbed
<1> QED BY <1>1, <1>2, <1>3, PTL DEF OrdersSpec

\* A step leaves a paid order alone unless the order was disturbed.
LEMMA PaidStays ==
  ASSUME OnceInv, [OrdersNext]_vars,
         NEW o \in 1..Len(orders), Paid(o), o \notin disturbed'
  PROVE  orders'[o] = orders[o]
<1>1. OrdersTypeOK /\ ServingInv /\ AloneInv
  BY DEF OnceInv, OrdersInv
<1>2. ASSUME NEW u \in User, NEW m \in Money, CreateOrder(u, m)
      PROVE  orders'[o] = orders[o]
  BY <1>1, <1>2 DEF CreateOrder, OrdersTypeOK
<1>3. ASSUME NEW h \in Handler, Complete(h)
      PROVE  orders'[o] = orders[o]
  <2>1. request[h].pc = "pay" /\ disturbed' = disturbed
        /\ orders' = [orders EXCEPT ![request[h].order] = Completed(h, @)]
    BY <1>3 DEF Complete
  <2>2. request[h].order # o
    BY <1>1, <2>1 DEF AloneInv
  <2> QED BY <1>1, <2>1, <2>2, LenProperties DEF OrdersTypeOK
<1>4. CASE UNCHANGED orders
  BY <1>4
<1> QED
  BY <1>2, <1>3, <1>4
  DEF OrdersNext, vars, PayForm, Notify, ForceConfirm, Serve, RejectOrder, StartPay,
      PayStep, PayRefused, Answer, Fail

\* A paid order is final: as long as it is not disturbed, no notification, no
\* other order and no failure changes its row (completeOrder, lines 82-88).
THEOREM OrdersPaidFinal == OrdersSpec => PaidFinal
<1>1. OrdersInit => OnceInv
  BY OrdersInitInv
<1>2. OnceInv /\ [OrdersNext]_vars => OnceInv'
  BY OrdersStep
<1>3. OnceInv /\ [OrdersNext]_vars
        => [\A o \in 1..Len(orders) :
              orders[o].status = "PAID" /\ o \notin disturbed'
                => orders'[o] = orders[o]]_vars
  BY PaidStays DEF Paid
<1> QED BY <1>1, <1>2, <1>3, PTL DEF OrdersSpec, PaidFinal

=============================================================================
