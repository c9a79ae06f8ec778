------------------------------- MODULE Orders -------------------------------
(***************************************************************************)
(* Topping up: OrdersService with the two payment gateways that call it    *)
(* (FreekassaService.paymentDone, YoomoneyService.paymentDone) and the     *)
(* administrator's forceConfirmOrder.  Composes Ledger: completing an      *)
(* order posts a Payment through pay().                                    *)
(*                                                                         *)
(* A gateway notifies at least once: it repeats a notification until it is *)
(* answered, and may send it again while the first is still being served.  *)
(*                                                                         *)
(* disturbed is a history variable: the orders that were confirmed by      *)
(* hand, served twice at a time, or left half-way by a request that died.  *)
(* Some promises are kept to the others only.                              *)
(***************************************************************************)
EXTENDS Ledger, FiniteSets

CONSTANTS
  MaxOrders,    \* bound: orders created
  MaxPayments,  \* bound: payments users make at a gateway
  MaxFailures,  \* bound: requests that die half-way
  Forced        \* orders an administrator may confirm by hand

ASSUME OrdersAssumption ==
  /\ {MaxOrders, MaxPayments, MaxFailures} \subseteq Nat
  /\ Forced \subseteq Nat

VARIABLES
  orders,       \* table "order_entity", by id
  payments,     \* payments made at the gateways, and whether they got a YES
  request,      \* request[h]: the order request h is completing
  disturbed,    \* history: orders whose completion was disturbed
  failures      \* how many requests have died

vars == <<ledgerVars, orders, payments, request, disturbed, failures>>

-----------------------------------------------------------------------------
\* OrderStatus.ERROR exists in the enum and is never assigned.
OrderStatus == {"WAIT_PAY", "PAID"}

Order == [user : User, amount : Int, status : OrderStatus,
          transactionId : Nat,   \* row of the user's ledger, 0 if none
          paymentId : Nat]       \* 0 if none, or given by an administrator

Payment == [order : Nat \ {0}, money : Money, answered : BOOLEAN]

\* "get": order is about to be read; "pay": the posting runs in call[h];
\* "answer": the order is completed and the gateway is about to be answered.
Completion == [pc : {"none", "get", "pay", "answer"},
               order : Nat, payment : Nat, money : Int]

NoRequest == [pc |-> "none", order |-> 0, payment |-> 0, money |-> 0]

OrdersInit ==
  /\ LedgerInit
  /\ orders = <<>>
  /\ payments = <<>>
  /\ request = [h \in Handler |-> NoRequest]
  /\ disturbed = {}
  /\ failures = 0

-----------------------------------------------------------------------------
\* makePayment -> createOrder: the amount asked for, rounded up.
CreateOrder(u, money) ==
  /\ Len(orders) < MaxOrders
  /\ orders' = Append(orders, [user |-> u, amount |-> Ceil(money),
                               status |-> "WAIT_PAY", transactionId |-> 0,
                               paymentId |-> 0])
  /\ UNCHANGED <<ledgerVars, payments, request, disturbed, failures>>

\* The user pays the form of an order.  What arrives may differ from what was
\* asked for: gateways take a fee, and Money.fromDecimal multiplies floats.
PayForm(o, money) ==
  /\ Len(payments) < MaxPayments
  /\ o \in 1..Len(orders)
  /\ payments' = Append(payments,
                        [order |-> o, money |-> money, answered |-> FALSE])
  /\ UNCHANGED <<ledgerVars, orders, request, disturbed, failures>>

\* A request is serving the order.
BeingServed(o) == \E g \in Handler : request[g].order = o

\* A notification arrives: completeOrder starts.
Notify(h, p) ==
  /\ request[h].pc = "none"
  /\ p \in 1..Len(payments)
  /\ ~payments[p].answered
  /\ request' = [request EXCEPT ![h] =
                   [pc |-> "get", order |-> payments[p].order,
                    payment |-> p, money |-> payments[p].money]]
  /\ disturbed' = IF BeingServed(payments[p].order)
                    THEN disturbed \cup {payments[p].order} ELSE disturbed
  /\ UNCHANGED <<ledgerVars, orders, payments, failures>>

\* forceConfirmOrder: forceCompleteOrder starts; its money comes with the order.
\* An order may be forced any number of times: only the bound MaxRows ends it.
ForceConfirm(h, o) ==
  /\ request[h].pc = "none"
  /\ \A u \in User : Room(u)
  /\ request' = [request EXCEPT ![h] =
                   [pc |-> "get", order |-> o, payment |-> 0, money |-> 0]]
  /\ disturbed' = disturbed \cup {o}
  /\ UNCHANGED <<ledgerVars, orders, payments, failures>>

-----------------------------------------------------------------------------
ByGateway(h) == request[h].payment # 0

\* Mutant of Refused.
NeverRefused(h) == FALSE

\* completeOrder refuses an order already paid; forceCompleteOrder does not.
Refused(h) == ByGateway(h) /\ orders[request[h].order].status = "PAID"

\* getOrder finds nothing, or an order that is refused: an error answers.
RejectOrder(h) ==
  /\ request[h].pc = "get"
  /\ request[h].order \notin 1..Len(orders) \/ Refused(h)
  /\ request' = [request EXCEPT ![h] = NoRequest]
  /\ UNCHANGED <<ledgerVars, orders, payments, disturbed, failures>>

\* What is posted: what the gateway reports, or the amount of the order.
Incoming(h) ==
  IF ByGateway(h) THEN request[h].money
                  ELSE orders[request[h].order].amount * Scale

\* getOrder finds the order, and pay() starts.
StartPay(h) ==
  /\ request[h].pc = "get"
  /\ request[h].order \in 1..Len(orders)
  /\ ~Refused(h)
  /\ Pay(h, orders[request[h].order].user, Incoming(h))
  /\ request' = [request EXCEPT ![h].pc = "pay", ![h].money = Incoming(h)]
  /\ UNCHANGED <<orders, payments, disturbed, failures>>

\* The queries of pay().
PayStep(h, frozen) ==
  /\ PostingStep(h, frozen)
  /\ UNCHANGED <<orders, payments, request, disturbed, failures>>

\* Mutants of Completed.
CompletedKeepingAmount(h, order) ==
  [order EXCEPT !.status = "PAID", !.transactionId = call[h].row,
                !.paymentId = request[h].payment]
CompletedAsError(h, order) ==
  [order EXCEPT !.status = "ERROR", !.transactionId = call[h].row,
                !.paymentId = request[h].payment,
                !.amount = Floor(request[h].money)]
CompletedWithFirstRow(h, order) ==
  [order EXCEPT !.status = "PAID", !.transactionId = 1,
                !.paymentId = request[h].payment,
                !.amount = Floor(request[h].money)]

\* The row complete() writes.
Completed(h, order) ==
  [order EXCEPT !.status = "PAID", !.transactionId = call[h].row,
                !.paymentId = request[h].payment,
                !.amount = Floor(request[h].money)]

\* Mutant of Answer.
NeverAnswered(h) ==
  /\ request[h].pc = "answer"
  /\ request' = [request EXCEPT ![h] = NoRequest]
  /\ UNCHANGED <<ledgerVars, orders, payments, disturbed, failures>>

\* complete(): one UPDATE by id, whatever the order has become meanwhile.
\* forceCompleteOrder does not await it: its caller has been answered.
Complete(h) ==
  /\ request[h].pc = "pay"
  /\ call[h].outcome = "Inserted"
  /\ Return(h)
  /\ orders' = [orders EXCEPT ![request[h].order] = Completed(h, @)]
  /\ request' = [request EXCEPT ![h] =
                   IF ByGateway(h) THEN [@ EXCEPT !.pc = "answer"]
                                   ELSE NoRequest]
  /\ UNCHANGED <<payments, disturbed, failures>>

\* pay() threw NoMoneyException.
PayRefused(h) ==
  /\ request[h].pc = "pay"
  /\ call[h].outcome = "NoMoney"
  /\ Return(h)
  /\ request' = [request EXCEPT ![h] = NoRequest]
  /\ UNCHANGED <<orders, payments, disturbed, failures>>

\* The gateway gets its YES.
Answer(h) ==
  /\ request[h].pc = "answer"
  /\ payments' = [payments EXCEPT ![request[h].payment].answered = TRUE]
  /\ request' = [request EXCEPT ![h] = NoRequest]
  /\ UNCHANGED <<ledgerVars, orders, disturbed, failures>>

HalfDone(h) == request[h].pc \in {"pay", "answer"}

\* A query rejects, the answer is lost, or the process dies.
Fail(h) ==
  /\ failures < MaxFailures
  /\ request[h].pc # "none"
  /\ request' = [request EXCEPT ![h] = NoRequest]
  /\ call' = [call EXCEPT ![h] = Idle]
  /\ failures' = failures + 1
  /\ disturbed' = IF HalfDone(h) THEN disturbed \cup {request[h].order} ELSE disturbed
  /\ UNCHANGED <<ledger, orders, payments>>

-----------------------------------------------------------------------------
\* A request runs by itself once it has arrived.
Serve(h) ==
  \/ RejectOrder(h)
  \/ StartPay(h)
  \/ \E f \in Frozen : PayStep(h, f)
  \/ Complete(h)
  \/ PayRefused(h)
  \/ Answer(h)

OrdersNext ==
  \/ \E u \in User, m \in Money : CreateOrder(u, m)
  \/ \E o \in 1..MaxOrders, m \in Money : PayForm(o, m)
  \/ \E h \in Handler :
       \/ \E p \in 1..MaxPayments : Notify(h, p)
       \/ \E o \in Forced : ForceConfirm(h, o)
       \/ Serve(h)
       \/ Fail(h)

OrdersSpec == OrdersInit /\ [][OrdersNext]_vars

\* The event loop runs every request to its end, and a gateway repeats a
\* notification that was not answered.  The latter is strong fairness because
\* the process takes every notification: only the bound on Handler, which the
\* code has not, can turn one away.
OrdersFairSpec ==
  /\ OrdersSpec
  /\ \A h \in Handler : WF_vars(Serve(h))
  /\ \A p \in 1..MaxPayments : SF_vars(\E h \in Handler : Notify(h, p))

-----------------------------------------------------------------------------
(* Properties.                                                              *)

\* Orders, payments and requests are well formed.
OrdersTypeOK ==
  /\ LedgerTypeOK
  /\ orders \in Seq(Order)
  /\ payments \in Seq(Payment)
  /\ request \in [Handler -> Completion]
  /\ disturbed \subseteq Nat
  /\ failures \in 0..MaxFailures

\* However completions race, a paid order names a Payment row of its own user
\* for exactly the amount the order shows (complete, lines 57-65).
PaidInv ==
  \A o \in 1..Len(orders) :
    LET order == orders[o]
        rows == ledger[order.user]
    IN  order.status = "PAID" =>
          /\ order.transactionId \in 1..Len(rows)
          /\ rows[order.transactionId].type = "Payment"
          /\ rows[order.transactionId].amount = order.amount

\* However completions race, no row pays for two orders.
OneOrderPerRowInv ==
  \A o, q \in 1..Len(orders) :
    /\ o # q /\ orders[o].user = orders[q].user
    /\ orders[o].status = "PAID" /\ orders[q].status = "PAID"
    => orders[o].transactionId # orders[q].transactionId

PaymentRows(u) ==
  {i \in 1..Len(ledger[u]) : ledger[u][i].type = "Payment"}

\* Orders of u that are paid, or whose money has just been posted.
CreditedOrders(u) ==
  {o \in 1..Len(orders) :
     /\ orders[o].user = u
     /\ \/ orders[o].status = "PAID"
        \/ \E h \in Handler : /\ request[h].order = o
                              /\ call[h].outcome = "Inserted"}

CreditedOnce(u) == Cardinality(PaymentRows(u)) <= Cardinality(CreditedOrders(u))

\* An order is credited once: no user has more Payment rows than orders that
\* are paid (completeOrder, lines 86-88).
CreditedOnceInv == \A u \in User : CreditedOnce(u)

\* Repeated notifications and overlapping postings of other orders do not
\* credit an order twice: a user none of whose orders was disturbed has no more
\* Payment rows than paid orders.
UndisturbedOnceInv ==
  \A u \in User :
    (\A o \in disturbed \cap (1..Len(orders)) : orders[o].user # u) => CreditedOnce(u)

\* An order that was not disturbed is final once it is paid: later
\* notifications leave its row alone.
PaidFinal ==
  [][\A o \in 1..Len(orders) :
       orders[o].status = "PAID" /\ o \notin disturbed' => orders'[o] = orders[o]]_vars

\* The money of order o is refused: activations freeze more than the user has.
Unaffordable(o) ==
  \E h \in Handler : request[h].order = o /\ call[h].outcome = "NoMoney"

\* A payment ends with its order paid and the gateway told YES (docs.md:21),
\* although the process may die before, between and after posting the money,
\* updating the order and answering.  When the order was disturbed, or paid by
\* another payment, the YES may be missing: repetitions are then refused.  Or the
\* money is refused; Virtualnum says what becomes of that.
PaymentCompletes ==
  \A p \in 1..MaxPayments :
    (p \in 1..Len(payments))
      ~> /\ p \in 1..Len(payments)
         /\ LET o == payments[p].order IN
            \/ Unaffordable(o)
            \/ /\ orders[o].status = "PAID"
               /\ \/ payments[p].answered
                  \/ o \in disturbed
                  \/ \E q \in 1..Len(payments) \ {p} : payments[q].order = o

=============================================================================
