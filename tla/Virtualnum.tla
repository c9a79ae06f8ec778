----------------------------- MODULE Virtualnum -----------------------------
(***************************************************************************)
(* The money of one service: renting numbers (Activations) and topping up  *)
(* (Orders) run in one process over one ledger.  Every posting checks the  *)
(* same balance: what an activation freezes, getUserBalance subtracts for  *)
(* a payment too, so money a gateway has taken may find itself refused, if *)
(* an administrator has taken a bonus back from under the activation.      *)
(*                                                                         *)
(* Activations is extended, so its variables are this module's; Orders is  *)
(* an instance over the same ledger, postings and failures.  A death of    *)
(* the process ends the requests of both.                                  *)
(***************************************************************************)
EXTENDS Activations

CONSTANTS
  Gateway,      \* handlers that serve notifications
  TopUp,        \* sums users pay at a gateway
  MaxOrders,    \* bound: orders created
  MaxPayments,  \* bound: payments users make at a gateway
  Stock,        \* bound: the numbers the source can still rent out
  MaxUpsets,    \* bound: what upsets one behaviour (see Upsets)
  Forced        \* orders an administrator may confirm by hand

ASSUME VirtualnumAssumption ==
  /\ Handler = Activation \cup Gateway
  /\ TopUp \subseteq Money
  /\ Stock \subseteq Activation

VARIABLES orders, payments, request, disturbed

O == INSTANCE Orders

orderVars == <<orders, payments, request, disturbed>>
allVars == <<vars, orderVars>>

NoOrders == orders = <<>> /\ payments = <<>>

\* A user has spent his deposit on a number, and an administrator has taken the
\* same money: makeBonus checked the balance before the number was saved.
Overfrozen(u, a, cost) ==
  /\ ledger = [v \in User |->
                 IF v = u
                   THEN <<ToppedUp, [amount |-> -cost, balanceBefore |-> Deposit,
                                     type |-> "Bonus"]>>
                   ELSE <<ToppedUp>>]
  /\ activation = [b \in Activation |->
                     IF b = a THEN [status |-> "WAIT_CODE", user |-> u,
                                    cost |-> cost, transactionId |-> 0]
                              ELSE NoActivation]
  /\ codes = [b \in Activation |-> <<>>]
  /\ source = [b \in Activation |->
                 [state |-> IF b = a THEN "wait" ELSE "none", code |-> 0]]

\* A user has paid an order, and has rented every number with one deposit, one
\* after the other: the code came, the charge was refused because the number froze
\* its own cost, the number stopped freezing, and retryActivation was not answered.
AllUnpaid(u, cost, money) ==
  /\ ledger = [v \in User |-> <<ToppedUp>>]
  /\ activation = [a \in Activation |-> [status |-> "WAIT_AGAIN", user |-> u,
                                         cost |-> cost, transactionId |-> 0]]
  /\ codes = [a \in Activation |-> <<1>>]
  /\ source = [a \in Activation |-> [state |-> "ok", code |-> 1]]
  /\ orders = <<[user |-> u, amount |-> Ceil(money), status |-> "WAIT_PAY",
                 transactionId |-> 0, paymentId |-> 0]>>
  /\ payments = <<[order |-> 1, money |-> money, answered |-> FALSE]>>

VirtualnumInit ==
  /\ \/ ActivationsInit /\ NoOrders
     \/ ProcessInit /\ \E u \in User, c \in Cost \cap (1..Deposit) :
          \/ NoOrders /\ \E a \in Stock : Overfrozen(u, a, c)
          \/ 2 * c > Deposit /\ \E m \in TopUp : AllUnpaid(u, c, m)
  /\ request = [h \in Handler |-> O!NoRequest]
  /\ disturbed = {}

-----------------------------------------------------------------------------
\* A running request of a gateway; its posting reads what activations freeze.
ServeOrder(h) ==
  /\ \/ O!RejectOrder(h)
     \/ O!StartPay(h)
     \/ O!PayStep(h, FrozenOf(call[h].user))
     \/ O!Complete(h)
     \/ O!PayRefused(h)
     \/ O!Answer(h)
  /\ UNCHANGED <<activation, codes, source, check, req, looping>>

NotifyOrder(h, p) ==
  O!Notify(h, p) /\ UNCHANGED <<activation, codes, source, check, req, looping>>

\* Users, gateways and the administrator around the orders.
OrderStep ==
  /\ \/ \E u \in User, m \in TopUp : O!CreateOrder(u, m)
     \/ \E o \in 1..MaxOrders, m \in TopUp : O!PayForm(o, m)
     \/ \E h \in Gateway, o \in Forced : O!ForceConfirm(h, o)
     \/ \E h \in Gateway : O!Fail(h)
  /\ UNCHANGED <<activation, codes, source, check, req, looping>>

\* The process dies with the requests it serves.
Dies ==
  /\ Crash
  /\ request' = [h \in Handler |-> O!NoRequest]
  /\ disturbed' = disturbed \cup {request[h].order : h \in {g \in Gateway : O!HalfDone(g)}}
  /\ UNCHANGED <<orders, payments>>

\* Numbers that have left the source's stock.
Rented == {a \in Activation : source[a].state # "none"}

\* Numbers beside the first (see AllUnpaid), and what users and the source do then.
Crowd ==
  IF Rented \subseteq Stock THEN 0
  ELSE Cardinality(Rented \ Stock)
         + Cardinality({r \in Request : req[r].pc # "none"})
         + Cardinality({a \in Activation : source[a].state = "cancelled"})

\* What makes a behaviour long: a bonus taken (see Overfrozen), failures, messages
\* after the first and numbers beside it.
Upsets ==
  MapThenSumSet(LAMBDA u : Len(SelectSeq(ledger[u], LAMBDA row : row.type = "Bonus")), User)
    + MapThenSumSet(LAMBDA a : IF source[a].code > 1 THEN source[a].code - 1 ELSE 0, Activation)
    + Crowd + failures

VirtualnumNext ==
  /\ \/ ActivationsStep /\ UNCHANGED orderVars
     \/ OrderStep
     \/ \E h \in Gateway : ServeOrder(h) \/ \E p \in 1..MaxPayments : NotifyOrder(h, p)
     \/ Dies
  /\ Rented' \subseteq Rented \cup Stock
  /\ Upsets' <= MaxUpsets

VirtualnumSpec == VirtualnumInit /\ [][VirtualnumNext]_allVars

\* As in the two components.
VirtualnumFairSpec ==
  /\ VirtualnumSpec
  /\ WF_allVars(StartRound /\ UNCHANGED orderVars)
  /\ \A a \in Activation :
       /\ WF_allVars(CheckStep(a) /\ UNCHANGED orderVars)
       /\ SF_allVars(GetStatus(a) /\ UNCHANGED orderVars)
  /\ \A h \in Gateway : WF_allVars(ServeOrder(h))
  /\ \A p \in 1..MaxPayments : SF_allVars(\E h \in Gateway : NotifyOrder(h, p))

-----------------------------------------------------------------------------
(* Properties.                                                              *)

\* The user owes more than payment p brings.
Indebted(u, p) == Balance(ledger[u]) + Floor(payments[p].money) < 0

\* A number of u freezes its cost and still waits for its message.
Waiting(u) == \E a \in Freezing(u) : source[a].state = "wait"

\* Money a gateway has taken reaches its order although activations may freeze
\* more than the user has and getUserBalance then refuses the payment
\* (transactions.service.ts:97): the gateway repeats, and the checker settles
\* what freezes, once the rent of a silent number is over and unless its loop
\* has died.  A debt is no such passing state: purchases that overlap may leave
\* one (checking.service.ts:47), and a payment below it is refused for ever.
PaymentArrives ==
  \A p \in 1..MaxPayments :
    (p \in 1..Len(payments))
      ~> /\ p \in 1..Len(payments)
         /\ LET order == orders[payments[p].order] IN
            \/ order.status = "PAID"
            \/ Indebted(order.user, p)
            \/ Waiting(order.user)
            \/ ~looping

=============================================================================
