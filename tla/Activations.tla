----------------------------- MODULE Activations -----------------------------
(***************************************************************************)
(* Renting a number and waiting for its SMS: ActivationsService (requests  *)
(* of users) and CheckingService (the background checker), with the        *)
(* external SMS source behind SmsActivateClient.  Composes Ledger: a       *)
(* waiting activation freezes its cost, and the checker charges the cost   *)
(* through buy() when the first code arrives.                              *)
(*                                                                         *)
(* Entities are read by one query and saved by a later one.  A save writes *)
(* every column that differs from the database row, so it restores the     *)
(* status and the transactionId the entity was read with.                  *)
(***************************************************************************)
EXTENDS Ledger, FiniteSets, FiniteSetsExt, SequencesExt

CONSTANTS
  Activation,   \* ids of activations (and of the checks they get)
  Request,      \* requests of users being served at the same time
  Cost,         \* prices, in cents
  Deposit,      \* what every user has topped up, in cents
  MaxCodes,     \* bound: messages the source receives for a number
  MaxFailures   \* bound: crashes and rejected queries

ASSUME ActivationsAssumption ==
  /\ Activation \subseteq Handler
  /\ Cost \subseteq Nat
  /\ {Deposit, MaxCodes, MaxFailures} \subseteq Nat
  /\ \A c \in Cost : c * Scale \in Money

VARIABLES
  activation,   \* table "activation": activation[a], status NONE if no row
  codes,        \* table "activation_code": the codes of a, oldest first
  source,       \* the SMS source's side of a
  check,        \* check[a]: the running checkOneActivation of a
  req,          \* req[r]: what request r is doing
  looping,      \* FALSE once the checker's loop has died
  failures      \* crashes and rejected queries so far

ownVars == <<activation, codes, source, check, req, looping, failures>>
vars == <<ledgerVars, ownVars>>

-----------------------------------------------------------------------------
ActivationStatus ==
  {"WAIT_CODE", "WAIT_AGAIN", "SMS_RECIEVED", "CANCELLED", "FINISHED", "ERROR"}

Final == {"CANCELLED", "FINISHED", "ERROR"}

NoActivation == [status |-> "NONE", user |-> NoUser, cost |-> 0, transactionId |-> 0]

\* Codes are numbered in the order in which the source receives them.
ActivationCode == 1..MaxCodes

\* The source's state of a number: not rented, waiting for the first message,
\* message received, waiting for another one, cancelled or expired, finished.
SourceState == {"none", "wait", "ok", "retry", "cancelled", "finished"}

\* status and transactionId are the entity in memory; answer and code are what
\* getStatus returned.
Check == [pc : {"off", "status", "code", "insert", "buy", "save", "retry"},
          status : ActivationStatus, transactionId : Nat,
          answer : {"none", "STATUS_OK", "ACCESS_RETRY_GET"}, code : Nat]

NoCheck == [pc |-> "off", status |-> "WAIT_CODE", transactionId |-> 0,
            answer |-> "none", code |-> 0]

RequestPc == {"none", "frozen", "number", "saveNew", "close", "saveClosed"}

NoReq == [pc |-> "none", user |-> NoUser, cost |-> 0, seen |-> 0,
          target |-> "none", status |-> "WAIT_CODE", transactionId |-> 0]

ToppedUp == [amount |-> Deposit, balanceBefore |-> 0, type |-> "Payment"]

\* Nothing is running.
ProcessInit ==
  /\ call = [h \in Handler |-> Idle]
  /\ check = [a \in Activation |-> NoCheck]
  /\ req = [r \in Request |-> NoReq]
  /\ looping = TRUE
  /\ failures = 0

ActivationsInit ==
  /\ ProcessInit
  /\ ledger = [u \in User |-> <<ToppedUp>>]
  /\ activation = [a \in Activation |-> NoActivation]
  /\ codes = [a \in Activation |-> <<>>]
  /\ source = [a \in Activation |-> [state |-> "none", code |-> 0]]

\* The activations that freeze money of u.
Freezing(u) ==
  {a \in Activation : activation[a].user = u /\ activation[a].status = "WAIT_CODE"}

\* getFreezedUserMoney
FrozenOf(u) == MapThenSumSet(LAMBDA a : activation[a].cost, Freezing(u))

\* entity.save(): the columns the code may have read stale.
Save(a, status, transactionId) ==
  activation' = [activation EXCEPT ![a].status = status,
                                   ![a].transactionId = transactionId]

-----------------------------------------------------------------------------
(* The SMS source.                                                          *)

SmsArrives(a) ==
  /\ source[a].state \in {"wait", "retry"}
  /\ source[a].code < MaxCodes
  /\ source' = [source EXCEPT ![a].state = "ok", ![a].code = @ + 1]
  /\ UNCHANGED <<ledgerVars, activation, codes, check, req, looping, failures>>

\* The rent is over, or the operator withdraws the number.
SourceCancels(a) ==
  /\ source[a].state \in {"wait", "ok", "retry"}
  /\ source' = [source EXCEPT ![a].state = "cancelled"]
  /\ UNCHANGED <<ledgerVars, activation, codes, check, req, looping, failures>>

\* What getStatus may answer: a number that is over may also be forgotten.
Answers(s) ==
  CASE s.state = "wait"  -> {"STATUS_WAIT_CODE"}
    [] s.state = "ok"    -> {"STATUS_OK"}
    [] s.state = "retry" -> {"ACCESS_RETRY_GET"}
    [] OTHER             -> {"STATUS_CANCEL", "WRONG_ACTIVATION_ID"}

\* Statuses the source accepts a final status in.
Accepted(final) == IF final = "CANCELLED" THEN {"wait"} ELSE {"ok", "retry"}

-----------------------------------------------------------------------------
(* Requests of users.                                                       *)

\* createActivation: the price is found; getUserBalance reads the last row.
Create(r, u, cost) ==
  /\ req[r].pc = "none"
  /\ req' = [req EXCEPT ![r] = [NoReq EXCEPT !.pc = "frozen", !.user = u,
                                  !.cost = cost, !.seen = Len(ledger[u])]]
  /\ UNCHANGED <<ledgerVars, activation, codes, source, check, looping, failures>>

\* returnErrorIfNoMoneyToBuy
Affordable(r, frozen) ==
  Available(ledger[req[r].user], req[r].seen, frozen) - req[r].cost >= 0

\* getUserBalance reads the frozen sum, and the balance is checked.
CheckMoney(r) ==
  /\ req[r].pc = "frozen"
  /\ req' = [req EXCEPT ![r] = IF Affordable(r, FrozenOf(req[r].user))
                                 THEN [@ EXCEPT !.pc = "number", !.seen = 0]
                                 ELSE NoReq]
  /\ UNCHANGED <<ledgerVars, activation, codes, source, check, looping, failures>>

\* getNumber rents a number.
GetNumber(r, a) ==
  /\ req[r].pc = "number"
  /\ source[a].state = "none"
  /\ source' = [source EXCEPT ![a].state = "wait"]
  /\ req' = [req EXCEPT ![r].pc = "saveNew", ![r].target = a]
  /\ UNCHANGED <<ledgerVars, activation, codes, check, looping, failures>>

\* activation.save(): status takes its default.
SaveNew(r) ==
  /\ req[r].pc = "saveNew"
  /\ activation' = [activation EXCEPT ![req[r].target] =
                      [status |-> "WAIT_CODE", user |-> req[r].user,
                       cost |-> req[r].cost, transactionId |-> 0]]
  /\ req' = [req EXCEPT ![r] = NoReq]
  /\ UNCHANGED <<ledgerVars, codes, source, check, looping, failures>>

\* Statuses in which the user may ask for a final status.
Closable(final) ==
  IF final = "CANCELLED" THEN {"WAIT_CODE"} ELSE {"SMS_RECIEVED", "WAIT_AGAIN"}

\* cancelActivation, finishActivation: the entity is read.
FindToClose(r, a, final) ==
  /\ req[r].pc = "none"
  /\ activation[a].status \in Closable(final)
  /\ req' = [req EXCEPT ![r] = [NoReq EXCEPT !.pc = "close", !.target = a,
                                  !.status = final,
                                  !.transactionId = activation[a].transactionId]]
  /\ UNCHANGED <<ledgerVars, activation, codes, source, check, looping, failures>>

\* The source is asked, and agrees.
SourceCloses(r) ==
  LET a == req[r].target IN
  /\ req[r].pc = "close"
  /\ source[a].state \in Accepted(req[r].status)
  /\ source' = [source EXCEPT ![a].state =
                  IF req[r].status = "CANCELLED" THEN "cancelled" ELSE "finished"]
  /\ req' = [req EXCEPT ![r].pc = "saveClosed"]
  /\ UNCHANGED <<ledgerVars, activation, codes, check, looping, failures>>

SaveClosed(r) ==
  /\ req[r].pc = "saveClosed"
  /\ Save(req[r].target, req[r].status, req[r].transactionId)
  /\ req' = [req EXCEPT ![r] = NoReq]
  /\ UNCHANGED <<ledgerVars, codes, source, check, looping, failures>>

\* No numbers, the source refuses or does not answer, or a query rejects: the
\* user gets an error.
RequestFails(r) ==
  /\ req[r].pc # "none"
  /\ req' = [req EXCEPT ![r] = NoReq]
  /\ UNCHANGED <<ledgerVars, activation, codes, source, check, looping, failures>>

-----------------------------------------------------------------------------
(* The checker.                                                             *)

\* Promise.all: the next round waits for every check of the last one.
RoundOver == \A a \in Activation : check[a].pc = "off"

\* Activations the checker still looks after.
Open == {a \in Activation : activation[a].status \notin Final \cup {"NONE"}}

\* actualizeActivations: one query finds the open activations, and a check of
\* each starts.
StartRound ==
  /\ looping
  /\ RoundOver
  /\ Open # {}
  /\ check' = [a \in Activation |->
                 IF a \in Open
                   THEN [NoCheck EXCEPT !.pc = "status",
                           !.status = activation[a].status,
                           !.transactionId = activation[a].transactionId]
                   ELSE NoCheck]
  /\ UNCHANGED <<ledgerVars, activation, codes, source, req, looping, failures>>

\* That query rejects: _runCheck never calls next() again.
LoopDies ==
  /\ looping /\ RoundOver
  /\ failures < MaxFailures
  /\ looping' = FALSE
  /\ failures' = failures + 1
  /\ UNCHANGED <<ledgerVars, activation, codes, source, check, req>>

Saving(c, status) == [c EXCEPT !.pc = "save", !.status = status]

\* Mutants of Answered.
AnsweredReopening(c, answer, code) ==
  CASE answer = "STATUS_CANCEL" -> {Saving(c, "FINISHED"), Saving(c, "CANCELLED")}
    [] answer \in {"STATUS_OK", "ACCESS_RETRY_GET"} ->
         {[c EXCEPT !.pc = "code", !.answer = answer, !.code = code]}
    [] answer = "STATUS_WAIT_CODE" -> {Saving(c, "WAIT_CODE")}
    [] OTHER -> {Saving(c, "ERROR")}
AnsweredIgnoringCancel(c, answer, code) ==
  CASE answer \in {"STATUS_OK", "ACCESS_RETRY_GET"} ->
         {[c EXCEPT !.pc = "code", !.answer = answer, !.code = code]}
    [] answer \in {"STATUS_WAIT_CODE", "STATUS_CANCEL"} -> {NoCheck}
    [] OTHER -> {Saving(c, "ERROR")}

\* The cases of checkOneActivation: what the check does with an answer.  An
\* expired activation ends FINISHED, another CANCELLED.
Answered(c, answer, code) ==
  CASE answer = "STATUS_CANCEL" -> {Saving(c, "FINISHED"), Saving(c, "CANCELLED")}
    [] answer \in {"STATUS_OK", "ACCESS_RETRY_GET"} ->
         {[c EXCEPT !.pc = "code", !.answer = answer, !.code = code]}
    [] answer = "STATUS_WAIT_CODE" ->
         IF c.status \in {"WAIT_AGAIN", "WAIT_CODE"} THEN {NoCheck}
                                                     ELSE {Saving(c, "WAIT_CODE")}
    [] OTHER -> {Saving(c, "ERROR")}

\* getStatus
GetStatus(a) ==
  /\ check[a].pc = "status"
  /\ \E answer \in Answers(source[a]) :
       \E c \in Answered(check[a], answer, source[a].code) :
         check' = [check EXCEPT ![a] = c]
  /\ UNCHANGED <<ledgerVars, activation, codes, source, req, looping, failures>>

\* Mutant of NeedsCharge.
NeedsChargeAlways(a) == check[a].answer = "STATUS_OK"

NeedsCharge(a) ==
  check[a].answer = "STATUS_OK" /\ check[a].transactionId = 0

\* With the code stored, status becomes WAIT_AGAIN in memory; buy() starts
\* unless the activation has its transaction.
CodeStored(a) ==
  \/ /\ NeedsCharge(a)
     /\ check' = [check EXCEPT ![a].pc = "buy", ![a].status = "WAIT_AGAIN"]
     /\ Buy(a, activation[a].user, activation[a].cost * Scale)
  \/ /\ ~NeedsCharge(a)
     /\ check' = [check EXCEPT ![a].pc = "save", ![a].status = "WAIT_AGAIN"]
     /\ UNCHANGED ledgerVars

\* Mutants of CodeKnown.
CodeNeverKnown(a) == FALSE
CodeKnownIfAny(a) == codes[a] # <<>>

CodeKnown(a) == check[a].code \in ToSet(codes[a])

\* _createIfNotExistsActivationCode: the code is looked up ...
FindCode(a) ==
  /\ check[a].pc = "code"
  /\ \/ CodeKnown(a) /\ CodeStored(a)
     \/ /\ ~CodeKnown(a)
        /\ check' = [check EXCEPT ![a].pc = "insert"]
        /\ UNCHANGED ledgerVars
  /\ UNCHANGED <<activation, codes, source, req, looping, failures>>

\* ... and inserted.
InsertCode(a) ==
  /\ check[a].pc = "insert"
  /\ codes' = [codes EXCEPT ![a] = Append(@, check[a].code)]
  /\ CodeStored(a)
  /\ UNCHANGED <<activation, source, req, looping, failures>>

\* The queries of buy().  The activation itself is still WAIT_CODE in the
\* database, so its own cost is part of the frozen sum.
BuyStep(a) ==
  /\ PostingStep(a, FrozenOf(call[a].user))
  /\ UNCHANGED ownVars

\* Mutants of Charged.
ChargedByFirstRow(a) == 1
ChargedUnchecked(a) == IF call[a].outcome = "Inserted" THEN call[a].row ELSE -1

\* The transactionId a check saves: buy's row, or none if it had no money.
Charged(a) == call[a].row

\* buy() is back, and the entity is saved.
SaveBought(a) ==
  /\ check[a].pc = "buy"
  /\ Return(a)
  /\ Save(a, check[a].status, Charged(a))
  /\ check' = [check EXCEPT ![a].pc = "retry"]
  /\ UNCHANGED <<codes, source, req, looping, failures>>

\* The other saves of a check.
SaveChecked(a) ==
  /\ check[a].pc = "save"
  /\ Save(a, check[a].status, check[a].transactionId)
  /\ check' = [check EXCEPT ![a] = IF @.answer = "STATUS_OK"
                                     THEN [@ EXCEPT !.pc = "retry"] ELSE NoCheck]
  /\ UNCHANGED <<ledgerVars, codes, source, req, looping, failures>>

\* retryActivation: another message may come, unless the number is over.
Retry(a) ==
  /\ check[a].pc = "retry"
  /\ source' = [source EXCEPT ![a].state = IF @ = "ok" THEN "retry" ELSE @]
  /\ check' = [check EXCEPT ![a] = NoCheck]
  /\ UNCHANGED <<ledgerVars, activation, codes, req, looping, failures>>

\* The source does not answer: the check ends, its error is logged.
SourceSilent(a) ==
  /\ check[a].pc \in {"status", "retry"}
  /\ check' = [check EXCEPT ![a] = NoCheck]
  /\ UNCHANGED <<ledgerVars, activation, codes, source, req, looping, failures>>

\* A query of a check rejects: the same.
CheckFails(a) ==
  /\ check[a].pc \in {"code", "insert", "buy", "save"}
  /\ failures < MaxFailures
  /\ check' = [check EXCEPT ![a] = NoCheck]
  /\ call' = [call EXCEPT ![a] = Idle]
  /\ failures' = failures + 1
  /\ UNCHANGED <<ledger, activation, codes, source, req, looping>>

\* The process dies and is started again.
Crash ==
  /\ failures < MaxFailures
  /\ check' = [a \in Activation |-> NoCheck]
  /\ req' = [r \in Request |-> NoReq]
  /\ call' = [h \in Handler |-> Idle]
  /\ looping' = TRUE
  /\ failures' = failures + 1
  /\ UNCHANGED <<ledger, activation, codes, source>>

-----------------------------------------------------------------------------
\* One step of the check of a after getStatus.
CheckStep(a) ==
  \/ FindCode(a)
  \/ InsertCode(a)
  \/ BuyStep(a)
  \/ SaveBought(a)
  \/ SaveChecked(a)
  \/ Retry(a)

RequestStep(r) ==
  \/ \E u \in User, c \in Cost : Create(r, u, c)
  \/ CheckMoney(r)
  \/ \E a \in Activation : GetNumber(r, a)
  \/ SaveNew(r)
  \/ \E a \in Activation, final \in {"CANCELLED", "FINISHED"} :
       FindToClose(r, a, final)
  \/ SourceCloses(r)
  \/ SaveClosed(r)
  \/ RequestFails(r)

\* A step of the running process or of the source.
ActivationsStep ==
  \/ StartRound
  \/ LoopDies
  \/ \E r \in Request : RequestStep(r)
  \/ \E a \in Activation :
       \/ SmsArrives(a)
       \/ SourceCancels(a)
       \/ GetStatus(a)
       \/ CheckStep(a)
       \/ SourceSilent(a)
       \/ CheckFails(a)

ActivationsNext == ActivationsStep \/ Crash

ActivationsSpec == ActivationsInit /\ [][ActivationsNext]_vars

\* The loop starts round after round, the event loop runs a check to its end,
\* and the source answers getStatus again and again, if not every time.
ActivationsFairSpec ==
  /\ ActivationsSpec
  /\ WF_vars(StartRound)
  /\ \A a \in Activation : WF_vars(CheckStep(a)) /\ SF_vars(GetStatus(a))

-----------------------------------------------------------------------------
(* Properties.                                                              *)

\* Every variable has the type its table or its code gives it.
ActivationsTypeOK ==
  /\ LedgerTypeOK
  /\ activation \in [Activation ->
       [status : ActivationStatus \cup {"NONE"}, user : User \cup {NoUser},
        cost : Nat, transactionId : Nat]]
  /\ codes \in [Activation -> Seq(ActivationCode)]
  /\ source \in [Activation -> [state : SourceState, code : 0..MaxCodes]]
  /\ check \in [Activation -> Check]
  /\ req \in [Request ->
       [pc : RequestPc, user : User \cup {NoUser}, cost : Nat, seen : Nat,
        target : Activation \cup {"none"}, status : ActivationStatus,
        transactionId : Nat]]
  /\ looping \in BOOLEAN
  /\ failures \in 0..MaxFailures

\* A code is stored once, although it is looked up and inserted by two queries
\* and rounds, crashes and retries read the same code again (lines 148-163).
CodesOnceInv == \A a \in Activation : IsInjective(codes[a])

\* The transaction an activation names is a Buy of its user for its cost, and
\* of no other activation (lines 89-98).
ChargeInv ==
  \A a \in Activation : LET t == activation[a].transactionId
                            rows == ledger[activation[a].user] IN
    t # 0 =>
      /\ t \in 1..Len(rows)
      /\ rows[t].type = "Buy" /\ rows[t].amount = -activation[a].cost
      /\ \A b \in Activation \ {a} :
           activation[b].user = activation[a].user
             => activation[b].transactionId # t

\* Money an activation no longer freezes is not frozen again by it, whatever
\* stale entity is saved over it: only a new row freezes.
ReleasedOnce ==
  [][\A a \in Activation :
       activation'[a].status = "WAIT_CODE"
         => activation[a].status \in {"NONE", "WAIT_CODE"}]_vars

BuyRows(u) == {i \in 1..Len(ledger[u]) : ledger[u][i].type = "Buy"}

\* Activations of u that received a code.
Delivered(u) == {a \in Activation : activation[a].user = u /\ codes[a] # <<>>}

\* While no query rejects and nothing crashes, a user pays at most once for
\* each activation that received a code (line 89).  A failure between a purchase
\* and the save of its transaction (lines 90-100) charges it again: it does so at
\* most once, however often rounds, requests and stale saves come after it.
ChargedOnceInv ==
  \A u \in User :
    Cardinality(BuyRows(u)) <= (failures + 1) * Cardinality(Delivered(u))

\* What the source has received for a and the checker has not stored.
Unstored(a) == (1..source[a].code) \ ToSet(codes[a])

\* Every message the source has received for a number we rent is stored, unless
\* the number is over before, or the loop dies: then nothing is, until the next
\* restart.
CodeDelivered ==
  \A a \in Activation :
    (activation[a].status # "NONE" /\ Unstored(a) # {})
      ~> \/ Unstored(a) = {}
         \/ source[a].state \in {"cancelled", "finished"}
         \/ ~looping

\* An activation whose number is over ends in a final status, and so stops
\* freezing money, although stale saves may reopen it, unless the loop dies.
Settled ==
  \A a \in Activation :
    (activation[a].status # "NONE" /\ source[a].state \in {"cancelled", "finished"})
      ~> (activation[a].status \in Final \/ ~looping)

\* An activation waits for its next code only when the first is paid: buy says
\* "insufficient funds" to nobody who could afford the number.
DeliveredIsCharged ==
  \A a \in Activation :
    activation[a].status = "WAIT_AGAIN" => activation[a].transactionId # 0

=============================================================================
