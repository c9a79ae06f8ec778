------------------------------ MODULE Catalog ------------------------------
(***************************************************************************)
(* Services and their prices: what administrators do through               *)
(* ServicesService, query by query.  A batch (saveServicesWithPrices) is   *)
(* its items served at the same time, each by a handler of its own.        *)
(*                                                                         *)
(* Rows are deleted softly, the unique index on a service's code counts    *)
(* deleted rows, and prices have no index at all.  disturbed names the     *)
(* services on which two requests ever overlapped, or one died half-way:   *)
(* what the catalogue promises, it promises for the others.                *)
(***************************************************************************)
EXTENDS Integers, Sequences, FiniteSets

CONSTANTS
  Code,         \* services of the dictionary
  Country,      \* countries of the dictionary
  Amount,       \* prices, in cents
  Handler,      \* requests being served at the same time
  MaxPrices,    \* bound: rows of "price_entity"
  MaxFailures   \* bound: requests that die

ASSUME CatalogAssumption ==
  /\ Amount \subseteq Nat
  /\ {MaxPrices, MaxFailures} \subseteq Nat

VARIABLES
  services,   \* table "service": the row of each code
  prices,     \* table "price_entity", by id
  request,    \* request[h]: what request h is doing
  disturbed,  \* history: services that were disturbed
  failures    \* how many requests have died

vars == <<services, prices, request, disturbed, failures>>

-----------------------------------------------------------------------------
ServiceRow == {"none", "live", "deleted"}

Price == [code : Code, country : Country, amount : Amount, live : BOOLEAN]

\* pc names the query a request is waiting for; rows are the prices it has read.
Pc == {"none", "saveService", "askApi", "insertService", "findService", "findPrice",
       "savePrice", "insertPrice", "dropPrices", "dropService", "recoverService",
       "findDropped", "recoverPrices"}

NoRequest == [pc |-> "none", rows |-> {}, code |-> "none", country |-> "none",
              amount |-> 0]

PricesOf(c) == {i \in 1..Len(prices) : prices[i].code = c}
LivePrices(c, k) ==
  {i \in PricesOf(c) : prices[i].country = k /\ prices[i].live}
Dropped(c) == {i \in PricesOf(c) : ~prices[i].live}

CatalogInit ==
  /\ services = [c \in Code |-> "none"]
  /\ prices = <<>>
  /\ request = [h \in Handler |-> NoRequest]
  /\ disturbed = {}
  /\ failures = 0

-----------------------------------------------------------------------------
Waits(h, pc) == request[h].pc = pc
Goes(h, pc) == request' = [request EXCEPT ![h].pc = pc]
Ends(h) == request' = [request EXCEPT ![h] = NoRequest]

InFlight(c) == \E h \in Handler : request[h].code = c

Starts(h, c, req) ==
  /\ Waits(h, "none")
  /\ request' = [request EXCEPT ![h] = [req EXCEPT !.code = c]]
  /\ disturbed' = IF InFlight(c) THEN disturbed \cup {c} ELSE disturbed
  /\ UNCHANGED <<services, prices, failures>>

Saving(pc, k, amount) ==
  [NoRequest EXCEPT !.pc = pc, !.country = k, !.amount = amount]

\* createOrUpdateService: the service is found, or not.
SaveService(h, c, k, amount) ==
  Starts(h, c, Saving(IF services[c] = "live" THEN "saveService" ELSE "askApi", k, amount))

\* createOrUpdatePrice, for an administrator.
SavePrice(h, c, k, amount) ==
  /\ services[c] = "live"
  /\ Starts(h, c, Saving("findPrice", k, amount))

\* deleteService: the service is found.
DeleteService(h, c) ==
  /\ services[c] = "live"
  /\ Starts(h, c, [NoRequest EXCEPT !.pc = "dropPrices"])

\* restoreService: the deleted service is found.
RestoreService(h, c) ==
  /\ services[c] = "deleted"
  /\ Starts(h, c, [NoRequest EXCEPT !.pc = "recoverService"])

-----------------------------------------------------------------------------
(* Saving.                                                                  *)

\* A service that exists is saved as it was read: not deleted.
ResaveService(h) ==
  /\ Waits(h, "saveService")
  /\ services' = [services EXCEPT ![request[h].code] = "live"]
  /\ Goes(h, "findService")
  /\ UNCHANGED <<prices, disturbed, failures>>

\* hasService: the SMS source offers the service, or it does not.
AskApi(h) ==
  /\ Waits(h, "askApi")
  /\ Goes(h, "insertService") \/ Ends(h)
  /\ UNCHANGED <<services, prices, disturbed, failures>>

\* The unique index refuses a code that has a row, even a deleted one.
InsertService(h) ==
  /\ Waits(h, "insertService")
  /\ IF services[request[h].code] = "none"
       THEN /\ services' = [services EXCEPT ![request[h].code] = "live"]
            /\ Goes(h, "findService")
       ELSE Ends(h) /\ UNCHANGED services
  /\ UNCHANGED <<prices, disturbed, failures>>

\* createOrUpdatePrice looks the service up ...
FindService(h) ==
  /\ Waits(h, "findService")
  /\ IF services[request[h].code] = "live" THEN Goes(h, "findPrice") ELSE Ends(h)
  /\ UNCHANGED <<services, prices, disturbed, failures>>

\* Mutant of Priced.
NeverPriced(h) == {}

Priced(h) == LivePrices(request[h].code, request[h].country)

\* ... then a price of it ...
FindPrice(h) ==
  /\ Waits(h, "findPrice")
  /\ \/ Priced(h) = {} /\ Goes(h, "insertPrice")
     \/ \E i \in Priced(h) :
          request' = [request EXCEPT ![h].pc = "savePrice", ![h].rows = {i}]
  /\ UNCHANGED <<services, prices, disturbed, failures>>

\* ... and saves the row as it was read, with the new amount, ...
SaveRow(h) ==
  /\ Waits(h, "savePrice")
  /\ prices' = [i \in 1..Len(prices) |->
                  IF i \in request[h].rows
                    THEN [prices[i] EXCEPT !.amount = request[h].amount, !.live = TRUE]
                    ELSE prices[i]]
  /\ Ends(h)
  /\ UNCHANGED <<services, disturbed, failures>>

\* Mutant of NewPrice.
NewPriceWithoutCountry(h) ==
  [code |-> request[h].code, country |-> "none",
   amount |-> request[h].amount, live |-> TRUE]

NewPrice(h) ==
  [code |-> request[h].code, country |-> request[h].country,
   amount |-> request[h].amount, live |-> TRUE]

\* ... or inserts one.
InsertPrice(h) ==
  /\ Waits(h, "insertPrice")
  /\ Len(prices) < MaxPrices
  /\ prices' = Append(prices, NewPrice(h))
  /\ Ends(h)
  /\ UNCHANGED <<services, disturbed, failures>>

-----------------------------------------------------------------------------
(* Taking a service down and putting it back.                               *)

\* softDelete of the prices, then softRemove of the service.
DropPrices(h) ==
  /\ Waits(h, "dropPrices")
  /\ prices' = [i \in 1..Len(prices) |->
                  [prices[i] EXCEPT !.live = @ /\ i \notin PricesOf(request[h].code)]]
  /\ Goes(h, "dropService")
  /\ UNCHANGED <<services, disturbed, failures>>

DropService(h) ==
  /\ Waits(h, "dropService")
  /\ services' = [services EXCEPT ![request[h].code] = "deleted"]
  /\ Ends(h)
  /\ UNCHANGED <<prices, disturbed, failures>>

RecoverService(h) ==
  /\ Waits(h, "recoverService")
  /\ services' = [services EXCEPT ![request[h].code] = "live"]
  /\ Goes(h, "findDropped")
  /\ UNCHANGED <<prices, disturbed, failures>>

\* Mutant of Recoverable.
RecoverableFirst(c) == IF Dropped(c) = {} THEN {} ELSE {CHOOSE i \in Dropped(c) : TRUE}

Recoverable(c) == Dropped(c)

FindDropped(h) ==
  /\ Waits(h, "findDropped")
  /\ request' = [request EXCEPT ![h].pc = "recoverPrices",
                                ![h].rows = Recoverable(request[h].code)]
  /\ UNCHANGED <<services, prices, disturbed, failures>>

\* Promise.all: the prices are recovered in any order.
RecoverPrice(h) ==
  /\ Waits(h, "recoverPrices")
  /\ \E i \in request[h].rows :
       /\ prices' = [prices EXCEPT ![i].live = TRUE]
       /\ request' = [request EXCEPT ![h].rows = @ \ {i}]
  /\ UNCHANGED <<services, disturbed, failures>>

Restored(h) ==
  /\ Waits(h, "recoverPrices")
  /\ request[h].rows = {}
  /\ Ends(h)
  /\ UNCHANGED <<services, prices, disturbed, failures>>

-----------------------------------------------------------------------------
HalfDone(h) == request[h].pc \in {"dropService", "findDropped", "recoverPrices"}

\* A query rejects, the source does not answer, or the process dies.
Fail(h) ==
  /\ ~Waits(h, "none")
  /\ failures < MaxFailures
  /\ failures' = failures + 1
  /\ disturbed' = IF HalfDone(h) THEN disturbed \cup {request[h].code} ELSE disturbed
  /\ Ends(h)
  /\ UNCHANGED <<services, prices>>

Start(h) ==
  \E c \in Code :
    \/ \E k \in Country, amount \in Amount : SaveService(h, c, k, amount)
    \/ \E k \in Country, amount \in Amount : SavePrice(h, c, k, amount)
    \/ DeleteService(h, c)
    \/ RestoreService(h, c)

Serve(h) ==
  \/ ResaveService(h)
  \/ AskApi(h)
  \/ InsertService(h)
  \/ FindService(h)
  \/ FindPrice(h)
  \/ SaveRow(h)
  \/ InsertPrice(h)
  \/ DropPrices(h)
  \/ DropService(h)
  \/ RecoverService(h)
  \/ FindDropped(h)
  \/ RecoverPrice(h)
  \/ Restored(h)

CatalogNext == \E h \in Handler : Start(h) \/ Serve(h) \/ Fail(h)

CatalogSpec == CatalogInit /\ [][CatalogNext]_vars

-----------------------------------------------------------------------------
(* Properties.                                                              *)

\* Tables and requests are well formed.
CatalogTypeOK ==
  /\ services \in [Code -> ServiceRow]
  /\ prices \in Seq(Price)
  /\ \A h \in Handler :
       request[h] \in [pc : Pc, rows : SUBSET (1..Len(prices)),
                       code : Code \cup {"none"}, country : Country \cup {"none"},
                       amount : Amount \cup {0}]
  /\ disturbed \subseteq Code
  /\ failures \in 0..MaxFailures

\* At every moment, in the middle of any request, a service that was left in
\* peace has at most one live price in a country, so getPrice cannot find two,
\* and a live price belongs to a live service: getPrices does not look at it.
ShelfInv ==
  \A c \in Code \ disturbed, k \in Country :
    /\ Cardinality(LivePrices(c, k)) <= 1
    /\ LivePrices(c, k) # {} => services[c] = "live"

\* What customers see of c, and what is put aside.
Shelf(c) ==
  [k \in Country |->
     {prices[i].amount : i \in {j \in LivePrices(c, k) : services[c] = "live"}}]
Back(c) ==
  [k \in Country |->
     {prices[i].amount : i \in {j \in Dropped(c) : prices[j].country = k}}]

Abstract(c) == INSTANCE Shop WITH shelf <- Shelf(c), back <- Back(c)

ShopStep(c) ==
  \/ c \in disturbed'
  \/ Abstract(c)!Next
  \/ UNCHANGED <<Shelf(c), Back(c)>>

\* Every service behaves as the shop promises, whatever requests do to other
\* services, for as long as no request on it overlaps another or dies half-way.
ShopSpec ==
  /\ \A c \in Code : Abstract(c)!Init
  /\ [][\A c \in Code : ShopStep(c)]_vars

=============================================================================
