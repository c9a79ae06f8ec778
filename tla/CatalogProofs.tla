--------------------------- MODULE CatalogProofs ---------------------------
(***************************************************************************)
(* Theorems about Catalog and Listings, for any dictionary, any prices and *)
(* any number of requests and listings: what administrators do to one      *)
(* service keeps its shelf in order, and implements the shop of module     *)
(* Shop, for as long as no two requests on it overlap and none dies        *)
(* half-way; and a listing that reads two tables at two moments shows the  *)
(* shelf of one.                                                           *)
(*                                                                         *)
(* The invariant says, for every service left in peace, that at most one   *)
(* request works on it and that its rows are those the place of this       *)
(* request calls for (Tidy).                                               *)
(***************************************************************************)
EXTENDS Listings, SequenceTheorems, FiniteSetTheorems, TLAPS

Request == [pc : Pc, rows : SUBSET Nat, code : Code \cup {"none"},
            country : Country \cup {"none"}, amount : Amount \cup {0}]

Works(h, c) == request[h].pc # "none" /\ request[h].code = c

SavingPc == {"saveService", "askApi", "insertService", "findService", "findPrice",
            "savePrice", "insertPrice"}

\* What a request carries is of its service, disturbed or not.
Fits(r) ==
  /\ r.pc # "none" => r.code \in Code
  /\ r.pc \in SavingPc => r.country \in Country /\ r.amount \in Amount
  /\ \A i \in r.rows : i \in PricesOf(r.code)

NoneLive(c) == \A i \in PricesOf(c) : ~prices[i].live

\* The rows of service c, when r is the only request on it, or is none.
Tidy(c, r) ==
  /\ \A i, j \in PricesOf(c) : prices[i].country = prices[j].country => i = j
  /\ services[c] = "none" => PricesOf(c) = {}
  /\ services[c] = "deleted" => NoneLive(c)
  /\ services[c] = "live" =>
       r.pc \in {"dropService", "findDropped", "recoverPrices"} \/ Dropped(c) = {}
  /\ r.pc \in {"saveService", "findService", "findPrice", "savePrice", "insertPrice",
               "dropPrices", "dropService", "findDropped", "recoverPrices"}
       => services[c] = "live"
  /\ r.pc \in {"askApi", "insertService"} => services[c] # "live"
  /\ r.pc = "recoverService" => services[c] = "deleted"
  /\ r.pc = "savePrice" => \E i \in LivePrices(c, r.country) : r.rows = {i}
  /\ r.pc = "insertPrice" => LivePrices(c, r.country) = {}
  /\ r.pc \in {"dropService", "findDropped"} => NoneLive(c)
  /\ r.pc = "recoverPrices" => r.rows = Dropped(c)

PeaceInv ==
  \A c \in Code \ disturbed :
    /\ \A g, h \in Handler : Works(g, c) /\ Works(h, c) => g = h
    /\ \A h \in Handler : Works(h, c) => Tidy(c, request[h])
    /\ (\A h \in Handler : ~Works(h, c)) => Tidy(c, NoRequest)

\* The inductive invariant.
CatalogInv ==
  /\ services \in [Code -> ServiceRow]
  /\ prices \in Seq(Price)
  /\ request \in [Handler -> Request]
  /\ disturbed \subseteq Code
  /\ failures \in 0..MaxFailures
  /\ \A h \in Handler : Fits(request[h])
  /\ PeaceInv

-----------------------------------------------------------------------------
\* Tables and their rows.
LEMMA PricesType ==
  ASSUME CatalogInv
  PROVE  /\ prices \in Seq(Price) /\ Len(prices) \in Nat
         /\ \A i \in 1..Len(prices) : prices[i] \in Price
  BY ElementOfSeq, LenProperties DEF CatalogInv

\* No request carries no row.
LEMMA NoRequestType ==
  /\ NoRequest \in Request /\ NoRequest.pc = "none" /\ NoRequest.rows = {}
  /\ Fits(NoRequest)
<1>1. NoRequest \in Request /\ NoRequest.pc = "none" /\ NoRequest.rows = {}
  BY DEF NoRequest, Request, Pc
<1> QED BY <1>1 DEF Fits, SavingPc

\* Nothing is on any shelf yet.
LEMMA CatalogInitInv == CatalogInit => CatalogInv
<1> SUFFICES ASSUME CatalogInit PROVE CatalogInv
  OBVIOUS
<1>1. prices = <<>> /\ prices \in Seq(Price) /\ Len(prices) = 0
  BY EmptySeq DEF CatalogInit
<1>2. \A h \in Handler : request[h] = NoRequest
  BY DEF CatalogInit
<1>3. \A c \in Code : PricesOf(c) = {} /\ services[c] = "none"
  BY <1>1 DEF PricesOf, CatalogInit
<1>4. \A c \in Code : Tidy(c, NoRequest)
  BY <1>3, NoRequestType DEF Tidy
<1>5. PeaceInv
  BY <1>2, <1>4, NoRequestType DEF PeaceInv, Works
<1> QED
  BY <1>1, <1>2, <1>5, NoRequestType, CatalogAssumption DEF CatalogInv, CatalogInit, ServiceRow

\* A request on service d that leaves the tables in order for itself keeps the
\* invariant: it touches no row of another service, and works on d alone unless
\* d is disturbed.
LEMMA RequestStep ==
  ASSUME CatalogInv, NEW h \in Handler, NEW d \in Code, NEW r \in Request,
         request' = [request EXCEPT ![h] = r],
         request[h].pc = "none" \/ request[h].code = d,
         r.pc = "none" \/ r.code = d,
         services' \in [Code -> ServiceRow],
         \A c \in Code : c # d => services'[c] = services[c],
         prices' \in Seq(Price), Len(prices) <= Len(prices'),
         \A i \in 1..Len(prices) :
           /\ prices'[i].code = prices[i].code
           /\ prices[i].code # d => prices'[i] = prices[i],
         \A i \in 1..Len(prices') : i \notin 1..Len(prices) => prices'[i].code = d,
         disturbed' \subseteq Code, \A c \in disturbed : c \in disturbed',
         failures' \in 0..MaxFailures,
         Fits(r)',
         d \notin disturbed' =>
           /\ Tidy(d, r)'
           /\ \A g \in Handler : g # h => ~Works(g, d)
  PROVE  CatalogInv'
<1>1. Len(prices) \in Nat /\ Len(prices') \in Nat
  BY PricesType, LenProperties
<1>2. \A g \in Handler : request'[g] = IF g = h THEN r ELSE request[g]
  BY DEF CatalogInv
<1>3. \A c \in Code : \A i \in PricesOf(c) : i \in PricesOf(c)'
  BY <1>1 DEF PricesOf
<1>4. ASSUME NEW c \in Code, c # d
      PROVE  /\ PricesOf(c)' = PricesOf(c)
             /\ \A i \in PricesOf(c) : prices'[i] = prices[i]
             /\ services'[c] = services[c]
  BY <1>1, <1>4 DEF PricesOf
<1>5. \A g \in Handler : Fits(request[g])'
  <2> SUFFICES ASSUME NEW g \in Handler, g # h PROVE Fits(request[g])'
    BY <1>2
  <2>1. Fits(request[g]) /\ request'[g] = request[g]
    BY <1>2 DEF CatalogInv
  <2>2. ASSUME NEW i \in request[g].rows PROVE i \in PricesOf(request[g].code)'
    <3>1. i \in PricesOf(request[g].code)
      BY <2>1 DEF Fits
    <3> QED BY <1>1, <3>1 DEF PricesOf
  <2> QED BY <2>1, <2>2 DEF Fits, PricesOf
<1>6. ASSUME NEW c \in Code, c # d, NEW q
      PROVE  Tidy(c, q)' <=> Tidy(c, q)
  <2>1. /\ PricesOf(c)' = PricesOf(c)
        /\ \A i \in PricesOf(c) : prices'[i] = prices[i]
        /\ services'[c] = services[c]
    BY <1>4, <1>6
  <2>2. Dropped(c)' = Dropped(c) /\ (NoneLive(c)' <=> NoneLive(c))
    BY <2>1 DEF Dropped, NoneLive
  <2>3. LivePrices(c, q.country)' = LivePrices(c, q.country)
    BY <2>1 DEF LivePrices
  <2> QED BY SMTT(30), <2>1, <2>2, <2>3 DEF Tidy
<1>7. PeaceInv'
  <2> SUFFICES ASSUME NEW c \in Code, c \notin disturbed'
               PROVE  (/\ \A f, g \in Handler : Works(f, c) /\ Works(g, c) => f = g
                       /\ \A g \in Handler : Works(g, c) => Tidy(c, request[g])
                       /\ (\A g \in Handler : ~Works(g, c)) => Tidy(c, NoRequest))'
    BY DEF PeaceInv
  <2>1. /\ \A f, g \in Handler : Works(f, c) /\ Works(g, c) => f = g
        /\ \A g \in Handler : Works(g, c) => Tidy(c, request[g])
        /\ (\A g \in Handler : ~Works(g, c)) => Tidy(c, NoRequest)
    BY DEF CatalogInv, PeaceInv
  <2>2. CASE c = d
    <3>1. Tidy(d, r)' /\ \A g \in Handler : g # h => ~Works(g, d)'
      BY <1>2, <2>2 DEF Works
    <3>2. r.pc = "none" => Tidy(d, NoRequest)'
      BY <3>1, NoRequestType DEF Tidy
    <3> QED BY <1>2, <2>2, <3>1, <3>2 DEF Works
  <2>3. CASE c # d
    <3>1. \A g \in Handler : Works(g, c)' <=> Works(g, c)
      BY <1>2, <2>3 DEF Works
    <3>2. ASSUME NEW g \in Handler, Works(g, c)' PROVE Tidy(c, request[g])'
      <4>1. g # h /\ request'[g] = request[g]
        BY <1>2, <2>3, <3>2 DEF Works
      <4>2. Tidy(c, request[g])
        BY <2>1, <3>1, <3>2
      <4>3. Tidy(c, request[g])' <=> Tidy(c, request[g])
        <5>1. /\ PricesOf(c)' = PricesOf(c)
              /\ \A i \in PricesOf(c) : prices'[i] = prices[i]
              /\ services'[c] = services[c]
          BY <1>4, <2>3
        <5>2. Dropped(c)' = Dropped(c) /\ (NoneLive(c)' <=> NoneLive(c))
          BY <5>1 DEF Dropped, NoneLive
        <5>3. LivePrices(c, request[g].country)' = LivePrices(c, request[g].country)
          BY <4>1, <5>1 DEF LivePrices
        <5> QED BY <4>1, <5>1, <5>2, <5>3 DEF Tidy
      <4> QED BY <4>2, <4>3
    <3>3. Tidy(c, NoRequest) => Tidy(c, NoRequest)'
      BY <1>6, <2>3
    <3> QED BY <2>1, <3>1, <3>2, <3>3
  <2> QED BY <2>2, <2>3
<1> QED BY <1>2, <1>5, <1>7 DEF CatalogInv

\* A request at work: its service, and the order it finds there when the service
\* is left in peace.
LEMMA Working ==
  ASSUME CatalogInv, NEW h \in Handler, request[h].pc # "none"
  PROVE  /\ request[h] \in Request /\ Fits(request[h]) /\ request[h].code \in Code
         /\ request[h].code \notin disturbed =>
              /\ Tidy(request[h].code, request[h])
              /\ \A g \in Handler : g # h => ~Works(g, request[h].code)
  BY DEF CatalogInv, Fits, PeaceInv, Works

\* A request that goes on or ends without writing a table.
LEMMA ReadStep ==
  ASSUME CatalogInv, NEW h \in Handler, request[h].pc # "none",
         NEW r \in Request, request' = [request EXCEPT ![h] = r],
         UNCHANGED <<services, prices>>,
         disturbed' \subseteq Code, \A c \in disturbed : c \in disturbed',
         failures' \in 0..MaxFailures,
         r.pc = "none" \/ r.code = request[h].code,
         Fits(r),
         request[h].code \notin disturbed' =>
           (Tidy(request[h].code, request[h]) => Tidy(request[h].code, r))
  PROVE  CatalogInv'
<1>0. PICK d \in Code : d = request[h].code
  BY Working
<1>1. /\ d \notin disturbed => /\ Tidy(d, request[h])
                              /\ \A g \in Handler : g # h => ~Works(g, d)
  BY <1>0, Working
<1>2. \A c \in Code : Tidy(c, r) => Tidy(c, r)'
  BY DEF Tidy, PricesOf, Dropped, LivePrices, NoneLive
<1>3. Fits(r)'
  BY DEF Fits, PricesOf
<1>4. d \notin disturbed' => Tidy(d, r)' /\ \A g \in Handler : g # h => ~Works(g, d)
  BY <1>0, <1>1, <1>2
<1>5. services' \in [Code -> ServiceRow] /\ prices' \in Seq(Price) /\ Len(prices) <= Len(prices')
  BY PricesType DEF CatalogInv
<1>6. /\ \A c \in Code : c # d => services'[c] = services[c]
      /\ \A i \in 1..Len(prices) : /\ prices'[i].code = prices[i].code
                                   /\ prices[i].code # d => prices'[i] = prices[i]
      /\ \A i \in 1..Len(prices') : i \notin 1..Len(prices) => prices'[i].code = d
  OBVIOUS
<1>7. request[h].pc = "none" \/ request[h].code = d
  BY <1>0
<1>8. r.pc = "none" \/ r.code = d
  BY <1>0
<1> QED BY <1>1, <1>3, <1>4, <1>5, <1>6, <1>7, <1>8, RequestStep

\* A request that ends without writing a table: only the places from which a
\* request must not vanish are excepted.
LEMMA EndStep ==
  ASSUME CatalogInv, NEW h \in Handler, request[h].pc # "none", Ends(h),
         UNCHANGED <<services, prices>>,
         disturbed' \subseteq Code, \A c \in disturbed : c \in disturbed',
         failures' \in 0..MaxFailures,
         \/ request[h].code \in disturbed'
         \/ request[h].pc \notin {"dropService", "findDropped", "recoverPrices"}
         \/ Tidy(request[h].code, request[h]) => Dropped(request[h].code) = {}
  PROVE  CatalogInv'
<1>1. Tidy(request[h].code, request[h]) =>
        request[h].code \in disturbed' \/ Tidy(request[h].code, NoRequest)
  BY NoRequestType DEF Tidy
<1>2. request' = [request EXCEPT ![h] = NoRequest]
  BY DEF Ends
<1>3. request[h].code \notin disturbed' =>
        (Tidy(request[h].code, request[h]) => Tidy(request[h].code, NoRequest))
  BY <1>1
<1> QED BY <1>2, <1>3, NoRequestType, ReadStep

\* A request that starts on a service another works on disturbs it.
LEMMA StartStep ==
  ASSUME CatalogInv, NEW h \in Handler, NEW c \in Code, NEW r \in Request,
         Waits(h, "none"), r.code = c, r.rows = {}, r.pc # "none",
         request' = [request EXCEPT ![h] = r],
         disturbed' = IF InFlight(c) THEN disturbed \cup {c} ELSE disturbed,
         UNCHANGED <<services, prices, failures>>,
         r.pc \in SavingPc => r.country \in Country /\ r.amount \in Amount,
         Tidy(c, NoRequest) => Tidy(c, r)
  PROVE  CatalogInv'
<1>1. request[h].pc = "none"
  BY DEF Waits
<1>2. Fits(r)'
  BY DEF Fits, PricesOf
<1>3. ASSUME c \notin disturbed'
      PROVE  /\ Tidy(c, r)'
             /\ \A g \in Handler : g # h => ~Works(g, c)
  <2>1. \A g \in Handler : ~Works(g, c)
    BY <1>3 DEF InFlight, Works
  <2>2. Tidy(c, NoRequest)
    BY <1>3, <2>1 DEF CatalogInv, PeaceInv
  <2>3. Tidy(c, r) => Tidy(c, r)'
    BY DEF Tidy, PricesOf, Dropped, LivePrices, NoneLive
  <2> QED BY <2>1, <2>2, <2>3
<1>4. /\ disturbed' \subseteq Code /\ failures' \in 0..MaxFailures
      /\ services' \in [Code -> ServiceRow] /\ prices' \in Seq(Price)
      /\ Len(prices) <= Len(prices')
  BY PricesType DEF CatalogInv
<1>5. \A b \in disturbed : b \in disturbed'
  OBVIOUS
<1>6. /\ \A b \in Code : b # c => services'[b] = services[b]
      /\ \A i \in 1..Len(prices) : /\ prices'[i].code = prices[i].code
                                   /\ prices[i].code # c => prices'[i] = prices[i]
      /\ \A i \in 1..Len(prices') : i \notin 1..Len(prices) => prices'[i].code = c
  OBVIOUS
<1> QED BY <1>1, <1>2, <1>3, <1>4, <1>5, <1>6, RequestStep

\* What a request that starts carries.
LEMMA SavingType ==
  ASSUME NEW c \in Code, NEW k \in Country, NEW amount \in Amount, NEW pc \in Pc
  PROVE  LET r == [Saving(pc, k, amount) EXCEPT !.code = c] IN
         /\ r \in Request /\ r.pc = pc /\ r.code = c /\ r.rows = {}
         /\ r.country = k /\ r.amount = amount
  BY DEF Saving, NoRequest, Request

LEMMA MovingType ==
  ASSUME NEW c \in Code, NEW pc \in Pc
  PROVE  LET r == [[NoRequest EXCEPT !.pc = pc] EXCEPT !.code = c] IN
         /\ r \in Request /\ r.pc = pc /\ r.code = c /\ r.rows = {}
  BY DEF NoRequest, Request

\* The four requests of an administrator.
LEMMA AdministratorStarts ==
  ASSUME CatalogInv, NEW h \in Handler, Start(h)
  PROVE  CatalogInv'
<1>1. ASSUME NEW c \in Code, NEW k \in Country, NEW amount \in Amount, SaveService(h, c, k, amount)
      PROVE  CatalogInv'
  <2> DEFINE pc == IF services[c] = "live" THEN "saveService" ELSE "askApi"
             r == [Saving(pc, k, amount) EXCEPT !.code = c]
  <2>1. pc \in Pc /\ pc # "none"
    BY DEF Pc
  <2>2. /\ r \in Request /\ r.pc = pc /\ r.code = c /\ r.rows = {}
        /\ r.country = k /\ r.amount = amount
    BY <2>1, SavingType
  <2>3. /\ Waits(h, "none")
        /\ request' = [request EXCEPT ![h] = r]
        /\ disturbed' = IF InFlight(c) THEN disturbed \cup {c} ELSE disturbed
        /\ UNCHANGED <<services, prices, failures>>
    BY <1>1 DEF SaveService, Starts
  <2> HIDE DEF r
  <2>4. Tidy(c, NoRequest) => Tidy(c, r)
    BY <2>2, NoRequestType DEF Tidy
  <2> QED BY <2>1, <2>2, <2>3, <2>4, StartStep
<1>2. ASSUME NEW c \in Code, NEW k \in Country, NEW amount \in Amount, SavePrice(h, c, k, amount)
      PROVE  CatalogInv'
  <2> DEFINE r == [Saving("findPrice", k, amount) EXCEPT !.code = c]
  <2>1. "findPrice" \in Pc
    BY DEF Pc
  <2>2. /\ r \in Request /\ r.pc = "findPrice" /\ r.code = c /\ r.rows = {}
        /\ r.country = k /\ r.amount = amount
    BY <2>1, SavingType
  <2>3. /\ Waits(h, "none") /\ services[c] = "live"
        /\ request' = [request EXCEPT ![h] = r]
        /\ disturbed' = IF InFlight(c) THEN disturbed \cup {c} ELSE disturbed
        /\ UNCHANGED <<services, prices, failures>>
    BY <1>2 DEF SavePrice, Starts
  <2> HIDE DEF r
  <2>4. Tidy(c, NoRequest) => Tidy(c, r)
    BY <2>2, <2>3, NoRequestType DEF Tidy
  <2> QED BY <2>2, <2>3, <2>4, StartStep
<1>3. ASSUME NEW c \in Code, NEW pc \in {"dropPrices", "recoverService"},
             Starts(h, c, [NoRequest EXCEPT !.pc = pc]),
             services[c] = IF pc = "dropPrices" THEN "live" ELSE "deleted"
      PROVE  CatalogInv'
  <2> DEFINE r == [[NoRequest EXCEPT !.pc = pc] EXCEPT !.code = c]
  <2>1. pc \in Pc
    BY DEF Pc
  <2>2. r \in Request /\ r.pc = pc /\ r.code = c /\ r.rows = {}
    BY <2>1, MovingType
  <2>3. /\ Waits(h, "none")
        /\ request' = [request EXCEPT ![h] = r]
        /\ disturbed' = IF InFlight(c) THEN disturbed \cup {c} ELSE disturbed
        /\ UNCHANGED <<services, prices, failures>>
    BY <1>3 DEF Starts
  <2> HIDE DEF r
  <2>4. Tidy(c, NoRequest) => Tidy(c, r)
    BY <1>3, <2>2, NoRequestType DEF Tidy
  <2> QED BY <2>2, <2>3, <2>4, StartStep DEF SavingPc
<1>4. ASSUME NEW c \in Code, DeleteService(h, c) PROVE CatalogInv'
  BY <1>3, <1>4 DEF DeleteService
<1>5. ASSUME NEW c \in Code, RestoreService(h, c) PROVE CatalogInv'
  BY <1>3, <1>5 DEF RestoreService
<1> QED BY <1>1, <1>2, <1>4, <1>5 DEF Start

-----------------------------------------------------------------------------
(* One lemma per query.                                                     *)

\* A request that goes on carries what it carried.
LEMMA GoesType ==
  ASSUME CatalogInv, NEW h \in Handler, NEW pc \in Pc, Goes(h, pc)
  PROVE  \E r \in Request :
           /\ request' = [request EXCEPT ![h] = r]
           /\ r.pc = pc /\ r.rows = request[h].rows /\ r.code = request[h].code
           /\ r.country = request[h].country /\ r.amount = request[h].amount
<1> DEFINE r == [request[h] EXCEPT !.pc = pc]
<1>1. /\ request' = [request EXCEPT ![h] = r]
      /\ r \in Request /\ r.pc = pc /\ r.rows = request[h].rows
      /\ r.code = request[h].code /\ r.country = request[h].country
      /\ r.amount = request[h].amount
  BY DEF CatalogInv, Request, Goes
<1> QED BY <1>1

\* A request that writes its service and goes on or ends.
LEMMA ServiceStep ==
  ASSUME CatalogInv, NEW h \in Handler, request[h].pc # "none",
         NEW d \in Code, d = request[h].code,
         NEW state \in ServiceRow, services' = [services EXCEPT ![d] = state],
         NEW r \in Request, request' = [request EXCEPT ![h] = r],
         r.pc = "none" \/ r.code = d,
         UNCHANGED <<prices, disturbed, failures>>,
         Fits(r),
         Tidy(d, request[h]) => Tidy(d, r)'
  PROVE  CatalogInv'
<1>1. /\ services' \in [Code -> ServiceRow]
      /\ \A c \in Code : c # d => services'[c] = services[c]
  BY DEF CatalogInv
<1>2. prices' \in Seq(Price) /\ Len(prices) <= Len(prices')
  BY PricesType
<1>3. /\ disturbed' \subseteq Code /\ failures' \in 0..MaxFailures
      /\ \A c \in disturbed : c \in disturbed'
  BY DEF CatalogInv
<1>4. /\ \A i \in 1..Len(prices) : /\ prices'[i].code = prices[i].code
                                   /\ prices[i].code # d => prices'[i] = prices[i]
      /\ \A i \in 1..Len(prices') : i \notin 1..Len(prices) => prices'[i].code = d
  OBVIOUS
<1>5. Fits(r)'
  BY DEF Fits, PricesOf
<1>6. d \notin disturbed' => Tidy(d, r)' /\ \A g \in Handler : g # h => ~Works(g, d)
  BY Working
<1> QED BY ZenonT(90), <1>1, <1>2, <1>3, <1>4, <1>5, <1>6, RequestStep

\* A request that writes prices of its service and goes on or ends.
LEMMA RowsStep ==
  ASSUME CatalogInv, NEW h \in Handler, request[h].pc # "none",
         NEW d \in Code, d = request[h].code,
         prices' \in Seq(Price), Len(prices) <= Len(prices'),
         \A i \in 1..Len(prices) :
           /\ prices'[i].code = prices[i].code
           /\ prices[i].code # d => prices'[i] = prices[i],
         \A i \in 1..Len(prices') : i \notin 1..Len(prices) => prices'[i].code = d,
         NEW r \in Request, request' = [request EXCEPT ![h] = r],
         r.pc = "none" \/ r.code = d,
         UNCHANGED <<services, disturbed, failures>>,
         Fits(r)',
         Tidy(d, request[h]) => Tidy(d, r)'
  PROVE  CatalogInv'
<1>1. /\ services' \in [Code -> ServiceRow]
      /\ \A c \in Code : c # d => services'[c] = services[c]
      /\ disturbed' \subseteq Code /\ failures' \in 0..MaxFailures
      /\ \A c \in disturbed : c \in disturbed'
  BY DEF CatalogInv
<1>2. d \notin disturbed' => Tidy(d, r)' /\ \A g \in Handler : g # h => ~Works(g, d)
  BY Working
<1> QED BY <1>1, <1>2, RequestStep

\* The rows a query changes one by one stay a table.
LEMMA RowsType ==
  ASSUME NEW n \in Nat, NEW table \in [1..n -> Price]
  PROVE  table \in Seq(Price) /\ Len(table) = n
<1>1. table \in Seq(Price)
  BY SeqDef
<1> QED BY <1>1, LenProperties

\* save() of a service that exists.
LEMMA ResaveServiceStep ==
  ASSUME CatalogInv, NEW h \in Handler, ResaveService(h)
  PROVE  CatalogInv'
<1>1. request[h].pc = "saveService"
  BY DEF ResaveService, Waits
<1>2. PICK d \in Code : d = request[h].code
  BY <1>1, Working
<1>3. PICK r \in Request :
        /\ request' = [request EXCEPT ![h] = r]
        /\ r.pc = "findService" /\ r.rows = request[h].rows /\ r.code = request[h].code
        /\ r.country = request[h].country /\ r.amount = request[h].amount
  BY GoesType DEF ResaveService, Pc
<1>4. /\ services' = [services EXCEPT ![d] = "live"]
      /\ UNCHANGED <<prices, disturbed, failures>>
  BY <1>2 DEF ResaveService
<1>5. Fits(r)
  BY <1>1, <1>3, Working DEF Fits, SavingPc
<1>6. ASSUME Tidy(d, request[h]) PROVE Tidy(d, r)'
  <2>1. services' = services
    BY <1>1, <1>4, <1>6 DEF Tidy, CatalogInv
  <2> QED BY <1>1, <1>3, <1>4, <1>6, <2>1 DEF Tidy, PricesOf, Dropped, LivePrices, NoneLive
<1>7. "live" \in ServiceRow
  BY DEF ServiceRow
<1> QED BY <1>1, <1>2, <1>3, <1>4, <1>5, <1>6, <1>7, ServiceStep

\* hasService answers.
LEMMA AskApiStep ==
  ASSUME CatalogInv, NEW h \in Handler, AskApi(h)
  PROVE  CatalogInv'
<1>1. /\ request[h].pc = "askApi"
      /\ UNCHANGED <<services, prices, disturbed, failures>>
  BY DEF AskApi, Waits
<1>2. CASE Goes(h, "insertService")
  <2>1. PICK r \in Request :
          /\ request' = [request EXCEPT ![h] = r]
          /\ r.pc = "insertService" /\ r.rows = request[h].rows /\ r.code = request[h].code
          /\ r.country = request[h].country /\ r.amount = request[h].amount
    BY <1>2, GoesType DEF Pc
  <2>2. Fits(r)
    BY <1>1, <2>1, Working DEF Fits, SavingPc
  <2>3. Tidy(request[h].code, request[h]) => Tidy(request[h].code, r)
    BY <1>1, <2>1 DEF Tidy
  <2> QED BY <1>1, <2>1, <2>2, <2>3, ReadStep DEF CatalogInv
<1>3. CASE Ends(h)
  BY <1>1, <1>3, EndStep DEF CatalogInv
<1> QED BY <1>2, <1>3 DEF AskApi

\* INSERT of a service: refused by the index, or the first row of its code.
LEMMA InsertServiceStep ==
  ASSUME CatalogInv, NEW h \in Handler, InsertService(h)
  PROVE  CatalogInv'
<1>1. /\ request[h].pc = "insertService"
      /\ UNCHANGED <<prices, disturbed, failures>>
  BY DEF InsertService, Waits
<1>2. PICK d \in Code : d = request[h].code
  BY <1>1, Working
<1>3. CASE services[d] = "none"
  <2>1. PICK r \in Request :
          /\ request' = [request EXCEPT ![h] = r]
          /\ r.pc = "findService" /\ r.rows = request[h].rows /\ r.code = request[h].code
          /\ r.country = request[h].country /\ r.amount = request[h].amount
    BY <1>2, <1>3, GoesType DEF InsertService, Pc
  <2>2. services' = [services EXCEPT ![d] = "live"] /\ "live" \in ServiceRow
    BY <1>2, <1>3 DEF InsertService, ServiceRow
  <2>3. Fits(r)
    BY <1>1, <2>1, Working DEF Fits, SavingPc
  <2>4. ASSUME Tidy(d, request[h]) PROVE Tidy(d, r)'
    <3>1. PricesOf(d) = {} /\ PricesOf(d)' = PricesOf(d) /\ services'[d] = "live"
      BY <1>1, <1>3, <2>2, <2>4 DEF Tidy, PricesOf, CatalogInv
    <3> QED BY <2>1, <3>1 DEF Tidy, Dropped, NoneLive
  <2> QED BY <1>1, <1>2, <2>1, <2>2, <2>3, <2>4, ServiceStep
<1>4. CASE services[d] # "none"
  BY <1>1, <1>2, <1>4, EndStep DEF InsertService, CatalogInv
<1> QED BY <1>3, <1>4

\* createOrUpdatePrice finds the service.
LEMMA FindServiceStep ==
  ASSUME CatalogInv, NEW h \in Handler, FindService(h)
  PROVE  CatalogInv'
<1>1. /\ request[h].pc = "findService"
      /\ UNCHANGED <<services, prices, disturbed, failures>>
  BY DEF FindService, Waits
<1>2. CASE Goes(h, "findPrice")
  <2>1. PICK r \in Request :
          /\ request' = [request EXCEPT ![h] = r]
          /\ r.pc = "findPrice" /\ r.rows = request[h].rows /\ r.code = request[h].code
          /\ r.country = request[h].country /\ r.amount = request[h].amount
    BY <1>2, GoesType DEF Pc
  <2>2. Fits(r)
    BY <1>1, <2>1, Working DEF Fits, SavingPc
  <2>3. Tidy(request[h].code, request[h]) => Tidy(request[h].code, r)
    BY <1>1, <2>1 DEF Tidy
  <2> QED BY <1>1, <2>1, <2>2, <2>3, ReadStep DEF CatalogInv
<1>3. CASE Ends(h)
  BY <1>1, <1>3, EndStep DEF CatalogInv
<1> QED BY <1>2, <1>3 DEF FindService

\* createOrUpdatePrice finds a price, or none.
LEMMA FindPriceStep ==
  ASSUME CatalogInv, NEW h \in Handler, FindPrice(h)
  PROVE  CatalogInv'
<1>1. /\ request[h].pc = "findPrice"
      /\ UNCHANGED <<services, prices, disturbed, failures>>
  BY DEF FindPrice, Waits
<1>2. CASE Priced(h) = {} /\ Goes(h, "insertPrice")
  <2>1. PICK r \in Request :
          /\ request' = [request EXCEPT ![h] = r]
          /\ r.pc = "insertPrice" /\ r.rows = request[h].rows /\ r.code = request[h].code
          /\ r.country = request[h].country /\ r.amount = request[h].amount
    BY <1>2, GoesType DEF Pc
  <2>2. Fits(r)
    BY <1>1, <2>1, Working DEF Fits, SavingPc
  <2>3. Tidy(request[h].code, request[h]) => Tidy(request[h].code, r)
    BY <1>1, <1>2, <2>1 DEF Tidy, Priced
  <2> QED BY <1>1, <2>1, <2>2, <2>3, ReadStep DEF CatalogInv
<1>3. ASSUME NEW i \in Priced(h),
             request' = [request EXCEPT ![h].pc = "savePrice", ![h].rows = {i}]
      PROVE  CatalogInv'
  <2> DEFINE q == [request[h] EXCEPT !.pc = "savePrice", !.rows = {i}]
  <2>1. i \in LivePrices(request[h].code, request[h].country) /\ i \in Nat
    BY DEF Priced, LivePrices, PricesOf
  <2>2. /\ request' = [request EXCEPT ![h] = q]
        /\ q \in Request /\ q.pc = "savePrice" /\ q.rows = {i} /\ q.code = request[h].code
        /\ q.country = request[h].country /\ q.amount = request[h].amount
    BY <1>3, <2>1 DEF CatalogInv, Request, Pc
  <2>3. PICK r \in Request : r = q
    BY <2>2
  <2> HIDE DEF q
  <2>4. Fits(r)
    BY <1>1, <2>1, <2>2, <2>3, Working DEF Fits, SavingPc, LivePrices
  <2>5. Tidy(request[h].code, request[h]) => Tidy(request[h].code, r)
    BY <1>1, <2>1, <2>2, <2>3 DEF Tidy
  <2> QED BY <1>1, <2>2, <2>3, <2>4, <2>5, ReadStep DEF CatalogInv
<1> QED BY <1>2, <1>3 DEF FindPrice

\* What save() of the price that was found writes: the amount, of a row of the
\* request's service.
LEMMA SaveRowEffect ==
  ASSUME CatalogInv, NEW h \in Handler, SaveRow(h)
  PROVE  /\ prices' \in Seq(Price) /\ Len(prices') = Len(prices)
         /\ \A i \in request[h].rows : i \in PricesOf(request[h].code)
         /\ \A i \in 1..Len(prices) :
              /\ prices'[i].code = prices[i].code
              /\ prices'[i].country = prices[i].country
              /\ i \in request[h].rows =>
                   prices'[i].live /\ prices'[i].amount = request[h].amount
              /\ i \notin request[h].rows => prices'[i] = prices[i]
<1>1. prices' = [i \in 1..Len(prices) |->
                   IF i \in request[h].rows
                     THEN [prices[i] EXCEPT !.amount = request[h].amount, !.live = TRUE]
                     ELSE prices[i]]
  BY DEF SaveRow
<1>2. /\ request[h].amount \in Amount
      /\ \A i \in request[h].rows : i \in PricesOf(request[h].code)
  BY Working DEF SaveRow, Waits, Fits, SavingPc
<1>3. \A i \in 1..Len(prices) :
        /\ prices'[i] \in Price
        /\ prices'[i].code = prices[i].code
        /\ prices'[i].country = prices[i].country
        /\ i \in request[h].rows =>
             prices'[i].live /\ prices'[i].amount = request[h].amount
        /\ i \notin request[h].rows => prices'[i] = prices[i]
  BY <1>1, <1>2, PricesType DEF Price
<1>4. prices' \in [1..Len(prices) -> Price]
  BY <1>1, <1>3
<1>5. prices' \in Seq(Price) /\ Len(prices') = Len(prices)
  BY <1>4, PricesType, RowsType
<1> QED BY <1>2, <1>3, <1>5

\* What the INSERT of a price writes: one more row of the request's service.
LEMMA InsertPriceEffect ==
  ASSUME CatalogInv, NEW h \in Handler, InsertPrice(h)
  PROVE  LET n == Len(prices) + 1 IN
         /\ prices' \in Seq(Price) /\ Len(prices') = n
         /\ \A i \in 1..Len(prices) : prices'[i] = prices[i]
         /\ prices'[n] = NewPrice(h)
         /\ NewPrice(h).code = request[h].code
         /\ NewPrice(h).country = request[h].country
         /\ NewPrice(h).amount = request[h].amount
         /\ NewPrice(h).live
         /\ \A c : PricesOf(c)' = IF c = request[h].code THEN PricesOf(c) \cup {n}
                                                      ELSE PricesOf(c)
<1>1. NewPrice(h) \in Price
  BY Working DEF InsertPrice, Waits, Fits, SavingPc, NewPrice, Price
<1>2. prices' = Append(prices, NewPrice(h))
  BY DEF InsertPrice
<1>3. /\ prices' \in Seq(Price) /\ Len(prices') = Len(prices) + 1
      /\ \A i \in 1..Len(prices) : prices'[i] = prices[i]
      /\ prices'[Len(prices) + 1] = NewPrice(h)
  BY <1>1, <1>2, PricesType, AppendProperties
<1>4. /\ NewPrice(h).code = request[h].code
      /\ NewPrice(h).country = request[h].country
      /\ NewPrice(h).amount = request[h].amount
      /\ NewPrice(h).live
  BY DEF NewPrice
<1>5. \A c : PricesOf(c)' = IF c = request[h].code THEN PricesOf(c) \cup {Len(prices) + 1}
                                                  ELSE PricesOf(c)
  BY <1>3, <1>4, PricesType DEF PricesOf
<1> QED BY <1>3, <1>4, <1>5

\* What softDelete of the prices writes: no live row of the service is left.
LEMMA DropPricesEffect ==
  ASSUME CatalogInv, NEW h \in Handler, DropPrices(h)
  PROVE  /\ prices' \in Seq(Price) /\ Len(prices') = Len(prices)
         /\ \A i \in 1..Len(prices) :
              /\ prices'[i].code = prices[i].code
              /\ prices'[i].country = prices[i].country
              /\ prices'[i].amount = prices[i].amount
              /\ i \in PricesOf(request[h].code) => ~prices'[i].live
              /\ i \notin PricesOf(request[h].code) => prices'[i] = prices[i]
<1>1. prices' = [i \in 1..Len(prices) |->
                   [prices[i] EXCEPT !.live = @ /\ i \notin PricesOf(request[h].code)]]
  BY DEF DropPrices
<1>2. ASSUME NEW i \in 1..Len(prices)
      PROVE  /\ prices'[i] \in Price
             /\ prices'[i].code = prices[i].code
             /\ prices'[i].country = prices[i].country
             /\ prices'[i].amount = prices[i].amount
             /\ i \in PricesOf(request[h].code) => ~prices'[i].live
             /\ i \notin PricesOf(request[h].code) => prices'[i] = prices[i]
  <2>1. prices[i] \in Price
    BY PricesType
  <2>2. prices'[i] = [prices[i] EXCEPT !.live = /\ prices[i].live
                                                /\ i \notin PricesOf(request[h].code)]
    BY <1>1
  <2> QED BY <2>1, <2>2 DEF Price
<1>3. prices' \in [1..Len(prices) -> Price]
  BY <1>1, <1>2
<1>4. prices' \in Seq(Price) /\ Len(prices') = Len(prices)
  BY <1>3, PricesType, RowsType
<1> QED BY <1>2, <1>4

\* What recover() of a price writes: it is live once more.
LEMMA RecoverPriceEffect ==
  ASSUME CatalogInv, NEW h \in Handler, RecoverPrice(h)
  PROVE  \E i \in request[h].rows :
           /\ i \in PricesOf(request[h].code) /\ i \in 1..Len(prices)
           /\ request' = [request EXCEPT ![h].rows = @ \ {i}]
           /\ prices' \in Seq(Price) /\ Len(prices') = Len(prices)
           /\ prices'[i].code = prices[i].code
           /\ prices'[i].country = prices[i].country
           /\ prices'[i].amount = prices[i].amount
           /\ prices'[i].live
           /\ \A j \in 1..Len(prices) : j # i => prices'[j] = prices[j]
<1>1. PICK i \in request[h].rows :
        /\ prices' = [prices EXCEPT ![i].live = TRUE]
        /\ request' = [request EXCEPT ![h].rows = @ \ {i}]
  BY DEF RecoverPrice
<1>2. i \in PricesOf(request[h].code) /\ i \in 1..Len(prices)
  BY Working DEF RecoverPrice, Waits, Fits, PricesOf
<1>3. PICK row \in Price : row = [prices[i] EXCEPT !.live = TRUE]
  BY <1>2, PricesType DEF Price
<1>4. /\ row.code = prices[i].code /\ row.country = prices[i].country
      /\ row.amount = prices[i].amount /\ row.live
  BY <1>2, <1>3, PricesType DEF Price
<1>5. prices' = [prices EXCEPT ![i] = row]
  BY <1>1, <1>3
<1>6. /\ prices' \in Seq(Price) /\ Len(prices') = Len(prices) /\ prices'[i] = row
      /\ \A j \in 1..Len(prices) : j # i => prices'[j] = prices[j]
  BY <1>2, <1>5, PricesType, ExceptSeq
<1> QED BY <1>1, <1>2, <1>4, <1>6

\* save() of the price that was found.
LEMMA SaveRowStep ==
  ASSUME CatalogInv, NEW h \in Handler, SaveRow(h)
  PROVE  CatalogInv'
<1>1. /\ request[h].pc = "savePrice"
      /\ request' = [request EXCEPT ![h] = NoRequest]
      /\ UNCHANGED <<services, disturbed, failures>>
  BY DEF SaveRow, Waits, Ends
<1>2. PICK d \in Code : d = request[h].code
  BY <1>1, Working
<1>3. /\ prices' \in Seq(Price) /\ Len(prices') = Len(prices)
      /\ \A i \in request[h].rows : i \in PricesOf(d)
      /\ \A i \in 1..Len(prices) :
           /\ prices'[i].code = prices[i].code
           /\ prices'[i].country = prices[i].country
           /\ i \in request[h].rows => prices'[i].live
           /\ i \notin request[h].rows => prices'[i] = prices[i]
  BY <1>2, SaveRowEffect
<1>4. ASSUME Tidy(d, request[h]) PROVE Tidy(d, NoRequest)'
  <2>1. /\ PricesOf(d)' = PricesOf(d)
        /\ \A i \in PricesOf(d) : prices'[i].country = prices[i].country
    BY <1>3 DEF PricesOf
  <2>2. services'[d] = "live" /\ Dropped(d) = {}
    BY <1>1, <1>4 DEF Tidy
  <2>3. Dropped(d)' = {}
    BY <1>3, <2>1, <2>2 DEF Dropped, PricesOf
  <2> QED BY <1>4, <2>1, <2>2, <2>3, NoRequestType DEF Tidy
<1>5. Fits(NoRequest)'
  BY NoRequestType DEF Fits, SavingPc
<1>6. Len(prices) <= Len(prices')
  BY <1>3, PricesType
<1>7. \A i \in 1..Len(prices) : prices[i].code # d => prices'[i] = prices[i]
  BY <1>3 DEF PricesOf
<1> QED BY <1>1, <1>2, <1>3, <1>4, <1>5, <1>6, <1>7, NoRequestType, RowsStep

\* INSERT of a price: the first of its country.
LEMMA InsertPriceStep ==
  ASSUME CatalogInv, NEW h \in Handler, InsertPrice(h)
  PROVE  CatalogInv'
<1>1. /\ request[h].pc = "insertPrice"
      /\ request' = [request EXCEPT ![h] = NoRequest]
      /\ UNCHANGED <<services, disturbed, failures>>
  BY DEF InsertPrice, Waits, Ends
<1>2. PICK d \in Code : d = request[h].code
  BY <1>1, Working
<1>3. PICK n \in Nat : n = Len(prices) + 1
  BY PricesType
<1>4. /\ prices' \in Seq(Price) /\ Len(prices') = n
      /\ \A i \in 1..Len(prices) : prices'[i] = prices[i]
      /\ prices'[n].code = d /\ prices'[n].country = request[h].country /\ prices'[n].live
      /\ PricesOf(d)' = PricesOf(d) \cup {n}
  BY <1>2, <1>3, InsertPriceEffect
<1>5. ASSUME Tidy(d, request[h]) PROVE Tidy(d, NoRequest)'
  <2>1. /\ services'[d] = "live" /\ Dropped(d) = {} /\ LivePrices(d, request[h].country) = {}
    BY <1>1, <1>5 DEF Tidy
  <2>2. \A i \in PricesOf(d) : prices[i].country # request[h].country
    BY <2>1 DEF Dropped, LivePrices
  <2>3. \A i \in PricesOf(d) : prices'[i] = prices[i]
    BY <1>4 DEF PricesOf
  <2>4. Dropped(d)' = {}
    BY <1>4, <2>1, <2>3 DEF Dropped
  <2>5. \A i, j \in PricesOf(d)' : prices'[i].country = prices'[j].country => i = j
    BY <1>4, <1>5, <2>2, <2>3 DEF Tidy
  <2> QED BY <1>1, <2>1, <2>4, <2>5, NoRequestType DEF Tidy
<1>6. Fits(NoRequest)'
  BY NoRequestType DEF Fits, SavingPc
<1>7. /\ Len(prices) <= Len(prices')
      /\ \A i \in 1..Len(prices') : i \notin 1..Len(prices) => prices'[i].code = d
  BY <1>3, <1>4, PricesType
<1> QED BY <1>1, <1>2, <1>4, <1>5, <1>6, <1>7, NoRequestType, RowsStep

\* softDelete of every price of the service.
LEMMA DropPricesStep ==
  ASSUME CatalogInv, NEW h \in Handler, DropPrices(h)
  PROVE  CatalogInv'
<1>1. /\ request[h].pc = "dropPrices"
      /\ UNCHANGED <<services, disturbed, failures>>
  BY DEF DropPrices, Waits
<1>2. PICK d \in Code : d = request[h].code
  BY <1>1, Working
<1>3. /\ prices' \in Seq(Price) /\ Len(prices') = Len(prices)
      /\ \A i \in 1..Len(prices) :
           /\ prices'[i].code = prices[i].code
           /\ prices'[i].country = prices[i].country
           /\ i \in PricesOf(d) => ~prices'[i].live
           /\ i \notin PricesOf(d) => prices'[i] = prices[i]
  BY <1>2, DropPricesEffect
<1>4. PICK r \in Request :
        /\ request' = [request EXCEPT ![h] = r]
        /\ r.pc = "dropService" /\ r.rows = request[h].rows /\ r.code = request[h].code
        /\ r.country = request[h].country /\ r.amount = request[h].amount
  BY GoesType DEF DropPrices, Pc
<1>5. PricesOf(d)' = PricesOf(d)
  BY <1>3 DEF PricesOf
<1>6. Fits(r)'
  <2>1. \A i \in r.rows : i \in PricesOf(d)
    BY <1>1, <1>2, <1>4, Working DEF Fits
  <2>2. \A i \in r.rows : i \in PricesOf(d)'
    BY <1>5, <2>1
  <2> QED BY <1>2, <1>4, <2>2 DEF Fits, SavingPc, PricesOf
<1>7. ASSUME Tidy(d, request[h]) PROVE Tidy(d, r)'
  <2>1. NoneLive(d)'
    BY <1>3, <1>5 DEF NoneLive, PricesOf
  <2>2. \A i \in PricesOf(d) : prices'[i].country = prices[i].country
    BY <1>3 DEF PricesOf
  <2> QED BY <1>1, <1>4, <1>5, <1>7, <2>1, <2>2 DEF Tidy
<1>8. Len(prices) <= Len(prices')
  BY <1>3, PricesType
<1>9. \A i \in 1..Len(prices) : prices[i].code # d => prices'[i] = prices[i]
  BY <1>3 DEF PricesOf
<1> QED BY <1>1, <1>2, <1>3, <1>4, <1>6, <1>7, <1>8, <1>9, RowsStep

\* softRemove of the service.
LEMMA DropServiceStep ==
  ASSUME CatalogInv, NEW h \in Handler, DropService(h)
  PROVE  CatalogInv'
<1>1. /\ request[h].pc = "dropService"
      /\ request' = [request EXCEPT ![h] = NoRequest]
      /\ UNCHANGED <<prices, disturbed, failures>>
  BY DEF DropService, Waits, Ends
<1>2. PICK d \in Code : d = request[h].code
  BY <1>1, Working
<1>3. services' = [services EXCEPT ![d] = "deleted"] /\ "deleted" \in ServiceRow
  BY <1>2 DEF DropService, ServiceRow
<1>4. ASSUME Tidy(d, request[h]) PROVE Tidy(d, NoRequest)'
  <2>1. services'[d] = "deleted" /\ NoneLive(d)
    BY <1>1, <1>3, <1>4 DEF Tidy, CatalogInv
  <2> QED BY <1>1, <1>4, <2>1, NoRequestType DEF Tidy, NoneLive, PricesOf
<1> QED BY <1>1, <1>2, <1>3, <1>4, NoRequestType, ServiceStep

\* recover() of the service.
LEMMA RecoverServiceStep ==
  ASSUME CatalogInv, NEW h \in Handler, RecoverService(h)
  PROVE  CatalogInv'
<1>1. /\ request[h].pc = "recoverService"
      /\ UNCHANGED <<prices, disturbed, failures>>
  BY DEF RecoverService, Waits
<1>2. PICK d \in Code : d = request[h].code
  BY <1>1, Working
<1>3. PICK r \in Request :
        /\ request' = [request EXCEPT ![h] = r]
        /\ r.pc = "findDropped" /\ r.rows = request[h].rows /\ r.code = request[h].code
        /\ r.country = request[h].country /\ r.amount = request[h].amount
  BY GoesType DEF RecoverService, Pc
<1>4. services' = [services EXCEPT ![d] = "live"] /\ "live" \in ServiceRow
  BY <1>2 DEF RecoverService, ServiceRow
<1>5. Fits(r)
  BY <1>1, <1>3, Working DEF Fits, SavingPc
<1>6. ASSUME Tidy(d, request[h]) PROVE Tidy(d, r)'
  <2>1. services'[d] = "live" /\ NoneLive(d)
    BY <1>1, <1>4, <1>6 DEF Tidy, CatalogInv
  <2> QED BY <1>1, <1>3, <1>6, <2>1 DEF Tidy, NoneLive, PricesOf
<1> QED BY <1>1, <1>2, <1>3, <1>4, <1>5, <1>6, ServiceStep

\* restoreService finds the dropped prices.
LEMMA FindDroppedStep ==
  ASSUME CatalogInv, NEW h \in Handler, FindDropped(h)
  PROVE  CatalogInv'
<1>1. /\ request[h].pc = "findDropped"
      /\ UNCHANGED <<services, prices, disturbed, failures>>
  BY DEF FindDropped, Waits
<1> DEFINE q == [request[h] EXCEPT !.pc = "recoverPrices", !.rows = Dropped(request[h].code)]
<1>2. Dropped(request[h].code) \subseteq Nat
  BY DEF Dropped, PricesOf
<1>3. /\ request' = [request EXCEPT ![h] = q]
      /\ q \in Request /\ q.pc = "recoverPrices" /\ q.rows = Dropped(request[h].code)
      /\ q.code = request[h].code
  BY <1>2 DEF FindDropped, Recoverable, CatalogInv, Request, Pc
<1>4. PICK r \in Request : r = q
  BY <1>3
<1> HIDE DEF q
<1>5. Fits(r)
  BY <1>1, <1>3, <1>4, Working DEF Fits, SavingPc, Dropped
<1>6. Tidy(request[h].code, request[h]) => Tidy(request[h].code, r)
  BY <1>1, <1>3, <1>4 DEF Tidy
<1> QED BY <1>1, <1>3, <1>4, <1>5, <1>6, ReadStep DEF CatalogInv

\* recover() of one of the prices that were found.
LEMMA RecoverPriceStep ==
  ASSUME CatalogInv, NEW h \in Handler, RecoverPrice(h)
  PROVE  CatalogInv'
<1>1. /\ request[h].pc = "recoverPrices"
      /\ UNCHANGED <<services, disturbed, failures>>
  BY DEF RecoverPrice, Waits
<1>2. PICK d \in Code : d = request[h].code
  BY <1>1, Working
<1>3. PICK i \in request[h].rows :
        /\ i \in PricesOf(d) /\ i \in 1..Len(prices)
        /\ request' = [request EXCEPT ![h].rows = @ \ {i}]
        /\ prices' \in Seq(Price) /\ Len(prices') = Len(prices)
        /\ prices'[i].code = prices[i].code
        /\ prices'[i].country = prices[i].country
        /\ prices'[i].live
        /\ \A j \in 1..Len(prices) : j # i => prices'[j] = prices[j]
  BY <1>2, RecoverPriceEffect
<1> DEFINE q == [request[h] EXCEPT !.rows = @ \ {i}]
<1>4. /\ request' = [request EXCEPT ![h] = q]
      /\ q \in Request /\ q.pc = "recoverPrices" /\ q.code = request[h].code
      /\ q.rows = request[h].rows \ {i}
  BY ZenonT(30), <1>1, <1>3 DEF CatalogInv, Request
<1>5. PICK r \in Request : r = q
  BY <1>4
<1> HIDE DEF q
<1>6. PricesOf(d)' = PricesOf(d)
  BY <1>3 DEF PricesOf
<1>7. Fits(r)'
  <2>1. \A j \in r.rows : j \in PricesOf(d)
    BY <1>1, <1>2, <1>4, <1>5, Working DEF Fits
  <2>2. \A j \in r.rows : j \in PricesOf(d)'
    BY <1>6, <2>1
  <2> QED BY <1>2, <1>4, <1>5, <2>2 DEF Fits, SavingPc, PricesOf
<1>8. ASSUME Tidy(d, request[h]) PROVE Tidy(d, r)'
  <2>1. services[d] = "live" /\ request[h].rows = Dropped(d)
    BY <1>1, <1>8 DEF Tidy
  <2>2. \A j \in PricesOf(d) : prices'[j].country = prices[j].country
    BY <1>3 DEF PricesOf
  <2>3. Dropped(d)' = Dropped(d) \ {i}
    BY <1>3, <1>6 DEF Dropped, PricesOf
  <2> QED BY <1>1, <1>4, <1>5, <1>6, <1>8, <2>1, <2>2, <2>3 DEF Tidy
<1>9. Len(prices) <= Len(prices')
  BY <1>3, PricesType
<1>10. \A j \in 1..Len(prices) :
         /\ prices'[j].code = prices[j].code
         /\ prices[j].code # d => prices'[j] = prices[j]
  BY <1>3 DEF PricesOf
<1>11. /\ request' = [request EXCEPT ![h] = r] /\ r.code = d
       /\ request[h].pc # "none" /\ prices' \in Seq(Price)
       /\ \A j \in 1..Len(prices') : j \notin 1..Len(prices) => prices'[j].code = d
  BY <1>1, <1>2, <1>3, <1>4, <1>5
<1>12. UNCHANGED <<services, disturbed, failures>> /\ d = request[h].code
  BY <1>1, <1>2
<1> QED BY <1>7, <1>8, <1>9, <1>10, <1>11, <1>12, RowsStep, Zenon

\* restoreService has recovered all it had found.
LEMMA RestoredStep ==
  ASSUME CatalogInv, NEW h \in Handler, Restored(h)
  PROVE  CatalogInv'
<1>1. /\ request[h].pc = "recoverPrices" /\ request[h].rows = {} /\ Ends(h)
      /\ UNCHANGED <<services, prices, disturbed, failures>>
  BY DEF Restored, Waits
<1>2. Tidy(request[h].code, request[h]) => Dropped(request[h].code) = {}
  BY <1>1 DEF Tidy
<1>3. /\ disturbed' \subseteq Code /\ \A c \in disturbed : c \in disturbed'
      /\ failures' \in 0..MaxFailures
  BY <1>1 DEF CatalogInv
<1>4. request[h].pc # "none" /\ Ends(h) /\ UNCHANGED <<services, prices>>
  BY <1>1
<1> QED BY <1>2, <1>3, <1>4, EndStep

\* A request dies: half-way, it disturbs its service.
LEMMA FailStep ==
  ASSUME CatalogInv, NEW h \in Handler, Fail(h)
  PROVE  CatalogInv'
<1>1. /\ request[h].pc # "none" /\ Ends(h)
      /\ UNCHANGED <<services, prices>>
  BY DEF Fail, Waits
<1>2. request[h].code \in Code
  BY <1>1, Working
<1>3. disturbed' = IF HalfDone(h) THEN disturbed \cup {request[h].code} ELSE disturbed
  BY DEF Fail
<1>4. failures' \in 0..MaxFailures
  BY CatalogAssumption DEF Fail, CatalogInv
<1>5. disturbed' \subseteq Code /\ \A c \in disturbed : c \in disturbed'
  BY <1>2, <1>3 DEF CatalogInv
<1>6. \/ request[h].code \in disturbed'
      \/ request[h].pc \notin {"dropService", "findDropped", "recoverPrices"}
  BY <1>3 DEF HalfDone
<1> QED BY <1>1, <1>4, <1>5, <1>6, EndStep

\* Every step of the catalogue keeps the invariant.
LEMMA CatalogStep ==
  ASSUME CatalogInv, [CatalogNext]_vars
  PROVE  CatalogInv'
<1>1. CASE UNCHANGED vars
  BY <1>1 DEF vars, CatalogInv, PeaceInv, Fits, Works, Tidy, PricesOf, Dropped, LivePrices,
      NoneLive
<1> QED
  BY <1>1, AdministratorStarts, ResaveServiceStep, AskApiStep, InsertServiceStep,
     FindServiceStep, FindPriceStep, SaveRowStep, InsertPriceStep, DropPricesStep,
     DropServiceStep, RecoverServiceStep, FindDroppedStep, RecoverPriceStep, RestoredStep,
     FailStep
  DEF CatalogNext, Serve

\* The inductive invariant holds in every state of every behaviour.
LEMMA CatalogInvAlways == CatalogSpec => []CatalogInv
<1>1. CatalogInit => CatalogInv
  BY CatalogInitInv
<1>2. CatalogInv /\ [CatalogNext]_vars => CatalogInv'
  BY CatalogStep
<1> QED BY <1>1, <1>2, PTL DEF CatalogSpec

\* Tables and requests stay well formed: the rows a request has read are rows of
\* the table, whatever others do to it.
THEOREM CatalogTypeCorrect == CatalogSpec => []CatalogTypeOK
<1>1. CatalogInv => CatalogTypeOK
  <2> SUFFICES ASSUME CatalogInv PROVE CatalogTypeOK
    OBVIOUS
  <2>1. ASSUME NEW h \in Handler
        PROVE  request[h] \in [pc : Pc, rows : SUBSET (1..Len(prices)),
                               code : Code \cup {"none"}, country : Country \cup {"none"},
                               amount : Amount \cup {0}]
    <3>1. request[h] \in Request /\ Fits(request[h])
      BY DEF CatalogInv
    <3>2. request[h].rows \in SUBSET (1..Len(prices))
      BY <3>1 DEF Fits, PricesOf
    <3> QED BY <3>1, <3>2 DEF Request
  <2> QED BY <2>1 DEF CatalogInv, CatalogTypeOK
<1> QED BY <1>1, CatalogInvAlways, PTL

\* A service left in peace is in order, whoever works on it.
LEMMA TidyShelf ==
  ASSUME CatalogInv, NEW c \in Code, c \notin disturbed
  PROVE  \E r \in Request : Tidy(c, r)
<1>1. CASE \E h \in Handler : Works(h, c)
  BY <1>1 DEF CatalogInv, PeaceInv
<1>2. CASE \A h \in Handler : ~Works(h, c)
  BY <1>2, NoRequestType DEF CatalogInv, PeaceInv
<1> QED BY <1>1, <1>2

\* In the middle of any request, a service that was left in peace has at most
\* one live price in a country, so that getPrice cannot find two, and a live price
\* belongs to a live service, which getPrices takes for granted.
THEOREM OnePriceShown == CatalogSpec => []ShelfInv
<1>1. CatalogInv => ShelfInv
  <2> SUFFICES ASSUME CatalogInv, NEW c \in Code \ disturbed, NEW k \in Country
               PROVE  /\ Cardinality(LivePrices(c, k)) <= 1
                      /\ LivePrices(c, k) # {} => services[c] = "live"
    BY DEF ShelfInv
  <2>1. PICK r \in Request : Tidy(c, r)
    BY TidyShelf
  <2>2. \A i, j \in LivePrices(c, k) : i = j
    BY <2>1 DEF Tidy, LivePrices
  <2>3. LivePrices(c, k) = {} \/ \E i : LivePrices(c, k) = {i}
    BY <2>2
  <2>4. Cardinality(LivePrices(c, k)) <= 1
    BY <2>3, FS_EmptySet, FS_Singleton
  <2>5. services[c] \in ServiceRow
    BY DEF CatalogInv
  <2>6. LivePrices(c, k) # {} => services[c] = "live"
    BY <2>1, <2>5 DEF Tidy, LivePrices, NoneLive, ServiceRow
  <2> QED BY <2>4, <2>6
<1> QED BY <1>1, CatalogInvAlways, PTL

-----------------------------------------------------------------------------
(* Every service implements the shop.                                       *)

\* A request touches the shelf of no other service.
LEMMA OtherShelves ==
  ASSUME CatalogInv, NEW h \in Handler, Start(h) \/ Serve(h) \/ Fail(h),
         NEW c \in Code, request[h].code # c \/ request[h].pc = "none"
  PROVE  UNCHANGED <<Shelf(c), Back(c)>>
<1>1. CASE UNCHANGED <<services, prices>>
  BY <1>1 DEF Shelf, Back, LivePrices, Dropped, PricesOf
<1>2. CASE /\ PricesOf(c)' = PricesOf(c)
           /\ \A i \in PricesOf(c) : prices'[i] = prices[i]
           /\ services'[c] = services[c]
  <2>1. \A k \in Country : LivePrices(c, k)' = LivePrices(c, k)
    BY <1>2 DEF LivePrices
  <2>2. Dropped(c)' = Dropped(c)
    BY <1>2 DEF Dropped
  <2>3. \A k \in Country : \A i \in LivePrices(c, k) : prices'[i] = prices[i]
    BY <1>2 DEF LivePrices
  <2>4. \A i \in Dropped(c) : prices'[i] = prices[i]
    BY <1>2 DEF Dropped
  <2>5. Shelf(c)' = Shelf(c)
    BY <1>2, <2>1, <2>3 DEF Shelf
  <2>6. Back(c)' = Back(c)
    BY <2>2, <2>4 DEF Back
  <2> QED BY <2>5, <2>6
<1>3. CASE ~UNCHANGED <<services, prices>>
  <2>1. /\ request[h].pc # "none" /\ request[h].code \in Code /\ request[h].code # c
        /\ \/ ResaveService(h) \/ InsertService(h) \/ DropService(h) \/ RecoverService(h)
           \/ SaveRow(h) \/ InsertPrice(h) \/ DropPrices(h) \/ RecoverPrice(h)
    BY <1>3, Working DEF Start, SaveService, SavePrice, DeleteService, RestoreService, Starts,
       Serve, Fail, ResaveService, InsertService, DropService, RecoverService, SaveRow,
       InsertPrice, DropPrices, RecoverPrice, AskApi, FindService, FindPrice, FindDropped,
       Restored, Waits
  <2>2. CASE ResaveService(h) \/ InsertService(h) \/ DropService(h) \/ RecoverService(h)
    <3>1. UNCHANGED prices /\ services'[c] = services[c]
      BY <2>1, <2>2 DEF ResaveService, InsertService, DropService, RecoverService, CatalogInv
    <3> QED BY <1>2, <3>1 DEF PricesOf
  <2>3. CASE SaveRow(h)
    <3>1. \A i \in PricesOf(c) : i \notin request[h].rows
      BY <2>1, <2>3, SaveRowEffect DEF PricesOf
    <3>2. PricesOf(c)' = PricesOf(c) /\ \A i \in PricesOf(c) : prices'[i] = prices[i]
      BY <2>3, <3>1, SaveRowEffect DEF PricesOf
    <3> QED BY <1>2, <2>3, <3>2 DEF SaveRow
  <2>4. CASE InsertPrice(h)
    <3>1. PricesOf(c)' = PricesOf(c) /\ \A i \in PricesOf(c) : prices'[i] = prices[i]
      BY <2>1, <2>4, InsertPriceEffect DEF PricesOf
    <3> QED BY <1>2, <2>4, <3>1 DEF InsertPrice
  <2>5. CASE DropPrices(h)
    <3>1. \A i \in PricesOf(c) : i \notin PricesOf(request[h].code)
      BY <2>1 DEF PricesOf
    <3>2. PricesOf(c)' = PricesOf(c) /\ \A i \in PricesOf(c) : prices'[i] = prices[i]
      BY <2>5, <3>1, DropPricesEffect DEF PricesOf
    <3> QED BY <1>2, <2>5, <3>2 DEF DropPrices
  <2>6. CASE RecoverPrice(h)
    <3>1. PricesOf(c)' = PricesOf(c) /\ \A i \in PricesOf(c) : prices'[i] = prices[i]
      BY <2>1, <2>6, RecoverPriceEffect DEF PricesOf
    <3> QED BY <1>2, <2>6, <3>1 DEF RecoverPrice
  <2> QED BY <2>1, <2>2, <2>3, <2>4, <2>5, <2>6
<1> QED BY <1>1, <1>3

\* A service with no live row, or that is not live, shows nothing; one with no
\* dropped row has nothing aside; before a step and after it.
LEMMA EmptyShelf ==
  ASSUME NEW c \in Code
  PROVE  /\ NoneLive(c) \/ services[c] # "live" => Shelf(c) = [k \in Country |-> {}]
         /\ NoneLive(c)' \/ services'[c] # "live" => Shelf(c)' = [k \in Country |-> {}]
         /\ Dropped(c) = {} => Back(c) = [k \in Country |-> {}]
         /\ Dropped(c)' = {} => Back(c)' = [k \in Country |-> {}]
<1>1. ASSUME NoneLive(c) \/ services[c] # "live"
      PROVE  Shelf(c) = [k \in Country |-> {}]
  <2>1. \A k \in Country : {j \in LivePrices(c, k) : services[c] = "live"} = {}
    BY <1>1 DEF NoneLive, LivePrices
  <2> QED BY <2>1 DEF Shelf
<1>2. ASSUME NoneLive(c)' \/ services'[c] # "live"
      PROVE  Shelf(c)' = [k \in Country |-> {}]
  <2>1. \A k \in Country : {j \in LivePrices(c, k)' : services'[c] = "live"} = {}
    BY <1>2 DEF NoneLive, LivePrices
  <2> QED BY <2>1 DEF Shelf
<1>3. ASSUME Dropped(c) = {} PROVE Back(c) = [k \in Country |-> {}]
  BY <1>3 DEF Back
<1>4. ASSUME Dropped(c)' = {} PROVE Back(c)' = [k \in Country |-> {}]
  BY <1>4 DEF Back
<1> QED BY <1>1, <1>2, <1>3, <1>4

\* A live service shows the amounts of its live rows, before a step and after it.
LEMMA LiveShelf ==
  ASSUME NEW c \in Code
  PROVE  /\ services[c] = "live" =>
              Shelf(c) = [k \in Country |-> {prices[i].amount : i \in LivePrices(c, k)}]
         /\ services'[c] = "live" =>
              Shelf(c)' = [k \in Country |-> {prices'[i].amount : i \in LivePrices(c, k)'}]
<1>1. services[c] = "live" => \A k \in Country :
        {j \in LivePrices(c, k) : services[c] = "live"} = LivePrices(c, k)
  OBVIOUS
<1>2. services'[c] = "live" => \A k \in Country :
        {j \in LivePrices(c, k)' : services'[c] = "live"} = LivePrices(c, k)'
  OBVIOUS
<1> QED BY <1>1, <1>2 DEF Shelf

\* The shelf at the start.
LEMMA ShopInit ==
  ASSUME CatalogInit, NEW c \in Code
  PROVE  Abstract(c)!Init
<1>1. prices = <<>> /\ services[c] = "none" /\ Len(prices) = 0
  BY EmptySeq DEF CatalogInit
<1>2. Dropped(c) = {}
  BY <1>1 DEF Dropped, PricesOf
<1> QED BY <1>1, <1>2, EmptyShelf DEF Abstract!Init, Abstract!Nothing

\* A price is saved: in its country the service shows its amount alone.
LEMMA SaveRowShop ==
  ASSUME CatalogInv, NEW h \in Handler, SaveRow(h), NEW c \in Code, c = request[h].code,
         Tidy(c, request[h])
  PROVE  Abstract(c)!Next
<1>1. /\ request[h].pc = "savePrice" /\ UNCHANGED services
      /\ services[c] = "live" /\ services'[c] = "live" /\ Dropped(c) = {}
  BY DEF SaveRow, Waits, Tidy
<1>2. PICK k \in Country, amount \in Amount : k = request[h].country /\ amount = request[h].amount
  BY <1>1, Working DEF Fits, SavingPc
<1>3. PICK n \in LivePrices(c, k) : request[h].rows = {n}
  BY <1>1, <1>2 DEF Tidy
<1>4. /\ PricesOf(c)' = PricesOf(c)
      /\ n \in PricesOf(c) /\ prices[n].country = k
      /\ \A i \in PricesOf(c) :
           /\ prices'[i].country = prices[i].country
           /\ i # n => prices'[i] = prices[i]
      /\ prices'[n].live /\ prices'[n].amount = amount
  BY <1>2, <1>3, SaveRowEffect DEF PricesOf, LivePrices
<1>5. \A i \in PricesOf(c) : prices[i].country = k => i = n
  BY <1>4 DEF Tidy
<1>6. Dropped(c)' = {}
  BY <1>1, <1>4 DEF Dropped
<1>7. LivePrices(c, k)' = {n}
  BY <1>4, <1>5 DEF LivePrices
<1>8. \A j \in Country : j # k =>
        /\ LivePrices(c, j)' = LivePrices(c, j)
        /\ \A i \in LivePrices(c, j) : prices'[i] = prices[i]
  BY <1>4 DEF LivePrices
<1>9. Shelf(c)' = [j \in Country |-> {prices'[i].amount : i \in LivePrices(c, j)'}]
  BY <1>1, LiveShelf
<1>10. Shelf(c) = [j \in Country |-> {prices[i].amount : i \in LivePrices(c, j)}]
  BY <1>1, LiveShelf
<1>11. Shelf(c)' = [Shelf(c) EXCEPT ![k] = {amount}]
  <2>1. Shelf(c)'[k] = {amount}
    BY <1>4, <1>7, <1>9
  <2>2. \A j \in Country : j # k => Shelf(c)'[j] = Shelf(c)[j]
    BY <1>8, <1>9, <1>10
  <2> QED BY <1>9, <1>10, <2>1, <2>2
<1>12. Back(c) = [j \in Country |-> {}] /\ Back(c)' = Back(c)
  BY <1>1, <1>6, EmptyShelf DEF Back
<1> QED BY <1>11, <1>12 DEF Abstract!Next, Abstract!Price, Abstract!Nothing

\* A price is inserted: likewise.
LEMMA InsertPriceShop ==
  ASSUME CatalogInv, NEW h \in Handler, InsertPrice(h), NEW c \in Code, c = request[h].code,
         Tidy(c, request[h])
  PROVE  Abstract(c)!Next
<1>1. /\ request[h].pc = "insertPrice" /\ UNCHANGED services
      /\ services[c] = "live" /\ services'[c] = "live" /\ Dropped(c) = {}
  BY DEF InsertPrice, Waits, Tidy
<1>2. PICK k \in Country, amount \in Amount : k = request[h].country /\ amount = request[h].amount
  BY <1>1, Working DEF Fits, SavingPc
<1>3. PICK n \in Nat : n = Len(prices) + 1
  BY PricesType
<1>4. /\ PricesOf(c)' = PricesOf(c) \cup {n} /\ n \notin PricesOf(c)
      /\ \A i \in PricesOf(c) : prices'[i] = prices[i]
      /\ prices'[n].country = k /\ prices'[n].live /\ prices'[n].amount = amount
  BY <1>2, <1>3, InsertPriceEffect, PricesType DEF PricesOf
<1>5. LivePrices(c, k) = {}
  BY <1>1, <1>2 DEF Tidy
<1>6. Dropped(c)' = {}
  BY <1>1, <1>4 DEF Dropped
<1>7. LivePrices(c, k)' = {n}
  BY <1>4, <1>5 DEF LivePrices
<1>8. \A j \in Country : j # k =>
        /\ LivePrices(c, j)' = LivePrices(c, j)
        /\ \A i \in LivePrices(c, j) : prices'[i] = prices[i]
  BY <1>4 DEF LivePrices
<1>9. Shelf(c)' = [j \in Country |-> {prices'[i].amount : i \in LivePrices(c, j)'}]
  BY <1>1, LiveShelf
<1>10. Shelf(c) = [j \in Country |-> {prices[i].amount : i \in LivePrices(c, j)}]
  BY <1>1, LiveShelf
<1>11. Shelf(c)' = [Shelf(c) EXCEPT ![k] = {amount}]
  <2>1. Shelf(c)'[k] = {amount}
    BY <1>4, <1>7, <1>9
  <2>2. \A j \in Country : j # k => Shelf(c)'[j] = Shelf(c)[j]
    BY <1>8, <1>9, <1>10
  <2> QED BY <1>9, <1>10, <2>1, <2>2
<1>12. Back(c) = [j \in Country |-> {}] /\ Back(c)' = Back(c)
  BY <1>1, <1>6, EmptyShelf
<1> QED BY <1>11, <1>12 DEF Abstract!Next, Abstract!Price, Abstract!Nothing

\* The prices are dropped: the service is taken down, whole.
LEMMA DropPricesShop ==
  ASSUME CatalogInv, NEW h \in Handler, DropPrices(h), NEW c \in Code, c = request[h].code,
         Tidy(c, request[h])
  PROVE  Abstract(c)!Next
<1>1. /\ request[h].pc = "dropPrices" /\ UNCHANGED services
      /\ services[c] = "live" /\ Dropped(c) = {}
  BY DEF DropPrices, Waits, Tidy
<1>2. /\ PricesOf(c)' = PricesOf(c)
      /\ \A i \in PricesOf(c) :
           /\ prices'[i].country = prices[i].country
           /\ prices'[i].amount = prices[i].amount
           /\ ~prices'[i].live
  BY DropPricesEffect DEF PricesOf
<1>3. \A k \in Country :
        /\ LivePrices(c, k) = {j \in Dropped(c)' : prices'[j].country = k}
        /\ \A i \in LivePrices(c, k) : prices'[i].amount = prices[i].amount
  BY <1>1, <1>2 DEF LivePrices, Dropped
<1>4. Back(c)' = Shelf(c)
  <2>1. Shelf(c) = [k \in Country |-> {prices[i].amount : i \in LivePrices(c, k)}]
    BY <1>1, LiveShelf
  <2>2. Back(c)' = [k \in Country |->
                     {prices'[i].amount : i \in {j \in Dropped(c)' : prices'[j].country = k}}]
    BY DEF Back
  <2>3. \A k \in Country :
          {prices'[i].amount : i \in {j \in Dropped(c)' : prices'[j].country = k}}
            = {prices[i].amount : i \in LivePrices(c, k)}
    BY <1>3
  <2> QED BY <2>1, <2>2, <2>3
<1>5. NoneLive(c)'
  BY <1>2 DEF NoneLive
<1>6. /\ Back(c) = [k \in Country |-> {}]
      /\ Shelf(c)' = [k \in Country |-> {}]
  BY <1>1, <1>5, EmptyShelf
<1> QED BY <1>4, <1>6 DEF Abstract!Next, Abstract!TakeDown, Abstract!Nothing

\* A price is recovered: it is put back as it was.
LEMMA RecoverPriceShop ==
  ASSUME CatalogInv, NEW h \in Handler, RecoverPrice(h), NEW c \in Code, c = request[h].code,
         Tidy(c, request[h])
  PROVE  Abstract(c)!Next
<1>1. /\ request[h].pc = "recoverPrices" /\ UNCHANGED services
      /\ services[c] = "live" /\ services'[c] = "live" /\ request[h].rows = Dropped(c)
  BY DEF RecoverPrice, Waits, Tidy
<1>2. PICK n \in request[h].rows :
        /\ n \in PricesOf(c) /\ PricesOf(c)' = PricesOf(c)
        /\ prices'[n].country = prices[n].country
        /\ prices'[n].amount = prices[n].amount
        /\ prices'[n].live
        /\ \A i \in PricesOf(c) : i # n => prices'[i] = prices[i]
  BY RecoverPriceEffect DEF PricesOf
<1>3. PICK k \in Country : k = prices[n].country
  BY <1>2, PricesType DEF PricesOf, Price
<1>4. n \in Dropped(c) /\ ~prices[n].live
  BY <1>1, <1>2 DEF Dropped
<1>5. \A i \in PricesOf(c) : prices[i].country = k => i = n
  BY <1>2, <1>3 DEF Tidy
<1>6. LivePrices(c, k)' = {n}
  BY <1>2, <1>3, <1>5 DEF LivePrices
<1>7. {j \in Dropped(c) : prices[j].country = k} = {n}
  BY <1>3, <1>4, <1>5 DEF Dropped
<1>8. {j \in Dropped(c)' : prices'[j].country = k} = {}
  BY <1>2, <1>5 DEF Dropped
<1>9. \A j \in Country : j # k =>
        /\ LivePrices(c, j)' = LivePrices(c, j)
        /\ \A i \in LivePrices(c, j) : prices'[i] = prices[i]
        /\ {i \in Dropped(c)' : prices'[i].country = j} = {i \in Dropped(c) : prices[i].country = j}
        /\ \A i \in Dropped(c) : prices[i].country = j => prices'[i] = prices[i]
  BY <1>2, <1>3 DEF LivePrices, Dropped
<1>10. /\ Shelf(c)' = [j \in Country |-> {prices'[i].amount : i \in LivePrices(c, j)'}]
       /\ Shelf(c) = [j \in Country |-> {prices[i].amount : i \in LivePrices(c, j)}]
  BY <1>1, LiveShelf
<1>11. /\ Back(c) = [j \in Country |->
                       {prices[i].amount : i \in {m \in Dropped(c) : prices[m].country = j}}]
       /\ Back(c)' = [j \in Country |->
                       {prices'[i].amount : i \in {m \in Dropped(c)' : prices'[m].country = j}}]
  BY DEF Back
<1>12. Back(c)[k] = {prices[n].amount} /\ Back(c)'[k] = {} /\ Shelf(c)'[k] = {prices[n].amount}
  BY <1>2, <1>6, <1>7, <1>8, <1>10, <1>11
<1>13. \A j \in Country : j # k => Shelf(c)'[j] = Shelf(c)[j] /\ Back(c)'[j] = Back(c)[j]
  BY <1>9, <1>10, <1>11
<1>14. Shelf(c)' = [Shelf(c) EXCEPT ![k] = Back(c)[k]]
  BY <1>10, <1>12, <1>13
<1>15. Back(c)' = [Back(c) EXCEPT ![k] = {}]
  BY <1>11, <1>12, <1>13
<1> QED BY <1>14, <1>15 DEF Abstract!Next, Abstract!PutBack

\* The other queries show nothing and put nothing aside.
LEMMA QuietShop ==
  ASSUME CatalogInv, NEW h \in Handler, NEW c \in Code, c = request[h].code,
         Tidy(c, request[h]),
         ResaveService(h) \/ InsertService(h) \/ DropService(h) \/ RecoverService(h)
  PROVE  UNCHANGED <<Shelf(c), Back(c)>>
<1>1. UNCHANGED prices
  BY DEF ResaveService, InsertService, DropService, RecoverService
<1>2. Back(c)' = Back(c)
  BY <1>1 DEF Back, Dropped, PricesOf
<1>3. CASE ResaveService(h) \/ services[c] = services'[c]
  <2>1. services'[c] = services[c]
    BY <1>3 DEF ResaveService, Waits, Tidy, CatalogInv
  <2> QED BY <1>1, <1>2, <2>1 DEF Shelf, LivePrices, PricesOf
<1>4. CASE NoneLive(c)
  <2>1. NoneLive(c)'
    BY <1>1, <1>4 DEF NoneLive, PricesOf
  <2> QED BY <1>2, <1>4, <2>1, EmptyShelf
<1>5. CASE InsertService(h) /\ services[c] = "none"
  BY <1>4, <1>5 DEF Tidy, NoneLive
<1>6. CASE DropService(h) \/ RecoverService(h)
  BY <1>4, <1>6 DEF DropService, RecoverService, Waits, Tidy
<1>7. CASE InsertService(h) /\ services[c] # "none"
  BY <1>3, <1>7 DEF InsertService
<1> QED BY <1>3, <1>5, <1>6, <1>7

\* One step of the catalogue is one step of every shop that is left in peace, or
\* none.
LEMMA CatalogImplements ==
  ASSUME CatalogInv, [CatalogNext]_vars, NEW c \in Code
  PROVE  ShopStep(c)
<1>1. CASE UNCHANGED vars
  BY <1>1 DEF vars, ShopStep, Shelf, Back, LivePrices, Dropped, PricesOf
<1>2. ASSUME NEW h \in Handler, Start(h) \/ Serve(h) \/ Fail(h) PROVE ShopStep(c)
  <2>1. CASE request[h].pc = "none" \/ request[h].code # c
    BY <1>2, <2>1, OtherShelves DEF ShopStep
  <2>2. CASE c \in disturbed'
    BY <2>2 DEF ShopStep
  <2>3. CASE request[h].pc # "none" /\ request[h].code = c /\ c \notin disturbed'
    <3>1. CASE UNCHANGED <<services, prices>>
      BY <3>1 DEF ShopStep, Shelf, Back, LivePrices, Dropped, PricesOf
    <3>2. CASE ~UNCHANGED <<services, prices>>
      <4>1. \/ ResaveService(h) \/ InsertService(h) \/ DropService(h) \/ RecoverService(h)
            \/ SaveRow(h) \/ InsertPrice(h) \/ DropPrices(h) \/ RecoverPrice(h)
        BY <1>2, <3>2 DEF Start, SaveService, SavePrice, DeleteService, RestoreService, Starts,
           Serve, Fail, AskApi, FindService, FindPrice, FindDropped, Restored
      <4>2. c \notin disturbed
        BY <2>3, <4>1 DEF ResaveService, InsertService, DropService, RecoverService, SaveRow,
           InsertPrice, DropPrices, RecoverPrice
      <4>3. Tidy(c, request[h])
        BY <2>3, <4>2, Working
      <4> QED BY <2>3, <4>1, <4>3, SaveRowShop, InsertPriceShop, DropPricesShop,
                 RecoverPriceShop, QuietShop DEF ShopStep
    <3> QED BY <3>1, <3>2
  <2> QED BY <2>1, <2>2, <2>3
<1> QED BY <1>1, <1>2 DEF CatalogNext

\* Every service behaves as the shop of module Shop, whatever requests do to
\* other services, for as long as no request on it overlaps another or dies
\* half-way: saveService, deleteService and restoreService, query by query, look
\* like pricing it, taking it down whole and putting each of its prices back.
THEOREM CatalogIsShop == CatalogSpec => ShopSpec
<1>1. CatalogInit => \A c \in Code : Abstract(c)!Init
  BY ShopInit
<1>2. CatalogInv /\ [CatalogNext]_vars => \A c \in Code : ShopStep(c)
  BY CatalogImplements
<1> QED BY <1>1, <1>2, CatalogInvAlways, PTL DEF CatalogSpec, ShopSpec

-----------------------------------------------------------------------------
(* Listings beside the requests of administrators.  What carries the        *)
(* argument is the order of the shelf at the first of the two reads, when   *)
(* live prices belong to live services (TidyShelf).                         *)

\* A listing carries, of every service left in peace, what the shelf showed.
CarriedInv ==
  \A l \in Listing : listing[l].pc = "services" =>
    \A c \in Code \ disturbed : {e \in listing[l].rows : e.code = c} = Began(l, c)

\* The inductive invariant.
ListingsInv == CatalogInv /\ DOMAIN listing = Listing /\ CarriedInv

-----------------------------------------------------------------------------
\* Nobody has asked yet.
LEMMA ListingsInitInv == ListingsInit => ListingsInv
  BY CatalogInitInv DEF ListingsInit, ListingsInv, CarriedInv, NoListing

\* A service once disturbed stays so.
LEMMA DisturbedGrows ==
  ASSUME [CatalogNext]_vars
  PROVE  \A c : c \in disturbed => c \in disturbed'
  BY ZenonT(30) DEF vars, CatalogNext, Start, SaveService, SavePrice, DeleteService, RestoreService, Starts,
     Serve, ResaveService, AskApi, InsertService, FindService, FindPrice, SaveRow, InsertPrice,
     DropPrices, DropService, RecoverService, FindDropped, RecoverPrice, Restored, Fail

\* The live prices of a country are, for a service left in peace, what its shelf
\* shows, although getPrices does not look at services.
LEMMA ListedOnShelf ==
  ASSUME CatalogInv, NEW c \in Code \ disturbed, NEW k \in Country
  PROVE  {e \in {EntryOf(i) : i \in Listed(k)} : e.code = c} = {e \in OnShelf(k) : e.code = c}
<1>1. PICK r \in Request : Tidy(c, r)
  BY TidyShelf
<1>2. ASSUME NEW i \in Listed(k), EntryOf(i).code = c PROVE EntryOf(i) \in OnShelf(k)
  <2>1. i \in 1..Len(prices) /\ prices[i].country = k /\ prices[i].live /\ prices[i].code = c
    BY <1>2 DEF Listed, EntryOf
  <2>2. services[c] = "live"
    BY <1>1, <2>1 DEF Tidy, NoneLive, PricesOf, CatalogInv, ServiceRow
  <2> QED BY <2>1, <2>2 DEF OnShelf
<1>3. ASSUME NEW e \in OnShelf(k) PROVE \E i \in Listed(k) : e = EntryOf(i)
  BY DEF OnShelf, Listed
<1> QED BY <1>2, <1>3

\* Every step of the listings and of the administrators keeps the invariant.
LEMMA ListingsStep ==
  ASSUME ListingsInv, [ListingsNext]_allVars
  PROVE  ListingsInv'
<1>1. ASSUME UNCHANGED listing, [CatalogNext]_vars PROVE ListingsInv'
  <2>1. CatalogInv'
    BY <1>1, CatalogStep DEF ListingsInv
  <2>2. CarriedInv'
    BY <1>1, DisturbedGrows DEF ListingsInv, CarriedInv, Began
  <2> QED BY <1>1, <2>1, <2>2 DEF ListingsInv
<1>2. ASSUME UNCHANGED vars PROVE CatalogInv'
  BY <1>2, CatalogStep DEF ListingsInv
<1>3. ASSUME NEW l \in Listing, NEW k \in Country, ReadPrices(l, k) PROVE ListingsInv'
  <2>1. /\ UNCHANGED vars /\ disturbed' = disturbed /\ DOMAIN listing' = Listing
        /\ \A m \in Listing : m # l => listing'[m] = listing[m]
        /\ listing'[l].rows = {EntryOf(i) : i \in Listed(k)}
        /\ listing'[l].began = OnShelf(k)
    BY <1>3 DEF ReadPrices, ListingsInv, vars
  <2>2. CarriedInv'
    <3> SUFFICES ASSUME NEW m \in Listing, listing'[m].pc = "services",
                        NEW c \in Code \ disturbed
                 PROVE  {e \in listing'[m].rows : e.code = c}
                          = {e \in listing'[m].began : e.code = c}
      BY <2>1 DEF CarriedInv, Began
    <3>1. CASE m = l
      BY <2>1, <3>1, ListedOnShelf DEF ListingsInv
    <3>2. CASE m # l
      BY <2>1, <3>2 DEF ListingsInv, CarriedInv, Began
    <3> QED BY <3>1, <3>2
  <2> QED BY <1>2, <2>1, <2>2 DEF ListingsInv
<1>4. ASSUME NEW l \in Listing, ReadServices(l) PROVE ListingsInv'
  <2>1. /\ UNCHANGED vars /\ disturbed' = disturbed /\ DOMAIN listing' = Listing
        /\ \A m \in Listing : listing'[m] = IF m = l THEN NoListing ELSE listing[m]
    BY <1>4 DEF ReadServices, ListingsInv, vars
  <2>2. CarriedInv'
    BY <2>1 DEF ListingsInv, CarriedInv, Began, NoListing
  <2> QED BY <1>2, <2>1, <2>2 DEF ListingsInv
<1>5. CASE AdministratorStep
  BY <1>1, <1>5 DEF AdministratorStep
<1>6. CASE UNCHANGED allVars
  BY <1>1, <1>6 DEF allVars
<1> QED BY <1>3, <1>4, <1>5, <1>6 DEF ListingsNext

\* What listing l shows of a service left in peace, when it reads the services.
LEMMA ListedStep ==
  ASSUME ListingsInv, NEW l \in Listing, ReadServices(l), NEW c \in Code \ disturbed
  PROVE  \/ Shown(l, c) = Began(l, c)
         \/ Shown(l, c) = {} /\ \A e \in OnShelf(listing[l].country) : e.code # c
<1>1. CASE services[c] = "live"
  BY <1>1 DEF ReadServices, ListingsInv, CarriedInv, Shown
<1>2. CASE services[c] # "live"
  BY <1>2 DEF Shown, OnShelf, EntryOf
<1> QED BY <1>1, <1>2

\* A listing shows every service left in peace as it was on the shelf when the
\* listing began, or leaves it out because it is no longer there, however many
\* requests administrators make in between (getDisplayServices, lines 55-63).
THEOREM ListingsAtOnce == ListingsSpec => ListedAtOnce
<1>1. ListingsInit => ListingsInv
  BY ListingsInitInv
<1>2. ListingsInv /\ [ListingsNext]_allVars => ListingsInv'
  BY ListingsStep
<1>3. ListingsInv =>
        \A l \in Listing : ReadServices(l) =>
          \A c \in Code \ disturbed :
            \/ Shown(l, c) = Began(l, c)
            \/ Shown(l, c) = {} /\ \A e \in OnShelf(listing[l].country) : e.code # c
  BY ListedStep
<1> QED BY <1>1, <1>2, <1>3, PTL DEF ListingsSpec, ListedAtOnce

\* Listings only read: next to them the catalogue behaves as it does alone, and
\* keeps all that the theorems above say of it.
THEOREM ListingsLeaveCatalog == ListingsSpec => CatalogSpec
<1>1. ListingsInit => CatalogInit
  BY DEF ListingsInit
<1>2. [ListingsNext]_allVars => [CatalogNext]_vars
  BY DEF ListingsNext, allVars, AdministratorStep, ReadPrices, ReadServices
<1> QED BY <1>1, <1>2, PTL DEF ListingsSpec, CatalogSpec
=============================================================================
