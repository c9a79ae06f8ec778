------------------------------ MODULE Listings ------------------------------
(***************************************************************************)
(* What a customer is shown: ServicesService.getDisplayServices, next to   *)
(* the administrators of Catalog.  A listing reads the prices of a         *)
(* country, asks the SMS source how many numbers it offers (or takes the   *)
(* answer it keeps, see PriceCache), and only then reads the services.     *)
(* Nothing holds the tables still in between.                              *)
(***************************************************************************)
EXTENDS Catalog

CONSTANTS
  Listing,   \* listings being put together at the same time
  MaxBusy    \* bound: administrators' requests served or lost during a listing

ASSUME ListingsAssumption == MaxBusy \in Nat

VARIABLE listing   \* listing[l]: what listing l has read

allVars == <<vars, listing>>

-----------------------------------------------------------------------------
\* began is a history: what the shelf showed when the listing began.
NoListing == [pc |-> "none", country |-> "none", rows |-> {}, began |-> {}]

\* A price as a listing carries it: no longer the row, but a copy.
EntryOf(i) == [code |-> prices[i].code, amount |-> prices[i].amount]

\* What customers of country k should see.
OnShelf(k) ==
  {EntryOf(i) : i \in {j \in 1..Len(prices) : /\ prices[j].country = k
                                              /\ prices[j].live
                                              /\ services[prices[j].code] = "live"}}

ListingsInit == CatalogInit /\ listing = [l \in Listing |-> NoListing]

Busy == Cardinality({h \in Handler : ~Waits(h, "none")}) + failures
Quiet == \A l \in Listing : listing[l].pc = "none"

-----------------------------------------------------------------------------
\* Mutant of Listed.
ListedWithDeleted(k) == {i \in 1..Len(prices) : prices[i].country = k}

\* getPrices: the live rows of a country, whatever their service is.
Listed(k) == {i \in 1..Len(prices) : prices[i].country = k /\ prices[i].live}

\* getDisplayPrices
ReadPrices(l, k) ==
  /\ listing[l].pc = "none"
  /\ Busy <= MaxBusy
  /\ listing' = [listing EXCEPT ![l] =
                   [pc |-> "services", country |-> k, began |-> OnShelf(k),
                    rows |-> {EntryOf(i) : i \in Listed(k)}]]
  /\ UNCHANGED vars

\* What listing l shows of service c: the first of its prices, if the service
\* is live by now.
Shown(l, c) ==
  IF services[c] = "live" THEN {e \in listing[l].rows : e.code = c} ELSE {}

\* With the counts known the services are read, and the listing is sent.
ReadServices(l) ==
  /\ listing[l].pc = "services"
  /\ listing' = [listing EXCEPT ![l] = NoListing]
  /\ UNCHANGED vars

AdministratorStep ==
  /\ CatalogNext
  /\ Quiet \/ Busy' <= MaxBusy
  /\ UNCHANGED listing

ListingsNext ==
  \/ AdministratorStep
  \/ \E l \in Listing : \/ \E k \in Country : ReadPrices(l, k)
                        \/ ReadServices(l)

ListingsSpec == ListingsInit /\ [][ListingsNext]_allVars

-----------------------------------------------------------------------------
(* Properties.                                                              *)

Began(l, c) == {e \in listing[l].began : e.code = c}

\* A listing reads prices and services at different times, and administrators
\* work in between (getDisplayServices, lines 55-63).  Still each service is
\* shown as it was on the shelf when the listing began, or is missing from it
\* because it was not on the shelf when the listing ended.  Excepted are
\* services that were disturbed.
ListedAtOnce ==
  [][\A l \in Listing : ReadServices(l) =>
       \A c \in Code \ disturbed :
         \/ Shown(l, c) = Began(l, c)
         \/ Shown(l, c) = {} /\ \A e \in OnShelf(listing[l].country) : e.code # c]_allVars

=============================================================================
