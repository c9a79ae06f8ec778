# Virtualnum / onlinesimcard API: a TLA+ model

The repository is a NestJS back end (`src/src`) of a shop for virtual phone
numbers. A customer tops up a balance through a payment gateway, rents a number
of a service in a country from an external SMS source, and is charged when the
first message arrives. Administrators keep the catalogue, the users and the
articles. State lives in Postgres behind TypeORM 0.2.25; the process is one Node
12 event loop.

What makes this code hard is the same everywhere. Each handler is a chain of
`await`ed queries without a transaction, a lock or (mostly) a unique index, and
between two queries any other request, notification or check may run. So the
modules share one reading of the code:

* **one action = one query** (or one call of an external system, or one mail)
  together with the local code up to the next `await`;
* whatever a handler read earlier is kept in a record (`call[h]`, `request[h]`,
  `check[a]`, `req[r]`) whose `pc` names the query it is waiting for, and may be
  stale when it is used. Where nothing can happen between two queries that
  matters to any other step, they are one action, and the comment says so;
* a query may reject and the process may die at any point (`Abort`, `Fail`,
  `CheckFails`, `Crash`): what is in the tables stays, what is in memory goes.
  An unhandled rejection does not kill Node 12;
* `entity.save()` writes every column that differs from the database row, so it
  restores what the entity was read with, and it inserts a row that has gone.

## Components

| Component | State | Operations | Module |
|---|---|---|---|
| Transactions, balance, money | table `transaction`; the balance is the last row's `balanceBefore + amount` less what activations freeze | `makeBonus`, `buy`, `pay` -> `_createTransaction`; `getUserBalance` | `Ledger`, abstractly `Wallet` |
| Orders and gateways | table `order_entity` | `createOrder`, notifications of free-kassa and YooMoney -> `completeOrder`, `forceCompleteOrder`, `complete` | `Orders` |
| Activations | table `activation` | `createActivation`, `cancelActivation`, `finishActivationApi`, `getFreezedUserMoney` | `Activations` |
| Checker | the loop's `_subject`; table `activation_code` | `startChecker`, `actualizeActivations`, `checkOneActivation` | `Activations` |
| SMS source client | a five-second price cache | `getNumber`, `getStatus`, `setStatus` calls; `getPrices` | `Activations`; `PriceCache` |
| Users, sessions, VK login, roles | tables `user`, `verify_token`, `reset_pass_token`, `refresh_token`, `auth_provider`, `role` | registration, confirmation, login, refresh, logout, password reset, `setRole`, `deleteUser` | `Accounts` |
| Services and prices | tables `service`, `price_entity`, deleted softly | save, batch save, delete, restore; the customer's listing | `Catalog`, abstractly `Shop`; `Listings` |
| Articles | table `article_orm` | create, update, delete | `Articles` |
| Migrations | table `transaction`, rewritten once | the repair of amounts and balances | `Repair` |
| The money of one process | the ledger that orders and activations share | a payment refused for frozen money, repeated, accepted | `Virtualnum` |
| Free numbers, payment forms, application shell | see the last section | | not modelled |

How they meet: `Orders` posts through `pay()`, the checker through `buy()`, an
administrator through `makeBonus()`, all into the ledger of one user.
`getUserBalance` subtracts what that user's `WAIT_CODE` activations cost, and
`createActivation` and every posting use it. The checker and the customer's
requests write the same activation rows; the checker alone writes codes. Roles
guard the administrative operations. Listings read the price cache and the
catalogue.

## What each part has to get right

* **Ledger.** Rows form a chain, no movement is lost, nobody spends money that
  is not there. The check, the base and the insert are four queries
  (`transactions.service.ts:126-155`).
* **Orders.** A gateway delivers at least once and possibly at the same time: an
  order is credited once, a paid order names the row that paid for it, and money
  the gateway has taken arrives in the end, crash or not.
* **Activations.** A code is stored once; an activation is charged once, for its
  price, and only if it delivered; money it no longer freezes is not frozen
  again; every activation reaches a final status.
* **Accounts.** Nobody has a session on an unconfirmed address; the damage of
  racing sign-ups, logins and resets is bounded; a changed password stays.
* **Catalogue.** One price per service and country; a service that is restored
  comes back with the prices it had; a listing shows a service as it was at one
  moment, although it reads prices and services at two.
* **Price cache.** A slow answer may replace a newer one and count as fresh; how
  old offers can get must still be bounded.
* **Articles.** An alias names one article; the unique index is the last resort
  and not the usual answer; an article is one request's work, not a mixture.
* **Repair.** The migration takes no money from anybody, breaks no chain, and
  leaves no debit that no balance covered.
* **Together.** A payment that `getUserBalance` refuses because activations
  freeze too much is not lost: it arrives when they are settled.

## Modules

### Ledger, Wallet

`ledger[u]` is the user's rows by `createdAt`; `call[h]` is one
`_createTransaction` in flight. `Buy`, `Pay` and `MakeBonus` start a posting
(with the rounding of `Money.toRoundLessAmount`; `Money` is counted in units of
`1/Scale` cent so that rounding is visible), `FindTarget`, `ReadLast`,
`ReadFrozen`, `ReadBase` and `Insert` are its queries, `Abort` its end by a
rejection or a crash, `Return` the caller's next step. The frozen sum is any
member of `Frozen` here and the real sum in `Activations`.

`Overlap` is not in the code. With `TRUE` postings of one user overlap, as they
do in the program; with `FALSE` they do not (postings of different users still
interleave), and this is the assumption under which the ledger does what
`Wallet` promises: one atomic movement at a time, never below zero. The
refinement mapping is `Statement` (amounts and balances after them). Composed
modules extend `Ledger` and take its actions as parts of theirs.

### Orders (extends Ledger)

`orders` is the table, `payments` what customers have paid at a gateway,
`request[h]` one `completeOrder` or `forceCompleteOrder`. `Notify` repeats for as
long as a payment has not been answered, also while an earlier notification of
it is being served; what a payment carries may differ from the order's amount
(fees, floating point). `StartPay` begins a posting, `PayStep` runs its queries,
`Complete` is the single UPDATE of `complete()`, `Answer` the gateway's YES.
`ForceConfirm` has no such guard as `Refused`: neither has the code.
`disturbed` is a history variable with the orders that were served twice at a
time, confirmed by hand or left half-way by a death; the promises `PaidFinal`,
`UndisturbedOnceInv` and the YES of `PaymentCompletes` are made to the others, while
everything else goes on racing.

### Activations (extends Ledger)

`activation` and `codes` are the tables, `source` the number at the SMS source,
`check[a]` the running `checkOneActivation`, `req[r]` a customer's request. The
postings of checks use the activation as handler.
A round starts a check for every open activation only when the last round is
over (`Promise.all`); each `case` of the `switch` is a disjunct of `Answered`.
The source answers, is silent (timeouts and errors), receives messages and ends
rents at any time. `LoopDies` is the query of `actualizeActivations` rejecting:
nothing calls `next()` again.

### Accounts

Tables as sequences or sets with dead rows marked; `request[h]` is one operation
with the user entity it has read. Single-query operations (`Logout`,
`DeleteUser`, deleting an expired token) are one action. Time is abstract:
reset tokens age from new over renewable (five minutes) to expired (an hour),
and sessions from good to expired, older ones first. Passwords are values;
hashing and the access token (signed, never stored) are left out.
`SaveUser` is the stale save. The five-minute wait, the foreign keys that delete
or refuse, and the root administrator made at start-up are all there.

`Stranded` are the accounts that can neither be confirmed nor registered again.
Failures make them, and so does a role saved over a confirmation or a deletion;
`StrandedByFailure` says that no other step does.

### Catalog, Shop

`services[c]` is the row of a code (none, live, deleted), `prices` the price
rows. A batch is its items served at the same time, so it needs no state of its
own. `Shop` is the promise for one service: priced, taken down, put back with
the prices it had. `disturbed` is a history variable with the services on which
two requests overlapped or one died half-way; the promise is stated for the
others, whatever happens elsewhere. `ShopSpec` instantiates `Shop` per service
with `Shelf` and `Back` as the refinement mapping.

### Listings (extends Catalog)

`listing[l]` is one `getDisplayServices`: it has copied the live prices of a
country (`ReadPrices`), waits for the counts of the SMS source, and will then
read the services (`ReadServices`). Administrators go on in between.
`began` records what the shelf showed at the first read, so that `ListedAtOnce`
can compare. The number of offers shown beside a price is left out.

### PriceCache

`cache` is the variable of `getPrices`, `asking[c]` a caller who waits for the
source. An answer is named by the time it was given, so its age is a difference;
answers arrive in any order, errors leave the cache alone, a call rejects after
`Timeout`. `served[c]` is what the caller got. `Tick` never passes a caller's
time-out: timers of an event loop that is not blocked fire when they are due.

### Articles

`editing[e]` is a request of an editor; `LookUpAlias`, `ReadRow`, `UpdateRow`,
`Reinsert`, `Insert` and `Remove` are the queries, the middle three those of one
`save()`: it reads the row, updates the columns that differ, or inserts the row
again if it has gone. The unique index refuses (`Refused`). `disturbed` and
`overtaken` are histories for the two properties.

### Repair (extends Ledger)

The ledger runs before and after the migration `Up`, which is one step: the
service is stopped while TypeORM runs it in one transaction (`yarn migrate`
comes before `node` in the start script). Until then amounts count 1/`Units` of a
cent, afterwards cents. `Recomputed` is the loop over one user's rows,
`Fractional` the filter in front of it, `Sums` the fold `calcBalance`, `Cast` the
change of the column's type with Postgres' rounding. Rows whose chain overlapping postings have broken are
part of what the migration meets.

### Virtualnum (extends Activations, instantiates Orders)

The composition: activations and orders in one process, over one ledger, with
one count of failures. `ServeOrder` runs the postings of `pay()` with the sum
`FrozenOf` says is frozen; `Dies` ends the requests of both. Apart from the empty
service it may start in one of two states that the program reaches and that a
run from the empty service would be too large to reach:

* `Overfrozen`: a number waits for its message and an administrator has taken
  the money for it (makeBonus checks the balance before the number is saved and
  inserts its row after).
* `AllUnpaid`: a user rented two numbers with one deposit, one after the other:
  each delivered, its purchase was refused because it froze its own cost, and it
  then froze nothing and left the deposit for the next. Both wait for another
  round of the checker, which posts their purchases side by side.

`Stock` are the numbers the source can still rent: one, so that the second
number is only met in `AllUnpaid`. `Indebted` is the user whom such a round has
left with less than his payment makes up for: `pay()` refuses it
(`transactions.service.ts:136`, 97) although nothing is frozen, and goes on
refusing it.

### Proof modules

`LedgerProofs`, `RepairProofs`, `OrdersProofs`, `ActivationsProofs`,
`AccountsProofs`, `CatalogProofs` (with `Listings`), `PriceCacheProofs` and
`ArticlesProofs` each extend their component; those of modules that extend
`Ledger` also extend `LedgerProofs` and cite its lemmas on postings.

### MC modules

`MCLedger`, `MCRepair`, `MCOrders`, `MCActivations`, `MCVirtualnum`,
`MCAccounts` and `MCListings` only give sets of numbers and the symmetry sets.
Handlers are interchangeable, and so are activations, service codes, countries,
editors, aliases, texts and callers; no symmetry is used in runs with a liveness
property. `MCPages` checks `PriceCache` and `Articles` in one run: they share
nothing, so a behaviour exercises one of them and the other rests.

## Runs

| Run | Shows |
|---|---|
| `ledger_repair` | Postings of one user overlap and abort, and the migration runs at any moment: every row starts from a balance the user really had (`SnapshotInv`); a debit was covered by one, also after the repair (`RepairFundedInv`); the repair takes no money (`RepairKeepsMoney`) and breaks no chain (`RepairChains`). |
| `ledger_serial` | Without overlap per user: rows form a chain (`ChainInv`), nobody owes money (`SolventInv`), and the four queries implement `Wallet`, deposits, refusals and covered debits alike. |
| `ledger_chain` | *Violated:* `ChainInv` with overlapping postings. |
| `orders_race` | Duplicates, forced confirmations and a dying request race: `PaidInv`, `OneOrderPerRowInv`; orders nothing disturbed are credited once (`UndisturbedOnceInv`) and final (`PaidFinal`); under fairness `PaymentCompletes`: paid, and answered. |
| `orders_twice` | *Violated:* `CreditedOnceInv` when a notification is repeated while the first is served. |
| `activations_race` | Users, source and checker race on two activations, and one query rejects, the loop dies or the process does: codes once, charges right and at most once, and once more for each failure. |
| `virtualnum` | Activations and orders on one ledger, with a rejected query or a crash anywhere, from an empty service, from one whose user lost a bonus to an administrator or from one whose user's two numbers are both still unpaid, and a loop that may die: `ReleasedOnce`, `CodeDelivered`, `Settled`, and `PaymentArrives` but for a debt. |
| `activations_unpaid` | *Violated:* `DeliveredIsCharged` for a user who has exactly the price. |
| `accounts_race` | `ConfirmedInv` however stale saves race; accounts, sessions and reset tokens bounded by the requests that raced; `StrandedByFailure`. |
| `accounts_undone` | *Violated:* `PasswordStays`. |
| `catalog_listed` | Requests on two services interleave, overlap and die beside a listing: `ShelfInv`, and for what was left in peace `ShopSpec` and `ListedAtOnce`. |
| `pages` | Answers overtake each other, fail and time out: no offers older than `Ttl + Timeout` (`AgeInv`). Two editors race: `RefusedInv`, `ArticlesKept`. |

Every passing run has, for each of its properties, a mutated definition
(comment "Mutant of ...") that stands for a plausible bug in the code and
violates the property under the run's own configuration.

### Bounds, and why they suffice

* **Handlers: 2** (`Request`: 1 next to two checks). Every hazard found needs
  two actors; a third adds another actor of the same kind.
* **Rows: 3 per user** in the ledger runs: a lost movement needs a row in between
  two reads and one after it, and a debit of two cents is covered, and inserted,
  as the third row, after two deposits of one. `Room` stops the start of a
  posting, never one in flight.
* **Money** includes a fraction of a cent, a negative bonus, an amount that is
  covered and one that is not; the frozen sum includes nothing and too much.
* **Orders 2, payments 1-2, failures 1**: a duplicate, a second order whose row
  could be confused, and one crash at every possible point.
* **Activations 2, messages 1** in `activations_race`, where two checks of one
  user meet; in `virtualnum` **one number with two messages, or two numbers with
  one**; one failure in both. `LoopDies` counts as a failure.
* **`virtualnum`: 2 activations (1 in `Stock`), 1 order, 1 payment, `MaxUpsets`
  1**: one upset in a behaviour (a second message, a failure or the death of the
  loop at any point, or the bonus taken in `Overfrozen`); upsets in pairs are left to the runs of the
  components. In `AllUnpaid` the second number counts as the upset (`Crowd`), and
  so does a request or a cancelled rent beside it: what is looked for there is
  two purchases at once, and a payment smaller than the debt they leave.
* **Repair: 3 rows, `Units` 2** (half cents): two rows that overlapped and one
  after them; amounts with and without a fraction.
* **Accounts: 3 requests, 3 users, 3 resets, 2 failures** (4 requests and no
  failure in `accounts_undone`): enough for two that race and one that prepares
  or follows, and for a third account, session or token that must not come to
  be. With one address everybody collides. Booting, logging out, deleting and
  expiry are not counted as requests.
* **Catalogue: 2 codes, 2 countries, 2 price rows, 1 listing, `MaxBusy` 1**: one
  service is disturbed while the other must hold; two rows are what a doubled
  price needs. While a listing is put together at most one administrator's
  request is being served; without a listing two are. A service two of them
  work on is excepted from `ListedAtOnce` anyway, and one request may end and
  another begin while the listing waits.
* **Price cache: 3 callers, `Ttl` 2, `Timeout` 3, 8 ticks**: long enough for an
  answer that waited out its time to be kept, to age, and to be overtaken.
* **Articles: 2 editors, 2 aliases, 2 texts, 2 articles.**

Runs set `CHECK_DEADLOCK FALSE` where the system may come to rest (all orders
done, requests used up). The ledger runs check deadlock: an administrator can
always try a bonus for somebody who does not exist.

### Fairness

* `WF(Serve(h))`, `WF(CheckStep(a))`: the event loop runs a request or check to
  its end unless it dies (`Fail` and `Crash` are bounded, never fair).
* `WF(StartRound)`: `_runCheck` and `next()` start round after round.
* `SF(GetStatus(a))`: the source answers a number's status again and again, if
  not every time; each `GetStatus` competes with `SourceSilent`.
* `SF(Notify)` per payment: gateways repeat a notification until it is answered.
  Strong, because only the bound on handlers, which the code has not, can turn a
  notification away.

`VirtualnumFairSpec` assumes the same of the two components together, and nothing
more. In particular it does not assume that a message ever arrives or that the
source ends a rent: `PaymentArrives` therefore excepts a rented number that still
waits, a loop that has died, and a user whose debt the payment does not make up
for (`Indebted`): without that exception TLC finds two purchases of 2 posted on
a balance of 2, and a payment of 1 that is refused for ever. `PaymentCompletes` excepts what was disturbed
or paid twice from its YES: there a repetition is refused instead of acknowledged, and
stays so. It also ends in a refusal when the frozen sum exceeds the balance: in
`virtualnum` that sum is the real one, and `PaymentArrives` follows it.

Nothing is assumed of customers, administrators, messages or the other
operations of the source.

## What is proved

Every theorem is for all values of the constants, of any size, under the named
assumptions of its module (`LedgerAssumption`, `AccountsAssumption` and so on),
which say no more than that bounds are numbers, amounts integers, and stand-ins
for "nobody" nobody. Only `AccountsAssumption` restricts a size: the requests in
flight are finitely many, because the counts below are by their number. Each
module has its inductive invariant (`AccountsProofs` one per question), which TLC
has also checked on the constants of a run (in `NamesInv` for the numbers rows
can have), a lemma per action or group of
actions that preserves it, and the theorems that follow.

All invariants and action properties of the passing runs, and both refinements,
are proved of the component they are stated in.

**`LedgerProofs`**, any interleaving, any aborts:
* `LedgerTypeCorrect`. Not inductive alone: a row is read by position, so
  `ReadInv` adds that a posting past `target` has a real user and past a read
  names an existing row.
* `LedgerSnapshots` (`SnapshotInv`) and `LedgerFunded` (`FundedInv`, the form
  `RepairFundedInv` has without a migration). `CheckedInv` carries the check over
  the queries that follow it: past `frozen`, some prefix of the rows covers the
  amount. Only `Insert` writes rows, and appending changes no earlier balance
  (`BalanceAtAppend`).
* With `~Overlap` only: `SerialChain` (`ChainInv`), `SerialSolvent`
  (`SolventInv`) and `LedgerImplementsWallet` (`WalletSpec`: `Insert` maps to
  `Post`, every other action to a stutter). The strengthening says that postings in
  flight have different users, and that a posting past a read still sees the last
  row. None of the three holds for overlapping postings.

**`RepairProofs`**, ledgers of any length, any unit:
* `RepairTypeCorrect`, `RepairSnapshots`, `RepairFunded`: `LedgerTypeOK`,
  `SnapshotInv` and `RepairFundedInv` of `RepairSpec`, before, across and after
  `Up`.
* `MigrationKeepsMoney` (`RepairKeepsMoney`) and `MigrationChains`
  (`RepairChains`): no money is taken, less than a cent a row is given, the dry
  run tells the truth, and no chain is broken.

The migration folds over rows, so this is induction over data. `SetInduction`
states it for a set of numbers (its proof takes the least number outside the set
from `WFMin`); `RecomputedRows` uses it to show that the recursive function
exists, `ChainSums` and `RoundedSums` relate what rows show and what they add up
to. `WholeRows` is why the migration may skip users without a fractional amount
even if their chains are broken: each `balanceBefore` is one that earlier rows
left (`SnapshotInv`), so it is whole too, and the change of the column's type
rounds nothing.

**`OrdersProofs`**, any notifications, forced confirmations and failures:
* `OrdersTypeCorrect`, `OrdersPaidByRow` (`PaidInv`), `OrdersOneOrderPerRow`
  (`OneOrderPerRowInv`). `HeldInv` is the link the two tables lack: the row a
  request carries from `pay()` to `complete()` is a Payment for its order's
  amount, and nobody else holds or names it.
* `OrdersCreditedOnce` (`UndisturbedOnceInv`) and `OrdersPaidFinal`
  (`PaidFinal`). `AloneInv`: an order that is not disturbed is served by one
  request, and is not paid while its money is being posted; `OwnedInv`: every
  Payment row of a user whose orders were not disturbed has its order, or a
  request about to name it. Orders of others may be disturbed at will.

**`ActivationsProofs`**, any number of activations, requests and checks:
* `ActivationsTypeCorrect`, `CodesStoredOnce`, `ChargeOfActivation`
  (`ChargeInv`), `ReleasedForGood` (`ReleasedOnce`). `NamesInv` follows every copy
  of a `transactionId`: in the row, in a check's entity, in a request's, in a
  posting. Each is a Buy of the activation's user for its cost and of no other
  activation, so whichever stale save comes last, the row is right.
* `ChargedOnce` (`ChargedOnceInv`). `Spent` are the activations that no check can
  charge any more, and each has a code. Of a user's Buy rows there are never more
  than of his spent activations and, for each failure, of his delivered ones: a
  purchase spends its activation, and a failure can at worst make all that
  were spent chargeable again.

**`AccountsProofs`**, any addresses, keys, roles and racing requests:
* `AccountsTypeCorrect`, with the rows requests name (`ServesInv`, `RowsInv`).
* `AccountsConfirmed` (`ConfirmedInv`). `EntitledInv` speaks of entities in
  memory too: whoever is verified, has a session, or is about to be saved as
  verified was mailed a link, or has no address that needs one, now or in any
  save still to come.
* `AccountsTokensBounded` and `AccountsBounded` (`TokensBoundInv`,
  `AccountsBoundInv`). Rows of an owner plus requests that may still insert (or
  save a deleted one back) never exceed the requests there are: a request that
  begins to insert has deleted or found none, one that has inserted is spent
  (`SessionsCount`, `ResetsCount`, `OwnersCount`, `KeysCount`).
* `StrandedOnlyByFailure` (`StrandedByFailure`), action by action.

**`CatalogProofs`**, any dictionary, prices, requests and listings:
* `CatalogTypeCorrect`, `OnePriceShown` (`ShelfInv`), and `CatalogIsShop`: the
  catalogue implements `Shop` for every service left in peace (`ShopSpec`).
  `PeaceInv`: at most one request works on such a service, and its rows are what
  the place of that request calls for (`Tidy`).
* `ListingsAtOnce` (`ListedAtOnce`) of `ListingsSpec`. The theorems before it are
  of `CatalogSpec`; `ListingsLeaveCatalog` (`ListingsSpec => CatalogSpec`) carries
  them to the composition the run checks.

**`PriceCacheProofs`**: `CacheTypeCorrect`, and `OffersAge` (`AgeInv`) from the
distance between the stamp of what is kept and the answer itself, at most
`Timeout`, and the wait of every caller, at most `Timeout` too.

**`ArticlesProofs`**: `ArticlesTypeCorrect`, `RefusedOvertaken` (`RefusedInv`) and
`ArticlesKeptWhole` (`ArticlesKept`). What a lookup told a request is still so
unless another wrote (`LookedUp`), and what `save()` read of a row is still so
unless another request works on it (`KnowsRow`, `AloneInv`).

### Only model-checked

* **Liveness**: `PaymentCompletes`, `PaymentArrives`, `CodeDelivered`, `Settled`.
  The prover has neither fairness nor `ENABLED`.
* **The composition `Virtualnum`**: `ReleasedOnce` is proved of `Activations`
  alone; that it survives beside orders on the same ledger is what the run
  shows. `Orders` and `Activations` are likewise proved each with its own copy of
  the ledger.
* **The violations**, which are behaviours TLC finds.

## Findings

1. **A movement is lost** (`ledger_chain`, `transactions.service.ts:140`): two
   postings of one user that overlap start from the same `balanceBefore`.
2. **An order is credited twice** (`orders_twice`, `orders.service.ts:86`): the
   status is checked before the posting and written after it.
3. **A code is delivered uncharged** (`activations_unpaid`,
   `checking.service.ts:90`): `buy()` counts the activation's own frozen cost, so
   it needs twice the price.
4. **A reset password comes back** (`accounts_undone`, `users.service.ts:302`,
   also 187): a confirmation or role change that read the user before the reset
   saves the old password over the new one.

The hazards in `PROJECT.json` say, line by line, what else can go wrong and
which property watches it. Where no property can, because the code promises
nothing, the entry says so: a number rented and not saved, a logout that races
a refresh, the cent that a floating point product loses. A hazard that every
property excepts is listed without one, and is real:

* an order whose request died between the posting and the update is credited
  again when its notification is repeated; one that was paid but not answered is
  refused instead of acknowledged; the rejection of a forced confirmation's
  update is lost;
* the checker's loop, once a query of it rejected, checks nothing until a restart;
* an account whose link could not be mailed, or whose token was not committed,
  stays as it is;
* services and articles that two requests worked on at a time (`disturbed`) may
  keep two prices of a country, a live price under a deleted service, a mixture
  of two edits or a row that had been removed.

Others are met by a property that bounds the damage and does not exclude it. An
activation may be charged once more for a failure (`ChargedOnceInv`); two
purchases may spend one balance (`RepairFundedInv`), and the debt they leave
keeps smaller payments out (`PaymentArrives`). `PaidInv` compares an order with
its own row: the amount a gateway reports overwrites the order's, because the
comparison that `docs.md` asks for is commented out in the code
(`orders.service.ts:92-100`).

## Not modelled, and why

* **Free numbers**: stateless reads of another site.
* **The other migrations** add a column or a table, and `down()` is only run
  by hand (`yarn migrate:revert`).
* **The number of offers shown** (`PricesCountMap`), the names of services and
  countries, `getApiServices`: read, computed and sent, never kept.
* **Payment forms and signatures, validation, interceptors, configuration,
  modules**: no state. A notification whose signature is wrong changes nothing.
* **Editing the permissions of a role**: single saves; `Accounts` takes roles as
  given. **Stub activations**: random data for development.

## Plan

The components, their runs and the theorems about each of them are done. What is
left:

1. `Virtualnum`: the safety of the composition from that of its components.
   `ActivationsSpec` is not implied (postings of orders write the ledger
   too, and `Overfrozen` is another initial state), so `ChargesInv` has to be
   preserved by the steps of orders: they append Payment rows and touch no
   posting of a check. Then `ReleasedOnce`, `CodesOnceInv` and `ChargeInv` of
   `VirtualnumSpec`; `PaidInv` and `OneOrderPerRowInv` of its orders in the same way.
2. `SolventInv` for users none of whose postings overlapped, where the others'
   do: at present `Overlap` is all or nothing.
