# AdsBender: a verification project

AdsBender is an ad network: advertisers fund campaigns, publishers show them and are
paid. `src/backend` is the system (NestJS, Prisma over Postgres, Redis, ClickHouse);
`src/web` is its user interface (Next.js), and `src/backend/public/publisher_tag.js` the
script on publishers' pages. This directory models the parts where requests, messages
and answers can meet in an order nobody wrote down: the ledger and the services that
drive it, the workers that turn events into charges, the Redis client, ad serving over
its caches and counters, the handlers and caches behind accounts, sites, zones and
settings, and the browser code that talks to them.

Backend paths are relative to `src/backend/src`, paths that begin with `app/` or `lib/`
to `src/web`.

## The system

| Component | State | Operations | Met by | Module |
|---|---|---|---|---|
| Wallet ledger: `wallet/wallet-manager.service.ts` | `User.balance_usd`, `Wallet`, the funding columns of `Campaign`, `WalletTransaction` with its unique index | deposit, reserve, release, spend, earn, promote | every component with money | `Wallet` |
| Row locks of the same class | Postgres row locks | each `$transaction`'s sequence of `FOR UPDATE` | all concurrent callers | `RowLocks` |
| Campaign funding: `admin/admin.service.ts`, `advertiser/advertiser.service.ts` | `Campaign.status`, `totalBudget`, requests in flight | approve, reject, pause, resume, archive, edit | the ledger, billing | `CampaignFunding` |
| Campaign creation: `app/advertiser/campaign-wizard.tsx`, `advertiser/` | the form, `CampaignDraft`, uploads, `Campaign` rows | autosave, restore, discard, upload, paste, submit | other tabs, late answers | `CampaignWizard` |
| Publisher payouts: `wallet/`, `wallet/payout-providers/` | `Payout` rows, provider calls in flight | request, submit, complete, fail, webhook | admins, RazorpayX | `Payouts` |
| Payout destination: `wallet/beneficiary-account.service.ts`, `razorpayx-payout.provider.ts` | `BeneficiaryAccount` with the cached fund account | replace, create contact and fund account, save ids, pay | publisher, payouts | `Beneficiary` |
| Advertiser top-ups: `payments/` | `PaymentOrder`, handlers in flight | create, confirm, capture, webhook, credit | browser, PayPal, Razorpay | `TopUp`, `TopUpContract` |
| Ad billing: `ad-engine/ad-billing`, `cpm-billing`, `conversion-tracking`, the two ingestion workers | Redis streams and counters, `AdClick.convertedAt`, the worker's batch | publish, read, bill, acknowledge, postback | streams, ledger, settings | `Billing` |
| Redis client: `ad-engine/redis-resp.client.ts` | one socket, pending queue, parse buffer | command, connect, AUTH, drain, timeout, close | every Redis store | `RedisClient` |
| Cache synchronisation: `ad-engine/*-cache-sync.service.ts` | campaign, zone and blacklist caches, last synced snapshot | sync every 30 s | Postgres, Redis, serving | `CacheSync` |
| Ad serving: `ad-engine.controller.ts`, `ad-targeting`, `fraud-*`, `click-token`, frequency cap, impression dedup, velocity counter | Redis keys with a time to live, `AdClick` rows | serve, click, newsletter pixel | caches, counters, broker | `Serving` |
| Platform settings: `platform-settings/`, the pricing panel | one row with a JSON rate card, each worker's cached copies | get, put, expire | billing, wallet | `Settings` |
| Publisher sites: `publisher/`, `ad-engine/site-auto-verification.service.ts` | `PublisherSite`, its first zones | verify by ads.txt, verify by ad request, activate, deactivate | publisher, visitors' ad requests | `Sites` |
| Ad zones: `publisher/publisher.service.ts`, `app/publisher/ad-zone-manager.tsx` | `AdZone.status`, each tab's list | create, edit, pause, activate, archive, list | two tabs of one publisher | `Zones` |
| Auth guard and logout: `auth/guards/jwt-auth.guard.ts`, `auth/` | `tokenCache` of each instance of the guard, sessions at Supabase | resolve, logout, expire | every authenticated request | `Sessions` |
| Registration: `auth/auth.service.ts` | Supabase users, `User` rows | register, Google, phone code, roll back | Supabase | `SignUp` |
| Signing in: `app/providers/auth-provider.tsx` and the forms | user, cookie, captcha tokens | sign in, log out, refresh, solve, send, lapse | Supabase, Turnstile | `SignIn` |
| Dashboard views: thirty lists, sheets, dialogs and reports over `lib/api.ts` | what is asked, shown, typed, uploaded; requests in flight | load, write, patch, reload, cancel | the handlers above | `Views` |
| Publisher tag: `src/backend/public/publisher_tag.js` | section states, `sessionStorage` | load, arm, fire, dismiss | `/serve`, the visitor | `PublisherTag` |
| Notifications | rows, the bell's list | mark read, poll | every service | `Views` (the bell) |
| Process cluster: `common/cluster-worker.ts` | one owner of the loops, per-process caches | restart | all | `Restart` and `Stop` actions of `Billing`, `CacheSync`, `Settings`, `Sessions`, ... |
| Traffic ingestion, ClickHouse store, analytics | ClickHouse tables | insert, query | streams | no: see "Not modelled" |
| Static and marketing pages | none | render | | no |

### How they interact

* The ledger is the only writer of balances. Its callers hold no lock across an `await`:
  a request reads a row, calls a ledger transaction, and later writes the row by id. The
  services for zones, sites, settings and beneficiaries have the same shape.
* `/serve` and `/click` read only caches and counters, publish to Redis streams and
  forget. One process of the cluster runs the ingestion loops, which bill, insert into
  ClickHouse, and only then delete the messages: delivery is at least once.
* PayPal, Razorpay and RazorpayX call back by webhook, repeatedly and in any order, next
  to the browser's own confirm call and the admin's buttons.
* Each Redis store owns a `RedisRespClient`; concurrent commands share its connection.
* The browser gives a request up after 20 s; the handler runs on. Identical GETs in
  flight are shared (`lib/api.ts`, line 136), so that two views, or a view and its own
  reload, can get one answer.

### What is hard about it

Two transactions where the reader expects one (charge then share; mark paid then
credit; reserve then set ACTIVE; user then row); a row written by id after an `await`;
at-least-once delivery against ledger references; answers lost after the other side
acted; reversed lock orders; a pipelined protocol whose replies are told apart only by
their order; counters read before they are counted and expiries sent after them; a
value cached in one process and changed by another; answers that arrive after the
question changed. `PROJECT.json` lists each hazard at its line, with the properties
that watch it.

### What makes each part correct

* Ledger: money is conserved, the wallet's reserve and the campaigns' reservations
  agree, the audit trail replays to the balances, a campaign never costs more than what
  was reserved for it.
* Row locks: one holder per row, and only known lock orders can form a cycle.
* Campaign funding: a campaign that can serve had its whole budget reserved; an archived
  one was settled.
* Payouts: what is held is what is open; a payout is settled one way, once, and goes to
  the account on file.
* Top-ups: an order is credited at most once, whole, to its buyer, after the money came.
* Billing: a publisher earns only on what was charged; every event leaves its stream.
* Redis client: one connection, replies to the right callers, no call hangs.
* Caches: readers see whole snapshots, and catch up.
* Serving: limits hold up to named races, windows end, the winner pays the second price,
  an event is billed one way.
* Settings, zones, sites, drafts: nobody's write is undone by a request that had read the
  row before it.
* Accounts: the two halves of an account agree, an ended session is refused, the user
  shown is the one signed in.
* Views and tag: what is shown answers what was asked; overlays fire once per session.

## The modules

Actions carry the name of the method they model; `PROJECT.json` maps every definition
to its lines. One action is the code between two `await`s. Definitions whose name starts
with `Mut` are broken variants of the definition that follows them: no specification
uses them, and they exist so that each property can be seen to fail when the code is
wrong in that way. History variables are marked as such where they are declared.

### Money

**`Wallet`** is both the detailed model of the ledger transactions and the abstract
specification of the ledger: anybody may call any operation with any argument at any
time. A transaction is one action because it locks every row that it changes before it
reads it (`RowLocks` checks that reading). A throw is a disabled action: the transaction
rolls back. `RecordTransaction` is the unique index on (wallet, type, reference): a
repeated reference aborts the caller. `Fits` is the `Decimal(12, 2)` column: an overflow
aborts too. Amounts are whole cents.

**`RowLocks`** gives each transaction's lock sequence and Postgres' blocking, commit and
deadlock victim. It keeps no data.

**`CampaignFunding`** extends `Wallet` with the requests of the two services. A request
is a process with one stage per `await` (`reserve`, `release`, `status`, `edit`), and may
stop at each. History variables: `overlapped`, two requests of a campaign overlapped, or
one died after its ledger transaction; `edited`, the campaigns whose budget was edited.

**`Payouts`** extends `Wallet` with the payout transactions, the provider call and what
its answer does, admins, webhooks, and RazorpayX itself (external). `early` is a history
variable: an admin settled the row while its provider call was in flight.

**`Beneficiary`** is the destination of those payouts: the publisher replaces the row
while submissions read it, create a contact and a fund account, and save the ids on
whatever row is there by then.

**`TopUp`** extends `Wallet` with orders and handlers (one stage per `await`), and the
gateways (external). `acked` and `died` are history variables. **`TopUpContract`** is
what a top-up promises, in two actions; `TopUp` implements it under the refinement
mapping `Contract`. A capture PayPal leaves PENDING counts as received there, because
`captureAndExtractId` looks at no status.

**`Billing`** extends `Wallet` with the two streams, the two workers' batches, the Redis
counters and the postbacks. Every step of a worker is one `await` of `processNextBatch`.
`dropped` is a history variable: charged, and the share was not reached. `BatchRefs` are
the references of batches, numbered by the counters.

### Caches, counters and serving

**`RedisClient`** has one action per callback of the event loop. `wire` is what the
server has not answered; `stuckOn` is the error reply that `drain` leaves at the head of
its buffer: it is never consumed, so it rejects every later command of the connection.

**`CacheSync`** is one of the three sync services at a time (`store` says whether it
writes one JSON value or a staged set). `setInterval` does not wait, so syncs overlap;
each Redis command is a step and may fail before or after it took effect; the worker may
restart and Redis may lose its data.

**`Serving`** is `/serve`, `/click`, the newsletter link and the newsletter pixel. A
request goes through counting (INCR), expiring (EXPIRE), targeting (the cap of each
candidate), the auction, capping, the second look at the zone and the deduplication.
`Eligible` abstracts `isEligible`: whatever the targeting columns say, some subset of
the campaigns bids. The auction (`RunnerUp`, `ClearingPrice` and their rounding) is
exact, in thousandths of a cent; `charges` is what a step published and a billing worker
will charge for: a click with a cost, an impression with a `maxCpm`.

**`Settings`**: the platform fee stands for the plain settings, which are written alike;
the rate card is one JSON column that a save reads and writes back. Ages are counted in
ticks up to the time to live.

### Accounts, sites and zones

**`Sessions`** is the guard and logout in every worker, over Supabase with its timeout.
Nest (external) makes an instance of the guard, with a cache of its own, for the guarded
controllers of each module (`Guards`), and one more as a provider, which is what
`AuthController` has injected and clears on logout. **`SignUp`** is registration by e-mail, Google and phone with the roll-back;
`torn` is a history variable: the addresses where a write was done and not answered, not
taken back, or left by a worker that stopped. **`Sites`** is adding a site, verified by
ads.txt or by an ad request's `Referer`. **`Zones`** is the status machine of a zone,
checked and then written by id, with the tabs that call it.

### Web

**`SignIn`** is one tab: the user in `AuthProvider`, the cookie it cannot read, which also
lapses and is written by other tabs (`CookieChanges`), the forms and their captcha tokens.
**`CampaignWizard`** is the form with its debounced draft, its creative, uploaded or
pasted, and its submission. **`PublisherTag`** is the render families with their
listeners and `sessionStorage`, over several pages. **`Views`** models thirty views at
once: they are one machine (load, answer, write, patch, reload) and differ in a record of
eleven switches (does a new key cancel what is in flight, does a write patch, reload or
change optimistically, ...), read off each view's source; the mapping names each view's
lines. `overtaken`, `crossed`, `strayed` and `failed` are history variables, one for each
race that the views are open to.

`MC*.tla` give the instances, `*Proofs.tla` the proofs.

## What is checked

All sizes are those of the .cfg files and of the substitutions in the MC modules;
`Max...` constants, `Refs`, `ColumnMax` and `Instants` are the bounds that make the
instances finite. The type invariant of a module goes with one of its properties.

| Run | Instance | What it shows |
|---|---|---|
| `wallet` | 1 advertiser with 2 campaigns, 1 publisher, amounts 1-2, column limit 3 | conservation, reserve against reservations, replay of the ledger, the bound on a campaign's cost. Two campaigns make the sums differ from their terms; the column limit is reached |
| `campaign_funding` | 1 campaign, 2 concurrent requests, 2 release instants | implements `Wallet`; live campaigns funded with the whole of their budget, but for later edits; archives settle, and money is stranded only by a race or a crash |
| `payouts` | 1 publisher, 2 payouts that compete for its balance; or 3 submissions, 2 accounts, 2 changes | what is held is what is open; one settlement per payout; the account on file is paid, but for one race |
| `handlers` | 3 transactions over one advertiser's and one publisher's rows; or 2 workers, 2 modules, 1 token, 3 requests; or 1 address, 1 number, 3 sign-ups, 2 mishaps; or 2 submissions and 3 ad requests of a site; or 2 users, 2 requests, 2 captcha tokens | exclusive locks, and each cycle contains a charge or a failing payout; ended sessions refused; account halves agree; ads.txt verification kept; the user shown is the session; tokens sent once |
| `top_up` | 1 order, 3 handlers (a confirm call and two webhooks) | implements `TopUpContract`; one winner of the compare-and-swap; PAID means credited unless a handler died in between or a first attempt failed |
| `billing` | a click, a conversion, 2 impressions of different publishers, batches of 3, 1 failed batch | earned was charged, charged is shared, batches follow the counters, every published event is processed. Two impressions fill a batch of 3 when one is delivered again; two publishers tell one share of a batch from one share each |
| `redis` | 4 calls, 3 sockets, with AUTH; or 2 rows, 2 overlapping syncs, 2 changes or restarts, 2 failures, both stores | one connection, queues in step, values to their callers, every call settles; readers see whole snapshots unless syncs overlap; the copy catches up but where the unchanged-snapshot shortcut hides a lost write |
| `serving` | 1 visitor, 3 requests of which 2 at a time, 2 campaigns under CPC and CPM or CPC and CPA, limits 2, 1 and 1, 1 failure | by how much races and outages overshoot limits and caps; no window without an end; one unique impression per window; second price |
| `views` | each view, 2 keys, 2 rows, 2 loads, 1 change, 1 failure | when a view may show an older answer, hide its own change, or send what was typed for another row |
| `web` | settings: 2 workers, 2 formats, 3 calls; zones: 2 tabs, 2 zones, 3 calls; wizard: 2 formats, 2 edits or pastes, 1 submission, 1 failure; tag: 3 sections of 2 zones, 2 pages | saved rates are lost only to overlapping saves; stale values age out; drafts follow the work; misfits only where nothing checked the creative against the format; overlays once per session; archived zones changed only by overlap |
| `newsletter_prices` | as `serving` | the first disagreement described below |
| `logout_eviction` | as `handlers` | the second |

`payouts`, `handlers`, `redis` and `web` hold several modules that share no variable: `active`
chooses one of them in the initial state, and the others keep their initial values. The
reachable states are the disjoint union of the modules' own, so each module is checked
as by a run of its own.

The races in these components are between two parties (three where a third can tell,
as in a compare-and-swap, a lock cycle, or a limit), and nothing but the user's balance
links two campaigns, two orders or two payouts: that is why one or two of each are
enough. Quantities matter by comparison only (enough or not, fits or not, over the limit
or not), so small ones reach each case. One bound hides a case that is known: with
`MaxWrites = 1` in `views` a row changes once, and two edits of one campaign answered in
the other order need two; `crossed` covers it.

Deadlock checking is off where the system may stop: every reference used, every socket
used up, every event billed. It stays on in `redis` for the caches, whose interval
never stops, and in `handlers` for the row locks: the other modules of these two runs may
stop.

### Fairness

* `Billing`: weak fairness of each channel's worker. `runLoop` is a `while` without an
  exit but shutdown, in one process that the cluster restarts. Batches that fail are
  bounded by `MaxRetries`: a database that stays down for ever stalls billing, and should.
  So does a single message whose processing throws every time, and it holds up the
  messages behind it: the runs show progress past failures that end, and nothing of one
  that does not.
* `RedisClient`: weak fairness of the connect timeout (an opening socket becomes ready or
  fails) and of the command timeout. The server is not assumed to answer.
* `CacheSync`: weak fairness of the query that `setInterval` starts, of the comparison,
  and of each sync's command, which succeeds or fails: the client's timeout, which
  `RedisClient` checks, settles every command. Redis is not assumed to be up.

No other module assumes fairness, and none of their properties is a liveness property:
a request may die at any await, so nothing promises that it ends.

### Where the code and its comments part

Two runs check a sentence of the repository each, and TLC refutes it.

* `newsletter_prices`: "a CPA campaign is only billed on a verified conversion postback",
  "a click must NOT also charge `maxCpc`" (`ad-engine.controller.ts`, 308-312), which
  `publisher.service.ts`, 357, says newsletters follow. `buildNewsletterSnippet` puts
  `maxCpc` on the link of every campaign that is not CPM (line 360), CPA campaigns
  included, and the click is charged. The opening pixel carries a cost as well, for the
  analytics only: `CpmBillingService` charges an impression by its `maxCpm`, which is set
  for CPM campaigns.
* `logout_eviction`: `invalidateToken` is "called on logout so a revoked token stops
  working immediately" (`jwt-auth.guard.ts`, 82). The instance it is called on is the
  provider injected into `AuthController`; requests are let in by other instances, whose
  caches it leaves alone. After a logout that was carried through, the guard that let the
  logout itself in still holds the token, for what is left of its 30 s.

Elsewhere a comment says more than the code keeps, and the property states what is left,
with the exception named. Each exception is reachable in its run:

* "Lock order is always User -> Wallet -> Campaign" (`wallet-manager.service.ts`, 55): a
  charge locks the campaign first, a failing payout the wallet before the user
  (`OnlyReversedOrdersDeadlock`).
* An archived campaign's budget "needs to go back": an approval that overlaps a rejection
  leaves it reserved (`ArchivingSettles`).
* Money of a payout in flight cannot be requested again: a submission whose answer is lost
  is reported FAILED and refunded while RazorpayX pays it (`SettlesOnce`).
* `payment.captured` is "the durable fallback": after a failed first attempt of the same
  checkout the order is FAILED, and the capture is answered 200 and not credited
  (`OrdersAreSound`).
* A campaign is billed at multiples of 1000: a failed INCR answers 0, which is one, so
  that batch 0 is charged once, and shared once with each publisher whose impression met
  the failure (`BatchesFollowCounter`).
* The publisher is not paid on "an account the publisher just changed away from": a fund
  account created for the old account is saved on the new row (`PaysTheAccountOnFile`).
* "Can never clobber another admin's concurrent edit" (pricing panel): two saves that
  overlap do (`RatesAreKept`).
* "Don't downgrade/overwrite an ads.txt verification's metadata": an ad request that had
  found no row does (`AdsTxtIsKept`). The update branch it takes is reached by that race
  only.
* "A fresh, single-use token is required per submission": `PhoneOtpForm` keeps the token
  it has sent when the visitor asks for "a different number" (`TokensAreSentOnce`).
* "The creative must match it exactly": the format can change during the upload and after
  it, and a creative whose address or markup is pasted is not checked at all
  (`MisfitWasNotChecked`).
* "Hold the full budget" on approval: the budget of that moment; an edit while the campaign
  is paused reserves nothing more (`LiveIsFunded`).
* The winner pays "the second highest bid": the auction draws among the bidders, and a
  winner that did not bid most pays its own bid at most (`PaysSecondPrice`).
* The answer of `GET /auth/profile` that arrives after a login sets the user it was asked
  for, or none; and nothing tells `AuthProvider` that the cookie's `maxAge` is over, or
  that another tab signed in or out (`UserIsTheSession`).

## What is proved

Every theorem holds for all values of the constants, under the assumptions of the modules
it is about (no bound of the instances is used). A theorem about a property of a run
states it as `Spec => []P`, by an inductive invariant that is typed, initial and kept by
each action. What each invariant adds to its property is the point of its proof.

### The ledger: `WalletProofs`

* `TypeCorrect` (with `WalletAssumption`: campaigns are finitely many and have owners,
  amounts are positive): no operation drives a balance or a reservation below zero.
* `MoneyIsConserved`: `MoneyConserved` is inductive over `TypeOK`: each operation
  moves one user's money, and `OneUserMoves` reduces the rest to that user.
* `CampaignCostIsBounded`: `SpendWithinReservation` is not inductive. Reserving again
  must be refused, and the index that refuses it is per wallet: `OwnReservations` (a
  campaign's reservation rows are under its owner's wallet) is the strengthening.
* `ReserveIsBacked`, `LedgerIsComplete`: sums over campaigns and over ledger rows. A step
  changes one term of a sum, and `SumUpdate` and its companions say what that does
  to the sum. They are proved of `SumFunctionOnSet` as the library defines it, by
  recursion over the subsets of a finite set; the induction they need is done by hand, on
  a smallest set of counterexamples (`MinimalSubset`), the library's induction theorems
  being out of the provers' reach. The ledger is finite because each step adds one row.

### What uses the ledger

* `CampaignFundingProofs`: `FundingTypesCorrect` and `ServicesImplementLedger` (with
  `FundingAssumption`: budgets are amounts, and the amounts are closed downwards, since a
  release may carry any part of a reservation): every step of the services is a step of
  `Wallet!Spec` or leaves the ledger alone. A release carries an amount read before the
  await; that it is one the ledger accepts follows from the ledger's own bound, so
  `CarriedInv` carries both invariants together. `LiveCampaignsAreFunded`: `LiveIsFunded`
  with `GoesLiveFunded` (a request about to write ACTIVE or PAUSED has seen, or made, the
  reservation) is inductive, because ledger rows are never deleted (`LedgerGrows`), and a
  budget differs from what was reserved for it only once it was `edited`.
  `ArchivingIsFinal`: an archived campaign that holds money, or comes back, overlapped.
* `PayoutsProofs`: `PayoutsSettleOnce` rests on `CallsUnsettled`: an answer that comes
  late finds a row that only an admin who was early can have settled.
  `ReserveHoldsPayouts` is a sum over payouts, with `OwnSettlements` because the index
  that refuses a second settlement is keyed by wallet. `PaidOnFile`: a submission's fund
  account is the one of the account it read (`FundsAreOwn`), and it read the row that is
  there unless the row changed since (`ReadsAreCurrent`).
* `TopUpBillingProofs`: `OrdersStaySound` adds the gateway's side, `PaymentTaken`: nobody
  marks or credits an order, and no event reports it captured, before its payment was taken.
  `TopUpsRefineTheirContract`: initial states map to initial states of `TopUpContract`,
  and every step to one of its two actions or to a stutter; what is credited is the sum
  of the order's deposit rows, which has at most one term.
  Billing (with `BillingAssumption`: references of events and of batches differ,
  shares are amounts; and, as a hypothesis of the two theorems, `BatchRefs \subseteq
  Refs`, so that batches of any number can be booked): `ChargesAndSharesAgree` needs to
  know where a worker is, `WorkersInv`: it bills the head of what is left of a batch, and
  the batch is the front of its stream. `BatchesAreCounted` needs of each row what its
  reference says (`ChargesFollow`, `SharesFollow`), that a counted batch is shared once
  (`SharedOnce`), and that the worker counted what it is about to bill (`BillsCounted`);
  the number of rows follows by mapping them into numbered batches and publishers. The
  attempt to prove an earlier form of the property, one share of batch 0 per campaign,
  failed for a reason: it held of instances with one publisher only. Two impressions of
  different publishers that meet a failed INCR are both credited for batch 0, and the
  instance has two publishers since.

### Connections, caches and handlers

* `RedisProofs` (with `RedisAssumption` and `CacheSyncAssumption`, which tell the model
  values apart): `SocketInv` (the attached socket is `this.socket`; one that opens is
  awaited, and alone) makes `ConnectionIsShared` inductive; only that socket is written
  and read, so the queues stay in step (`QueuesStayInStep`, and with types
  `ConnectionStaysSound`); and with the queues in step each value goes to the call that
  asked for it (`RepliesReachTheirCallers`). `ReadersSeeSnapshots`: the
  rows of a sync in flight are some the table has shown, and, unless syncs have
  overlapped, so is the live set, and what is staged is the part of its answer already
  sent (`StagingIsOwn`).
* `ServingProofs` (with `ServingAssumption`: a bid is at least one unit, a cap at least
  one impression, campaigns and requests are finitely many). A request decides on what it
  read an await ago, so each invariant says what that still means.
  `WinnersPaySecondPrice`: until it is served, a request with a winner carries the
  clearing price of the bidders it had (`HandlingOK`), and `applyClearingPrice` is bounded
  by the winner's bid and rounds the second to the nearest cent, by arithmetic that holds
  of every bid. `WindowsStayBounded`: `KeyInv` says of each key what went through it
  against its count, adding the requests that have counted and not decided
  (`PassedCounted`, `RateKept`) or were let through and have not counted (`CapKept`, by
  the cardinality of that set), and that one request at a time, the one whose INCR began
  the window, sets its time to live (`OneExpires`). `AddressesCountOnce`: a claim that is
  held is the one unique impression of its window (`UniqueInv`).
* `HandlersProofs`: `LocksAreExclusive`, `DeadlockNeedsReversedOrder` (with
  `LockAssumption`: campaigns and payouts have users): `OrderedInv`, whatever an operation
  outside `spending` and `failing` holds ranks below whatever it still wants. In a cycle
  ranks would climb for ever (`RanksClimb`), and there are three.
  `SignUpTypeCorrect`, `AccountHalvesAgree` (with `SignUpAssumption`: addresses and
  numbers differ): `HalvesAgree` speaks of the user at Supabase; `CreatorInserts` adds
  that a request about to insert the row, or to delete the user, is the one that created
  that user, and that no row is there yet. So a roll-back never deletes another's user.
  `EndedSessionsAreRefused`: the age of an answer on its way, then in the cache of the
  instance that asked, against how long ago the session ended, as in `StaleBounded`; it
  holds of any number of instances, and owes nothing to `invalidateToken`. `AdsTxtStaysWithItsMethod`: only
  an ad request that had found no verified site can still write the method.
  `TokensServeOneRequest` and `ShownUserOwnsTheSession`: which forms hold a token they
  have sent, and which answers in flight were asked for by a visitor who is no longer
  signed in.

### The browser and its handlers: `WebProofs`

Five modules that share no variable; each theorem is about the specification of one.

* `SettingsTypeCorrect`, `RatesKept`, `StaleBounded` (with `SettingsAssumption`): the
  invariant says of each call that what it read was stored when it read it and has ceased
  to be for no longer than the call has waited (`CallInv`), and the same of each copy with
  its age (`CopyInv`). The bound holds for any time to live and however long a query
  takes, because the age starts when the query is sent.
* `TagTypeCorrect`, `ShownOncePerSession` (with `TagAssumption`: the sections of a page
  are finitely many): `SeenInv` adds that a key that is not marked was not shown, and that
  an exit intent waits only while its key is unmarked. Its bound is a count of sections:
  each that shows the ad leaves the armed ones, and a page that finds the key marked arms
  none.
* `ZoneTypeCorrect`, `ArchivedIsFinal`: of two status requests of one tab that still
  waits, one is answered (`OneStatus`, what the disabled buttons are for); so a handler
  that checked a zone archived since was overtaken by another tab's, or by one of its own
  tab that had given a request up (`StaleIsOutrun`).
* `WizardTypeCorrect`, `MisfitsEscapedTheCheck`, `DraftKept` (with `WizardAssumption`):
  `CheckedInv` follows every creative that passed `uploadCreative` through forms, timers,
  saves, the draft, other tabs that restore it, and submissions. `DraftFollowsWork` speaks
  of quiet states; `WorkIsSomewhere` says where the last work is in the others (a timer, a
  save on its way, the row), and `OneAtATime` that nothing else is on its way to the row,
  which holds until `blurred`.
* `ShowsWhatIsAsked`, `OwnWritesShown`, `TextReachesItsRow` (with `ViewAssumption`: there
  is a key, a closed dialog is none, rows can change), for all thirty views at once.
  `ViewsMakeSense` reads from the records what the steps need: a view that writes neither
  closes nor cancels, and an optimistic one writes final rows without a dialog. What was
  asked for, or acknowledged, is shown, or an answer that will be used is on its way
  (`AskedIsComing`, `AckedIsComing`); and no answer read since is older than what was
  acknowledged (`ServerLeads`).

### Only model-checked

* Liveness (`EveryEventIsProcessed`, `EveryCallSettles`, `CatchesUp`): out of the proof
  system's reach, as are the fairness conditions they rest on.
* The refutations of `newsletter_prices` and `logout_eviction`.
* That the cases a property speaks of are reached, with each of its exceptions: a theorem
  holds of a model that never gets there, too. The instances get there, and the broken
  variants (`Mut...`) show it.

## What is not modelled

* Traffic ingestion and the ClickHouse store: inserts for analytics that move no money;
  their loop is that of the billing workers. Analytics: read-only queries, whose text is
  the component.
* `deduct` and `credit` of the ledger: no production caller, no ledger row.
  `promotePendingEarnings` is in `Wallet`, and nothing calls it.
* `deleteCampaign`: it deletes DRAFT rows, and nothing writes DRAFT.
* Signatures, GST and currency conversion: taken as verified and as given. In `Serving`,
  bot, data centre, country and device look-ups are table reads: any answer.
* `RolesGuard` and `AdminScopeGuard` admit or refuse by the row the guard has read.
  `reset-password-form.tsx` is one request with a token from the mail.
* The parser's bytes: a reply arrives whole. `destroy()` at shutdown. The forking of the
  cluster: restarts are actions of the modules that keep something in a process.
* Layout, charts, paging, client-side sorting, placement of creatives, static pages.

Some things are known and have no property, being one party's plain behaviour rather
than a race: a message without payload stays in its stream; a unique batch is credited
whole to the publisher of its last impression; a publisher can reactivate a site an
admin deactivated, and the zones of a deactivated site still serve; a campaign submitted
again after a timeout is created twice; two releases of one campaign in one millisecond
share a reference.

## Plan

1. Composition of `CacheSync` with `Serving` and `Wallet`: a campaign out of funds stops
   being served within a sync and a cache period; today `Serving` reads a cache whose
   entries may vanish at any time.
2. `Payouts`: a webhook that arrives before `providerRef` is stored finds no row and is
   answered 200; whether it is ever needed again.
3. An edit of a paused campaign's creative, resumed without a review.
4. Proofs: `Payouts`, `TopUp` and `Billing` implement `Wallet`'s specification, as
   `CampaignFunding` does, so that the ledger's theorems hold of their runs too.
