# HoldIT backend: a formal model

HoldIT stores travellers' luggage. A user books and pays an advance, a store
slot is reserved, a driver collects the luggage and brings it to the store; later
the user asks for it back, pays the rest, and a second driver returns it. The
backend is a Node/Express program run as several processes (PM2 cluster) over
one MongoDB (documents, transactions), one Redis (driver flags, offers, locks,
cached views, geo-indexes) and BullMQ job queues. There is no shared memory:
everything that can go wrong goes wrong between two awaits of a handler, or
between two stores of data.

This directory holds TLA+ modules of that program, TLC configurations that check
them on small instances, and TLAPS proofs for instances of every size.
`PROJECT.json` lists the components, the runs, which definition translates which
lines, and what in the code is hard to test.

## 1. Inventory

| Component | State | Operations | What is hard | What makes it correct | Module |
|---|---|---|---|---|---|
| Booking life cycle (`helpers/user/bookingHelper.js`, `controllers/user/booking.user.controller.js`, `helpers/driver/driverRideHelper.js`, `models/Booking.js`) | `Booking.status`, the legs' assignments and codes | schedule, cancel, retry, request return, accept, arrive, complete, confirm stored | a handler reads, awaits, and writes by id; a schema hook does a read of its own | every move is in the table; a finished booking stays finished | `BookingCore` |
| Store capacity (`bookingHelper.js`, `services/storeServices.js`) | `Store.current_booking_count` | reserve, release, count stored | races for the last slot, several paths of cancellation | the count covers what is promised, within the capacity | `BookingCore` |
| Driver availability (`models/Driver.js`, Redis) | `is_on_trip` | set by accept, cleared at store, delivery, cancellation | set after the booking's write, cleared by a handler that may end late | one trip at a time | `BookingCore`, `Presence` |
| Auto-cancel job (`workers/autoCancelWorker.js`) | a delayed job per booking | queue, run | check and act are apart; queueing follows the commit; a cancellation that fails says so to nobody | an unpaid booking ends | `BookingCore` |
| Administration (`controllers/admin/booking.admin.controller.js`) | the booking's | cancel, assign, reassign, progress, critical cancel | unguarded writes beside the handlers above | as the life cycle | `BookingAdmin` |
| Driver search and offers (`workers/jobs/driver/driverassignworker.js`, `helpers/user/driverAssignHelper.js`, `helpers/cache/driverOfferCache.js`) | Redis offer, driver lock, candidates; jobs | search, offer next, timeout, accept, reject | read-then-write on Redis keys, delayed jobs, job ids reused, retries, a giving up whose error is swallowed | nobody is asked twice, a booking is not abandoned while drivers remain, a search ends | `DriverDispatch` |
| Payments and refunds (`controllers/payment/paymentController.js`, `helpers/payment/paymentHelper.js`) | `Payment.status`, refunded amount, webhook events | verify, webhook, refund, retry | redelivery, reordering, two paths to one capture | what was captured is served or refunded, once | `BookingPayments`, `PaymentPromise` |
| Driver presence (`models/Driver.js` hooks, `services/driverSync.js`, `cronJobs.js`, `src/socket`) | MongoDB's flags, the Redis index and a hash per driver | online, offline, position, accept, release, block, claims and releases by administrators, nightly job, restart, search | the index is written by hooks, handlers and jobs in any order, from documents read at different times; errors of Redis are swallowed, transactions aborted after their hooks have run | a listed driver is free, a free driver is listed | `Presence` |
| Store network (`controllers/admin/storeOwner.admin.controller.js`, `store.admin.controller.js`, `store_owner`, `store`) | owners' and stores' accounts, online switch | create, activate, deactivate alone and in bulk, open, close, give up | counts read before writes, writes in a row without a transaction | an owner out of service has no store in service | `StoreNetwork` |
| Accounts, OTP, sessions (`controllers/*/auth.*`, `middleware/auth*`) | account, code with its failures, refresh tokens, cached profile | ask for a code, sign in at four portals, refresh, log out, suspend | a sign-in under way during a suspension, a profile cached late | a suspension takes hold and stays | `Accounts` |
| Pricing (`services/pricingService.js`, `utils/money.js`, `utils/tax.js`, `pricing.admin`, `serviceable.admin`) | areas, rules, a booking's snapshot, order and bill | create, replace, edit, delete rules and areas; quote, book, bill | two writes replace a rule; rounding; the bill is made weeks later | a return finds a rule for its bill, the agreed terms, no shorter stay is dearer | `Pricing` |
| Support (`controllers/common/support.controller.js`, `support.admin`) | tickets, cached tickets, a booking's critical flag | open, write, hand over, assign, close, cancel a ride | saves of requests that overlap, a count before a creation | limits, no lost reply, no lost wish to give a ride up | `SupportDesk` |
| Views of a booking (`constants/redis`, all listing controllers) | keys in Redis | read through, drop | which views a handler drops depends on what it read, and when | who asks after a change sees it | `BookingViews` |
| Addresses (`controllers/user/user.user.controller.js`, `user.admin`) | a user's list of addresses, his location | add, update, delete, move | whole lists and positions written without a version; the lookup of the area may fail | nothing lost, one default, the location follows it | `AddressBook` |
| Fund distribution, reviews, invoices, uploads, rate limits, notifications, routes | see section 5 | | | | |

Interactions: user, driver and store endpoints, webhooks and jobs all read and
write the same booking document. A payment's webhook (or the client's verify
call) triggers the store assignment, which queues a driver search; the search
offers through Redis and sockets; accepting writes the booking and then the
driver; cancelling writes the booking and the store in a transaction and then
releases the driver. Nothing locks a booking across two awaits.

## 2. Modules

| Module | Models | Composes with |
|---|---|---|
| `BookingTerms` | the drivers, stores and handlers of both models of a booking, and the sets of statuses both name | |
| `BookingCore` | bookings, stores, drivers, offers and accepts (each read, then written), the auto-cancel job, the handlers that read, await and write | extends `BookingTerms` |
| `BookingAdmin` | the administrators' requests on bookings | extends `BookingCore`: its next-state relation is the core's and theirs |
| `Booking_proofs` | the theorems of both: types, drivers, stores, statuses; and those of `BookingViews` | extends `BookingAdmin` and `BookingViews` |
| `PaymentPromise` | what the handling of payments promises: an abstract specification | |
| `BookingPayments` | one booking's orders, payment documents, verify calls, webhooks, retries and refund | implements `PaymentPromise` (`INSTANCE ... WITH`) |
| `BookingPayments_proofs` | its theorems, the implementation among them | extends `BookingPayments` |
| `DriverDispatch` | the search of one leg: its jobs, Redis keys and requests, await by await; `BookingCore`'s `LookAtDriver`, `WriteOffer` and `OfferEnds` are the booking's view of it | |
| `DriverDispatch_proofs` | its theorems | extends `DriverDispatch` |
| `Presence` | MongoDB's flags of the drivers against the Redis index that the search reads | |
| `Presence_proofs` | its theorems | extends `Presence` |
| `StoreNetwork` | owners, stores and what deactivates them, beside the bookings they hold | |
| `StoreNetwork_proofs` | its theorems | extends `StoreNetwork` |
| `Accounts` | one phone number at one of four portals, and the administrators | |
| `Accounts_proofs` | its theorems, and those of `AddressBook` | extends `Accounts` and `AddressBook` |
| `Pricing` | areas, rules, and the terms and sums of a booking | |
| `Pricing_proofs` | its theorems, and the arithmetic they rest on | extends `Pricing` |
| `SupportDesk` | tickets, their cached copy, the wish to give up a ride | |
| `SupportDesk_proofs` | its theorems | extends `SupportDesk` |
| `BookingViews` | the cached views of a booking | extends `BookingTerms` |
| `AddressBook` | a user's addresses and location | |
| `MC...` | a small instance of each for TLC | extends it |

Conventions. A MongoDB transaction, a guarded `findOneAndUpdate`, a Redis command is
one action; what a handler goes on to do after an await is kept in `handler[h]`
(`desk`, `request`, `jobs`), with what it has read. Variables that only remember what
happened, so that a property can say when it holds, are marked as history. Every
module of the system's parts defines its type invariant `TypeOK` (`AdminTypeOK`,
`ViewsTypeOK` and `AddressTypeOK` where it shares a proof module), and each is a
theorem: `TypeCorrect` or, for `BookingViews` and `AddressBook`, part of
`ViewsInvariant` and `AddressInvariant`; for `BookingPayments` a run checks it as
well.

### BookingCore

`status`, `storeOf`, `pickupDriver`, `deliveryDriver` and `codes` are fields of the
booking; `count` is a store's `current_booking_count`; `onTrip` a driver's flag;
`offer` the offer in Redis, which also locks its driver; `armed` the bookings whose
auto-cancel job is queued. `stale` and `crashes` are history: bookings on which a
write by id landed on a status its handler had not read, or on a leg with another
driver than the one it had read, and process crashes. `swallowed` are the bookings whose
auto-cancel job has run and ended in an error of `autoCancelBooking`, which catches
everything: no transaction, no second attempt. And `crossed`: bookings a
driver was offered, given or taken off upon a reading of his flag, lock, offer or
leg that was not true any more, or while an accept of his had yet to set his flag.

What a handler reads (`BeginRideStep`, `RequestReturn`, `ExpiryJob`,
`PickupSearchFailed` ...) and what it writes later (`TerminalGuard` then
`WriteRideStep` for the schema hook and the update by id, `SaveReturn`,
`CancelDecided` ...) are actions of their own. A search job reads the driver's flag
and lock (`LookAtDriver`) and writes the offer whatever they are by then
(`WriteOffer`); both accept endpoints read the offer (`ReadOffer`) and update the
booking, be it still there or not (`AcceptRide` and then `ClaimDriver`,
`AcceptBookingOffer`, or `AcceptFails`). A save by Mongoose raises the document's
version (`optimisticConcurrency`), so that handlers which read before and save later
fail: `HandlersAfterSave`. An update by id does not. `SchedulePickup` and `ArmExpiry`
are two, because the job is queued after the commit and not awaited. `Crash` ends the
step under way of any handler. `CancelDecided` is the end of every handler that
decided to cancel by the helper, and it has two: the booking is over, or nothing has
changed and nobody is told.

### BookingAdmin

Each request of an administrator is one transaction, after which the drivers it
took off are released one by one (`Free`); a critical cancellation has no
transaction and is a read (`DecideCritical`), the hook's read (`CriticalGuard`) and an
update by id (`ForceCritical`). A driver who is claimed with an offer open or an accept
under way, and one who is taken off a booking he is not on, is noted in `crossed`.

### BookingPayments

`doc` are the Payment documents, one per gateway order; `charge` is what the gateway
knows of an order; `sent` and `acked` are the events it has to tell and those answered
with 200; `log` the WebhookEvent documents; `begun`, `searched` and `asked` record
services begun, driver searches queued and refunds asked for. A webhook is
received (`Receive`), logs its event (`Record`), updates the payment (`ApplyCaptured`,
`ApplyFailed`, `ApplyRefunded`), goes on to assign or cancel, and answers (`Finish`).
`Verify` is the checkout's callback. `AssignStore` and `AssignDriver` begin a service,
`QueueSearch` follows the commit. `RetryPayment`, `Supersede`, `Reopen` are the awaits of a
retry, `RequestReturn` and `Bill` those of a return, and a refund is read, asked for
and saved. `Throw` is an error or a crash in any of them. The gateway is external:
it takes a payment for an open order once, tells each event until it is
answered, in any order, and sometimes once more. Amounts are whole orders,
because the code never asks for a part back.

### DriverDispatch

The booking's leg, the Redis keys of the booking (`offer`, `candidates`, `tried`,
`searching`) and of the driver (`lock`, `onTrip`), and the jobs of the queue with
their ids, attempts and next step. An offer job pops a candidate, checks him, writes
the offer, arms the timeout job: four awaits. Keys expire at any moment of their own.
Failed jobs are kept, and a new job with a kept id is ignored: `KeptOf` are the ids of
a booking that failed jobs still hold. `NeverForgotten` has to speak of them, because
offers are numbered from one in every search of a booking. A job that gives up
(`FailSearch`, `CancelPickup`) does so in a step of its own, which may fail unseen
(`GivingUpFails`): the job is done, the leg waits on, and it is noted in `lost`.
Requests of drivers come over the booking and the ride endpoints, of which the second
leaves the timeout job of a rejected offer behind.

### Presence

A driver's document (`db`), his sets of positions (`geo`) and his hash (`meta`). A
request is a plan: steps that may come in either order where the code starts
writes together, and what document a hook was handed (`full` or a projection).
The search looks at the sets, verifies in MongoDB, and leaves candidates whom the
offer looks up again by their hash only. A hook runs inside its transaction, which
may be aborted after it (`Aborts`); an administrator who takes a driver off his trip
(`AdminTakesOff`, `Relieves`) hands the hook the document from before the update.
Errors of Redis are caught and logged in every helper, so that a step may leave the
index as it was (`RedisFails`).

### StoreNetwork

An owner's and a store's account, the online switches, the bookings that come and go,
from the assignment of the store to the delivery, the driver's critical cancellation
and what administrators push. `StoreBlocking` are the statuses a deactivation counts,
`AtStores` all those of a booking that a store still has to do with: the second set is
larger. Listing an owner's stores, counting their luggage, writing the stores and
writing the owner are apart; bulk requests write document after document.

### Accounts

One phone number. The portal is a choice of the initial state (`role`), because
the four portals run the same steps in different orders with different guards.
`key` holds the one-time code, its failures and the marker of a new number. How
often a code may be asked for is a request that ends early.

### Pricing, SupportDesk, BookingViews, AddressBook

`Pricing` computes in paise, hundredths of a kilometre and half hours, so that each
rounding of the code is there; `ReturnQuote` takes the booking's snapshot less the
fields its schema drops, and `RuleFound` is the rule it asks for first, by the id the
booking keeps, in force or not. A rule may be moved to another area. `SupportDesk`
keeps of a message its author and of a ticket what decides: status, kind of chat,
agent. `BookingViews` keeps of the booking its status, drivers and store, and for
every handler the views it drops, before or after its write and by which document it
read. Some drop none: an acceptance over `/driver/bookings/:id/accept` or the socket
(`BookingAccepted`), and an administrator's search for a booking with no driver on it;
what was cached by then is in `missed`. Its writers are the handlers of `BookingCore`
seen from the cache, and carry their names in the passive (`RideAccepted` for
`AcceptRide`). `AddressBook` writes lists by position as Mongoose does. Areas are
edited by administrators at any time and their lookup may fail, so that it answers
with any area or none; `lookedUp` remembers which place it was asked about.

## 3. What the runs check

| Run | Instance | Shows |
|---|---|---|
| `core_lifecycle` | 1 booking, 1 driver, 2 handlers, 1 crash, stale writes, fair | `StatusMovesFollowTable`: only a stale write leaves the table, with a crash at any step; `StoreHandoverUnreachable`; `PendingResolved`: a queued auto-cancel job ends the wait, unless its cancellation failed unseen |
| `badmin` | 2 bookings, 1 driver, 2 stores of 1 slot, 2 handlers, 1 administrator's request | `OneTripPerDriver`, `OfferedDriverIsFree`; `HoldsCounted`: the store's count never falls below what it holds; `NeverOverbooked`; for the core and the administrators together |
| `pay_promise` | 2 orders, 2 requests, 1 fault, events without identity | `TypeOK`; `DocumentsAreBacked`; `PromiseKept`: `BookingPayments` implements `PaymentPromise` |
| `pay_served` | 2 orders, 2 requests, fair | `PaidIsServed`: what is paid and due gets its search, or the booking ends |
| `dispatch_chain` | 1 leg, 2 drivers, 1 mishap, fair | `OneChain`, `AskedOnce`, `GivenUpOnlyExhausted`; `NeverForgotten`, `SearchEnds`: a leg keeps a job and the search ends, unless a giving up failed unseen |
| `presence` | 1 driver, 2 requests, 5 acts, 1 restart, error of Redis or expiry | `ListedAreFree`, `FreeAreListed`, `OfferedAreFree`, but for the ways each names |
| `stores_network` | 1 owner, 1 store with a count of at most 2, 1 booking, 2 requests, 1 break-off, fair | `OwnerDownStoresDown`; `StrandsOnlyLateArrivals`, of the statuses a deactivation counts; `DeactivationCompletes` |
| `accounts` | 1 number, 4 portals, 2 requests, 2 tokens, fair | `AttemptsLimited`, `SuspendedGetsNoSession`, `SuspensionHolds`, `SuspensionTakesHold` |
| `pricing` | 2 areas, 2 rules, 1 booking, 2 administrators, 2 edits | `ReturnNotRefused`: whoever has booked finds a rule for his bill, although replacing one leaves its area with none; `BookedTermsHold`, `LongerNeverCheaper` |
| `support` | 1 customer, 1 driver, 2 tickets, 2 requests, 3 acts, 1 crash, fair | `OpenLimitHolds`, `ReadsOwnMessages`, `ClosedStaysClosed`, `CancelIsFlagged` |
| `views` | 1 booking, 2 drivers, 2 stores, 2 requests, 1 read, 1 administrator's request, 1 loss | `CustomerSeesPresent`, `StoresSeePresent`, `DriversSeePresent`, of every view that no write left as it was and no read cached across one |
| `address` | 3 addresses, 2 places, 1 area or none, at most 2 addresses, 2 requests, 4 in all | `OneDefault`, `NothingLost`, `LocationFollows` |

Deadlock is not checked: a system whose bookings are all over, or whose bounded
requests have all been made, may stop.

### Bounds, switches, constraints

- Two handlers (or requests) everywhere, and two of each thing that is competed for:
  every hazard listed is a race of two actors over one document, slot or driver.
  `badmin` has one driver, for whom two bookings compete; two drivers on one booking,
  with every offer and accept read and then written, are left to the proofs. All
  invariants and action properties of the runs are proved for every number of actors,
  documents, keys, faults and requests (section 4), so that the bounds matter to the
  liveness properties alone.
- `MaxCrash`, `MaxFaults`, `MaxMishap`, `MaxLoss`, `MaxRestart` bound crashes, errors and
  surplus deliveries at 1: after one, the system is again in a state the others
  start from. `MaxOrders` is 2: a retry, a return and a late payment of the old order
  are all there. `MaxRestart` also bounds errors of Redis and expiries of a hash. A
  giving up that fails unseen is one of `MaxMishap`; a cancellation that does, in
  `BookingCore`, has no bound.
- `MaxCount` is 2 in `stores_network`, and bounds how far luggage that is stored raises
  a count: its booking is counted when the store is assigned and once more here, and is
  counted out once, so that counts would grow from one booking to the next.
- `MaxActs`, `MaxRequests`, `MaxReads`, `MaxSearch` and the tickets bound how much is
  asked of the system. `MaxReads` is 1 because cached views never meet: what is wrong
  with one is wrong without the others. `MaxActs` is 5 in `presence`: coming online,
  an accept, its end and two of anything else. Pricing's values are chosen around its
  edges: 46, 48 and 49 half hours around the daily cap, an hourly rate that does not
  divide, the hour at which the peak begins.
- `OneTripPerDriver` and `OfferedDriverIsFree` are claimed as long as nothing was
  `crossed`. The history is needed: two searches may lock one driver, since the lock is
  read and then written; an accept may follow an offer that has gone to another
  driver; a driver may be offered a ride between the two writes of his accept, since
  his flag is in the second; an administrator's claim ignores open offers, and his
  cancellation releases drivers who are by then on another trip. Each of
  these breaks one of the two. What they say is that nothing else does: not a
  cancellation, an expiry, a release, a reassignment, in any order.
- `LateCancel` lets the report of a failed payment attempt, or of a search out of
  retries, arrive after the booking has moved on.
- `missed` (views), `astray` and `lost` (drivers), `lost` (legs) and `swallowed` are
  of the same kind: histories that name the ways the code leaves a copy wrong or a
  job's work undone, each set by the steps it names alone.
- `HasEventId` says whether deliveries carry an identity the code reads; without one
  every delivery is handled anew. `pay_promise` takes the harder value.
- The constraint `TwoAtWork` restricts `badmin` to undisturbed states (no stale write,
  nothing crossed, no crash), which its properties are about: they have the same
  hypothesis, or a weaker one. It also keeps at most one auto-cancel job in the
  queue, as a job that has not run touches nothing and the other booking's may still
  be unqueued, and at most two of the two handlers and the administrator between two
  of their steps; the theorems have neither bound. Its view `SeenBySteps` leaves out
  `swallowed`, which no step and no property of that run reads.
- Symmetry is used in runs of invariants, and of action properties that no
  permutation changes, never with fairness.

### Fairness

Handlers' next steps are weakly fair wherever liveness is checked, except in
`accounts`, whose property needs no request to go on: an await ends.
Beyond that, `core_lifecycle` assumes each queued auto-cancel job delivered (BullMQ
delivers until done, also after a crash); `pay_served` strong fairness of the
delivery of each captured event, which the gateway repeats until it is answered
(strong, because the bound on requests at once is the model's alone);
`dispatch_chain` that queued jobs run and that a driver's request goes on;
`accounts` only that sessions and cached profiles reach their time to live. Nothing is
assumed of users, drivers, administrators or the checkout's callback.

### What the models tell about the code

Each property names the cases it does not hold in; these, and what was met on the
way, are behaviours of the code worth knowing.

- Bookings. The pre-update hook (`models/Booking.js:268`) reads the status by itself
  and the update filters by id: a booking cancelled in between is revived. The
  auto-cancel job cancels a booking a driver has accepted since it looked, and
  `autoCancelBooking` frees no driver. It also catches every error
  (`bookingHelper.js:406`), a write conflict among them; the worker completes the job
  (`autoCancelWorker.js:44`), nothing queues another, and the booking stays
  `payment_pending`. A crash between the booking's commit and the
  queueing of its job leaves it unpaid for ever. Confirming storage counts a
  booking again, and nothing on the way to delivery counts it out:
  `verifyReturnOtp` asks for a code that is only set later. Two requests of one user
  may both pass the limit of active bookings.
- Administrators. Releasing a store's capacity lowers a field the schema does not
  have, so a cancelled or moved booking keeps its slot. `driver_cancelled_critical`
  is terminal, and the hook keeps luggage in that state from being recovered. No
  cancellation by an administrator refunds. A delivery is written by id after
  its driver was read (`driverRideHelper.js:885` and `:910`): when an administrator
  gives the leg to another in between, who brings it to the same status, the first
  driver completes it and is then freed, although he may be on another booking by
  then. The proof of `OneTripPerDriver` found that: it takes three bookings and two
  drivers, more than the run has. Such a write counts as stale.
- Payments. A paid booking cancelled by its user, a job or a failed attempt keeps
  its money. The automatic refund and its webhook both add the amount. A webhook
  whose assignment failed answers 500, and its redelivery finds the payment
  captured and assigns nothing.
- Dispatch. The driver's lock is read, then written without a condition: two
  bookings may offer to one driver. A rejection over the ride endpoint leaves its
  timeout job in the queue, which may give the next driver's offer up. A worker
  that dies leaves the search's lock, and the redelivered job does nothing. Offer
  jobs are named `offer-<booking>-<attempt>` (`driverAssignHelper.js:463`) and failed jobs
  are kept: the first offer of a later search of the same booking may have the id
  of one that failed in an earlier search, is then never queued, and the search
  stands still. The proof of `NeverForgotten` found that: it takes two searches, and the
  run has one. Giving a pickup up goes through `autoCancelBooking`, whose result
  `driverassignworker.js` looks at nowhere (`:165`, `:236`, `:340`, the listener at
  `:101`): if it fails, the leg waits without a job and the user is told nothing.
- Presence. Going offline over the socket lets the hook list the driver again, from
  the document before the update. A position sent over HTTP during a trip remakes
  the hash as free. Updates that hand a hook a projection (status and duty set by an
  administrator, push token, sign-in) take an online driver off the index. So does
  an administrator who takes a driver off his trip: the release at
  `booking.admin.controller.js:470` and `:518` hands the hook the document from before
  it, on a trip still, and nothing lists him again before his next update. A bulk
  deactivation runs no hook. The search's look at MongoDB limits the damage.
- Stores. A store opened by an earlier read may be online when its account no
  longer is active. A bulk deactivation may break off with the stores down and
  the owner active, never the other way round. `STORE_BLOCKING_STATUSES` lacks luggage
  at the counter (`at_store`), luggage whose return is being paid, and luggage on its
  way back: a deactivation counts none of it.
- Accounts. A sign-in that read the account before it was blocked writes it active.
  The job that deletes unverified accounts filters on a value no document has.
- Pricing. Every creation of a rule fails validation (`returnFeeBreakdown.platformFee`
  is required, never supplied), so that replacing a rule leaves an area with none.
  Returns under the retired rule are still billed, by its id; new bookings are not made.
  The stored snapshot lacks the rate per kilometre, so the delivery fee of a
  return is always 0, whatever the comment at `pricingService.js:238` says. Coupons
  and tips do not change the order. `calculatePriceEstimate` calls a function that
  does not exist.
- Support. A bot chat opened without escalation throws after the ticket was
  created. A ticket that waits for an answer is not found as active, and a second
  is created for the same booking. An administrator's reply opens a resolved
  ticket and drops no cached copy of the requester.
- Views. Of the three ways to accept a ride, only `acceptRideController` drops views:
  after `acceptBookingOffer` or the socket's accept the customer, the store and the
  driver himself are shown the booking without him until their copies expire.
  `reassignStore` drops the old store's views twice and the new one's never. A
  driver's history is cached under a key the drop's pattern does not match. A driver's
  list and ride are not dropped by what customers, jobs or administrators do.
  `invalidateBookingCache` of the helper is called with the core's arguments.
- Addresses. Deleting writes back the whole list as it was read, without a version:
  a concurrent addition is lost. Updating writes by position, which may be another
  address by then. `updateLocation` moves the user whichever address it moved.
  `checkServiceability` answers an error with no area, and the location is written with it;
  areas that administrators edit, switch off or delete leave their users as they are.

## 4. What is proved

All theorems hold for every value of the constants, under the assumptions the
modules name, which TLC evaluates in their runs: identities are distinct from `None`
and of distinct kinds (`NoneIsNobody`, `NetworkAssumption`, `DeskAssumption`,
`PresenceAssumption` ...); bounds, capacities and rates are natural numbers, the limit
of attempts is not 0; `Handlers` and `Tickets` are finite where a limit counts them
(`LimitsAssumption`, `DeskAssumption`); and a peak multiplier is at least 1.0
(`PricingAssumption`), which the schema of a rule asks for (`min: 1.0` in
`models/PricingRule.js`, and updates run its validators).

No property here is inductive as it stands. Each is true because of what requests
under way have read and will not read again, so each invariant says first what
that is, and the proof has one lemma per kind of step (a request begins, goes on,
ends, breaks off) before it goes through the actions. The invariants were checked
by TLC before they were proved.

`Booking_proofs`, about `BookingCore`:

- `TypeCorrect`: `TypeOK` is invariant.
- `DriverInvariant`, without a premise: the inductive invariant `DriverInv`. As long as
  nothing was disturbed, every handler that will write has read right (`SawRight`),
  no driver is in a booking before his leg (`NoEarlyPickupDriver`,
  `NoEarlyDeliveryDriver`), and each driver's legs, flag, offers, claims and releases fit
  together (`MarketInv`).
  The step that breaks `OneTripPerDriver` is an accept, and why that step is impossible
  is told by the flag, the lock and the pending claims. `OneTrip` and `OfferedFree`:
  `OneTripPerDriver` and `OfferedDriverIsFree` follow.
- `SlotInvariant`, with any number of crashes:
  the inductive invariant `SlotInv`. As long as no stale write landed, each store's
  live bookings are finite in number and bounded by its counter and by its capacity
  (`SlotsCounted`), a booking has no store before it is paid (`NoEarlyStore`), and a
  handler that writes by id had read a live booking (`SawLive`). A cancellation also
  lowers the counter for luggage that has left the store, so the invariant counts
  those bookings too (`Live`). `CounterCovers` and `Overbooking`: `HoldsCounted` and
  `NeverOverbooked` follow.
- `HandoverUnreachable`: `StoreHandoverUnreachable`, stale writes included. By `UserCodeInv`
  a booking carries the code of the user's door only while it has a delivery driver,
  and taking a new one needs the old one and his codes gone.
- `MovesFollowTable`: `StatusMovesFollowTable`, from the inductive invariant
  `TableInv`: what a handler read before each write by id (`SawBefore`), and that only
  an arrival at the door issues the code a delivery asks for (`CodeAtDoor`), without
  which a delivery could skip a row of the table. Both are claimed of bookings no
  stale write has hit.

... and about `BookingAdmin`:

- `AdminTypeCorrect`: `AdminTypeOK` is invariant.
- `AdminInvariant`, without a premise: the inductive invariant `AdminInv` adds to
  `DriverInv` that a driver whom a desk is about to release is between trips
  (`FreedAreBetween`): on no leg, still marked or about to be, and released by no
  handler; that one desk releases him (`OneFrees`); and that a critical cancellation
  is about the leg its booking was read on (`DeskRight`). There are three kinds of
  administrator's steps, with a lemma each: drivers leave their legs and wait for a
  desk (`TakenOffStep`), a leg passes from one driver to another in one transaction
  (`PassesStep`), a desk releases a driver (`FreeStep`). The core's steps are
  `DriverStep`, which is stated for any set of drivers between trips and keeps them
  there. `AdminOneTrip` and `AdminOfferedFree`: `OneTripPerDriver` and
  `OfferedDriverIsFree` follow.
- `AdminSlotInvariant`, without a premise: `SlotInv` is kept by administrators, too. A
  booking moved to another store takes a place there (`ReassignStep`); one that gets a
  driver by hand before it is paid has no store. `AdminCounterCovers` and
  `AdminOverbooking`: `HoldsCounted` and `NeverOverbooked` follow.

`StoreHandoverUnreachable` and `StatusMovesFollowTable` are of `BookingCore` alone: an
assignment by hand leaves the codes of the driver before, and goes from any status
to that of an assigned driver, which the table does not have.

... and about `BookingViews`, whose variables and specification are its own, for any number
of drivers, stores, readers, writers and lost drops:

- `ViewsInvariant`: the inductive invariant `ViewsTypeOK /\ ViewsInv`. A handler that
  has yet to look up whom the booking names excuses every view in the properties, but
  it drops only those it will find, so the invariant counts only these (`Due`), and a
  writer must not take anybody off the booking while another has yet to look: that is
  what dropping the driver by name is for. A write that drops nothing puts what is
  cached into `missed`, which excuses it until it is dropped or expires. `KeptShown`
  and `LastShown` say it of the views somebody drops. A reader nobody wrote past has
  read what is there (`ReadIsFresh`); the views of one booking are not cached empty
  (`NoBlank`), which is why scheduling need not drop the detail, and assigning the
  return's driver need not drop the pickup's driver's; before it is paid a booking has
  no store and nobody has yet to look (`Unpaid`); and it has a delivery driver only
  once the return has begun (`NoEarlyDelivery`). There is one lemma per kind of write:
  by the helper (`LookingStep`), by an administrator who names everybody
  (`OrderedStep`), and one each for the four handlers with a list of their own.
- `CustomerView`, `StoresView` and `DriversView`: `CustomerSeesPresent`, `StoresSeePresent`
  and `DriversSeePresent` follow.

`BookingPayments_proofs`:

- `PaymentInvariant`: the inductive invariant `TypeOK /\ PaymentInv`. Orders not yet
  open have no document (`OrdersOpened`); a retry holds an order of its own
  (`OrdersPromised`); events and requests after a capture speak of paid orders
  (`CapturesArePaid`); documents claim no more than the gateway did
  (`DocumentsAreBacked`); a service is begun only at its status, and a refund is
  under way only for a booking cancelled before any service (`ServiceOrder`,
  `RefundOnce`). The types need the invariant: a search is queued for the type of a
  payment, which exists because the order was paid.
- `TypeCorrect` and `Backed`: the two invariants of `pay_promise` follow.
- `PromiseIsKept`: `Spec => PromiseKept`. `taken` maps to the orders the gateway was paid
  for, with the type of their documents; a checkout is `Take`, the transaction that
  begins a service is `BeginService`, the call of the gateway is `GiveBack`, and every
  other step changes none of the three (`Silent`). It needs no assumption on
  delivery: verify calls, webhooks, duplicates and retries meet at the
  transactional check of the booking's status, and that check is what the proof
  rests on.

`DriverDispatch_proofs`, for any number of legs, drivers, searches and mishaps:

- `DispatchInvariant`: the inductive invariant `DispatchInv`, in parts that build on
  each other. `ChainInv`: job ids are unique and searches numbered (`UniqueIds`,
  `SearchNumbers`), nobody has heard of a leg before its first search finds drivers
  (`FirstSearch`), and a leg once taken never waits again (`TakenIsFinal`). `WaitInv`:
  a search job in the queue finds its lock free (`SearchLock`), a job that failed for
  good ended the first search (`KeptJobs`), and the timeout of an offer finds that
  offer or none (`OfferOfChain`); the last job of a search ends it by giving up, or by
  a giving up that failed and is in `lost` (`Dropped`). `AskInv`: whoever was asked,
  or is about to be, is no candidate, and no two jobs are about to ask the same driver
  (`Fairly`); while nothing fails, an offer stands only as long as a job expects it,
  and a search that ends has no candidate left (`Orderly`).
- `SearchIsOneChain` (`OneChain`), `WaitingLegIsKept` (`NeverForgotten`), `NobodyAskedTwice`
  (`AskedOnce`) and `GivenUpWhenExhausted` (`GivenUpOnlyExhausted`) follow.

`Presence_proofs`, for any number of drivers, requests at once, searches and restarts:

- `PresenceInvariant`: the inductive invariant `PresenceInv`. What the properties say
  of drivers nobody is at work on (`Rests`) is kept because of what each request is
  still good for, given what it has read and which steps it has left (`Underway`): one
  that is about to place a driver has seen him online (`Knows`); one that will list
  him by the document it read has read the one MongoDB has, or will save what makes it
  so (`Mends`, `Shows`), and one whose transaction may yet be aborted has left a true
  hash (`Bound`). A driver two are at work on may be left in any state: he is in
  `astray` and `lost` from the moment they meet (`Met`). In the night everybody else
  is offline or found by the job (`Nights`); a search takes off only whom it read as
  not free (`Searches`); the server's start lists those who were free and are
  (`Boots`).
- `ListedDriversAreFree` (`ListedAreFree`), `FreeDriversAreListed` (`FreeAreListed`) and
  `OfferedDriversAreFree` (`OfferedAreFree`) follow.

`StoreNetwork_proofs`, for every set of owners, stores, bookings and requests:

- `NetworkInvariant`: the inductive invariant `NetworkInv`. For the stores of a deactivated
  owner (`DownInv`): two requests about one owner have disturbed him (`Alone`), one that
  will put a store into service was let in while its owner was up (`OwnerUp`), and one
  that takes an owner down has taken down every store it passed (`TakenDown`). For
  luggage: what a request has counted or heard of in the statuses the code counts
  (`Seen`); and, for a store its owner gives up, that its count covers all that
  it still has to do with (`Owes`), through every status of the way (`Travelled`).
- `StoresGoWithTheirOwner` (`OwnerDownStoresDown`) and `OnlyLateArrivalsStranded`
  (`StrandsOnlyLateArrivals`) follow.

`Accounts_proofs`, for any number of requests, tokens and attempts:

- `AccountsInvariant`: the inductive invariant `AccountsInv`. The failures and the
  requests let in below the limit, all of which may yet fail, are together fewer than
  the limit and the handlers (`AttemptsInv`); and whoever goes on to act on a suspended
  account read it, or a cached profile, before (`LateInv`).
- `AttemptsStayLimited` (`AttemptsLimited`), `SuspendedGetNoSession`
  (`SuspendedGetsNoSession`) and `SuspensionsHold` (`SuspensionHolds`) follow.

... and about `AddressBook`, whose variables and specification are its own, for any
number of editors, addresses and places and any limit:

- `AddressInvariant`: the inductive invariant `AddressTypeOK /\ AddressInv`.
  OneDefault, NothingLost and LocationFollows need but one thing more, that no address
  is in a list twice (`Distinct`), and that holds even of a list that was raced: a
  write by position brings no address and takes none away, only places without one
  (`PositionalKeepsIds`), and what a delete writes back was a list once. To the list
  that was read, a write by position does what the request meant (`PositionalSame`);
  `updateLocation` adds no mark, whatever list it writes to (`PositionalKeepsMarks`),
  which is why the first part of `OneDefault` need not exclude it. What the lookup of
  an area answers is nowhere assumed: only which place it was asked about.
- `DefaultAddress`, `AddressesKept` and `LocationKept`: the three properties follow.

`SupportDesk_proofs`, for any number of requesters, tickets, requests and crashes:

- `DeskInvariant`: the inductive invariant `DeskInv`. The limit is checked two awaits
  before the save, so a request that counted still has room for one ticket as long
  as no other of the same requester has begun (`Room`, `Alone`); one that read a
  ticket for the cache still knows its messages (`Reads`); one that will write to a
  ticket found it open (`Writes`); and a cached copy lacks no message but one whose
  request is about to drop it (`CacheInv`).
- `LimitOfOpenTickets` (`OpenLimitHolds`), `MessagesAreRead` (`ReadsOwnMessages`) and
  `TicketsStayClosed` (`ClosedStaysClosed`) follow.

`Pricing_proofs`, for all rates, caps, multipliers and times:

- The arithmetic first: the charge for storage reads none of the fields that the
  booking's schema drops (`FeeIs`, `FeeOfKept`), and grows with the hours, across the
  daily cap and the roundings, unless the peak ends in between (`FeeGrows`).
- `PricingInvariant`: the inductive invariant `PricingInv`: the rule of each booking is
  there, in force or retired, in whatever area, unless it was deleted (`Ruled`); each
  bill is the charge, by the kept snapshot, for the hours it names (`Billed`).
- `ReturnFindsRule` (`ReturnNotRefused`), `TermsHold` (`BookedTermsHold`) and
  `LongerCostsNoLess` (`LongerNeverCheaper`) follow.

Only model-checked: the liveness properties (`PendingResolved`, `PaidIsServed`,
`SearchEnds`, `DeactivationCompletes`, `SuspensionTakesHold`, `CancelIsFlagged`),
which with everything else about fairness and `ENABLED` are out of the prover's reach.
Nothing here needs induction over data.

## 5. What is not modelled

- Fund distribution (`services/fundDistributionService.js`): every function that
  touches a booking throws at its first use of `Booking`, whose import is commented
  out; the callers log the error and go on. No state ever changes.
- The limit of active bookings per user: bookings are of distinct users in
  `BookingCore`.
- Invoices, reviews, team requests, uploads: single writes or the layout of
  documents, which no other request decides on. Lists and dashboards only as the
  cached views of `BookingViews`.
- Rate limits: fixed windows of a library. Notifications, emails, socket rooms:
  output only. Routes, validation, API documents: wiring, taken into account by
  which handlers the models have.
- Workers nobody queues (payment follow-up, support) or that do nothing
  (cancellation), `helpers/pricing/pricingHelper.js` and other code without a caller.
- The stores' own geo-index, which nothing reads; distances and the order of
  candidates; the text of messages and addresses; photographs; administrators'
  own accounts; refunds made by hand at the gateway.
