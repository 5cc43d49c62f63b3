# GhaarFix backend: a TLA+ verification project

The repository is the backend of a home-services marketplace: customers book
providers for a slot, or ask for help at once; providers accept, come, serve and
are paid. It is an Express server over MongoDB, with Redis, BullMQ and socket.io
where they are configured. MongoDB is used without transactions, so whatever one
handler reads may be stale when it writes, and every `await` is a point where any
other handler, job, or server instance may run.

This project models the parts of the server where that matters most, checks them
with TLC, and proves the central invariants with TLAPS.

## 1. Inventory

Paths are below `src/src/modules/` unless they begin with `src/`.

| Part | State it keeps | Operations | What is hard |
|---|---|---|---|
| Slot reservations (`provider-availability/reservation.service.ts`) | `SlotReservation` documents (HELD, CONSUMED, RELEASED, EXPIRED), a Redis key per held start time | hold, consume, release, read; TTL removal | check-then-insert, stale saves, retries of the booking call, expiry in the middle |
| Scheduled bookings (`bookings/`) | `Booking` document: status, provider, request, response window, two service codes; `RescheduleRequest` | create, accept, reject, cancel, wait, find another provider, reschedule, the four steps of the visit, the expiry job | claims by compare-and-set mixed with blind `save()`, crashes between the two, two actors at once |
| Provider confirmation (`bookings/provider-confirmation.service.ts`) | `providerConfirmation` of a coming visit | confirm, remind, notice a miss, assign a backup | a job that saves what it loaded, against the provider and the customer |
| Urgent requests (`urgent/urgent*.service.ts`) | `UrgentRequest`, `UrgentDispatchTarget` per invited provider, the booking | create, accept, reject, look, cancel, expire, convert, dispatch again | many providers accept at once, a search that ends while it is won, redispatch |
| Urgent search (`urgent/urgent-wave.service.ts`) | in-memory sessions and timers, targets | ring the next batch, batch timeout, advance, recover after a restart | timers against rejections, restarts, no batch left behind |
| Care-plan entitlements (`care-plans/entitlement.service.ts`) | counters used and reserved, one usage per booking | reserve, consume, release, sweep, correct, suspend, expire | counter and usage are two documents, compensation, stale corrections |
| Care-plan subscriptions (`care-plans/subscription*.ts`) | subscription, invoice, payment attempt, entitlements | subscribe, pay, activate, pause, resume, cancel, renew | claim and activation are two writes, jobs against customers |
| Payments and settlements (`payments/`, `settlements/`) | payment, booking's payment status, settlement, payout event | order, confirm, cash, webhook, complete, settle | duplicated webhooks, stale documents, completion against payment |
| Marketplace orders and stock (`marketplace/order.service.ts`, `inventory.service.ts`) | stock counters, reservations, orders with their items | order a cart, release, expire, restock | several lines and documents without a transaction |
| Presence, tracking, realtime (`presence/`, `tracking/`, `realtime/`) | heartbeats, locations, rooms | heartbeat, sweep, emit | staleness |
| Queue, cache, Redis (`src/src/infra/`) | delayed jobs | enqueue, cancel, process | the in-memory fallback |

Everything else (users, catalogue, organizations, home health and home help,
reports, support, ...) is listed in `PROJECT.json` with the reason why it is not
modelled; most of it creates, reads and updates single documents.

How the parts interact: `createBookingFromReservation` consumes a slot hold, checks
the slot again, inserts the booking and its payment, reserves the entitlement and
debits reward coins; `acceptBooking` consumes the entitlement and starts the
provider's confirmation; rejections and cancellations release the entitlement;
`respondToReschedule` moves the booking to another slot; a missed confirmation sends
the booking to a backup; COMPLETE_SERVICE and a payment, whichever comes last, try to
create the settlement. `convertUrgentToBooking` makes a booking of a won urgent
request, and a provider's cancellation or a no-show sends that request back into the
search. A subscription generates, suspends and expires the entitlements bookings
spend. Jobs run every 60 seconds in each server (`src/src/jobs/index.ts`).

What would make each part correct: no overlapping bookings of one provider; one
answer per request, nothing served without it and without the customer's code;
a provider's word that counts; one winner per urgent dispatch, who keeps what was
won; a search that goes on; no more benefit given than the plan holds, and none that
nobody paid for; money that is settled as it was confirmed, once; no unit of
stock sold twice. The list `hazards` in `PROJECT.json` says where in the code each of
these could go wrong and which property watches it.

## 2. Modules

| Module | Models |
|---|---|
| `SlotReservation` | holds, Redis keys, bookings made, moved, taken over and put unchecked, for one provider |
| `BookingLifecycle` | one scheduled booking from its insertion to its end |
| `BookingPromise` | the abstract booking: status, provider, who agreed, coins given back, and what each call has yet to land |
| `ProviderConfirmation` | one confirmed booking before its visit |
| `UrgentAssignment` | one urgent request, its targets and its booking |
| `UrgentWaves` | the search for a provider of one urgent request |
| `EntitlementLedger` | one entitlement and the usages of several bookings |
| `CarePlanSubscription` | the subscriptions of one customer to one plan |
| `PaymentSettlement` | the payment of one booking and its settlement |
| `MarketplaceOrder` | orders, reservations and the stock they sell |
| `X_proofs` | the theorems about `X`; `Counters_proofs` those about `EntitlementLedger` and `MarketplaceOrder` |
| `MCX` | symmetry and operation sets of the instances TLC checks |

The modules meet at operations: what one takes in one step, another takes apart.
`BookingLifecycle` spends an entitlement in one step (`ConsumeUsage`), which is
`EntitlementLedger`; its acceptance is the initial state of `ProviderConfirmation`;
`UrgentAssignment` lets anybody be invited (`Invite`, `Lapse`), which is
`UrgentWaves`, where in turn acceptance and cancellation are one step (`Decide`,
`Stop`); `EntitlementLedger` lets the status change at any time, which is
`CarePlanSubscription`.

### How a handler is modelled

The modules share one way to see the code. `req` (in the newer modules `proc`) maps each handler in flight to the
await it is at (`pc`) and to what it has loaded. A step runs from one await to the
next and does what the code does there: a query, a claim, a save. Two kinds of
write exist, and the difference is what most properties are about:

- `findOneAndUpdate` with a filter tests and writes in one step (`Claim...`,
  `ConsumeReservation`, `Increment`, `Spend`);
- `save()` writes the fields this handler has changed and no others, whatever the
  document has become (`Save...`; the operator `Saved` returns the stored value
  when the handler did not change the field).

Where a handler only checks what it has just loaded and goes on without an await,
the check is part of its first step. Loads that precede the deciding one and change
nothing are folded into it. `Fail(p)` ends a handler at any await: its process dies,
or the call throws. Nothing a handler has written is undone.

### SlotReservation

`res` is the collection of reservations, `holdKey` the Redis keys as the time they
expire, `booking` the bookings by the reservation they came from, `now` the clock.
`BeginReserve`, `CheckBlocks`, `CheckHolds`, `AcquireSlotHold`, `InsertReservation`
and `InsertFails` are `createSlotReservation`; `BeginBooking`, `ConsumeReservation`,
`DelConsumed`, `CheckEligible` and `CreateBooking` are `createBookingFromReservation`;
`BeginRelease`, `SaveReleased`, `DelReleased` and `BeginGet`, `SaveExpired` are the
release and the read; `BeginMove`, `MoveBooking` the part of `respondToReschedule`
that takes another slot. `BeginTakeOver` and `TakeOver` are a booking of another
provider that discovery gives to this one: `findAvailableProviderForBooking` checks
the slot, `reassignPendingBookingProvider` or `assignBackupProviderForConfirmedBooking`
saves later. `TtlRemove` is Mongo's TTL monitor, which removes every document whose
`expiresAt` has passed. A slot is a start time, all of the same length, and the
provider's calendar offers them all.

Not every booking is checked. `PutUnchecked` is a booking that becomes the provider's
though nobody looks at the slot:

- the customer names the provider in `findAnotherProviderForBooking`
  (`booking.service.ts:764-774`, saved at `provider-reassignment.service.ts:81-93`);
- `convertUrgentToBooking` (`urgent.service.ts:340`) books whoever accepted, from now
  on;
- `requestRevisit` (`trust-protection/revisit.service.ts:63`) books the provider of
  the first visit for the time 24 hours from now;
- a late save brings a cancelled booking back (`booking-provider.service.ts:473`; see
  `UrgentAssignment`).

The first three book a provider twice without a race, and `NoDoubleBooking` does not
say otherwise. Its claim is about the operations that do check: what they write overlaps
another booking only when that one was written after their check, or was put over them
unchecked afterwards.

The queries of `createSlotReservation` come before its insert and the Redis key is
that of one start time, so two customers who ask for overlapping slots with different
starts both get them, against the comment "Insert reservation only when no overlap
exists" (`reservation.service.ts:50`). `unseen` of a handler remembers what overlapping
its slot was written after its last check, `raced` the pairs of holds and of bookings
that were written in such a race (`holds`, `bookings`) or of which one was put over the
other unchecked (`blind`); the two properties about overlap except those pairs and
nothing else. A booking that moves leaves its pairs behind.

### BookingLifecycle and BookingPromise

`bk` is the booking document; `proposal` its reschedule proposals; `usage`, `coins`
and `refunded` the benefits of its price; `creation` the tail of
`createBookingFromReservation` that runs after the insert; `job` the expiry job;
`done` a history of successful claims. Each HTTP operation is a `Load...` step and
the writes that follow it, in the order of the code: for example
`updateBookingStatusAction` is `LoadService` (ownership, code, transition),
`ClaimService` (compare-and-set on the loaded status) and `SaveService` (the save of
the same document, status included, with the codes). The deadlines are flags:
`overdue` when the response window has passed, `EXPIRED` for a code. `ConsumeUsage`
and `ReleaseUsage` take in one step what `EntitlementLedger` takes apart.

`LoadBackup` and `SaveBackup` are the assignment of a backup, which saves the provider
of an agreed booking whatever its status is (`provider-reassignment.service.ts:176`).

`BookingPromise` is what the parties can rely on while their calls overlap. The answer
and each step of the visit are claims: they take effect at once, on the status of the
moment. Everything else is decided where the transition table of
`booking-status.service.ts` allows it (`Decision`) and lands later, once or never,
whatever the booking has become since (`Landing`, `ChangeProvider`, `GiveBack`,
`Lapse`): `late` holds what each call has yet to land. So the provider who agreed is
the one that was asked at that moment, the provider changes only by a request made
before the agreement or a backup decided after it, and coins come back only when a
customer's cancellation has landed. It does not promise that a confirmed booking is
with the provider who agreed, or that a cancelled one stays so; the code does not keep
either. `KeepsPromise` says that `BookingLifecycle` implements it, with `late` read
off the places of the handlers (`Lates`).

### UrgentAssignment

`ur` is the request, `target` the invitations, `booking` the one booking its unique
index allows, `winners` and `round` history. `LoadAccept` to `ConvertSave` are
`acceptUrgentRequest` with `convertUrgentToBooking`; `LoadReject`, `SaveReject` the
rejection, also of a busy provider; `LoadNotice`, `SaveNotice` the saves of NOTIFIED
and VIEWED on a target loaded earlier; `CancelRequest`, `JobFind`, `JobSave`,
`CloseTargets` the ends by the customer, the administrator and the expiry job;
`RingFindsNobody`, `CountOpen`, `ExpireNoProviders` the end of a fruitless search;
`LoadGiveUp` to `ResetRequest` the two ways back into the search. `LoadVisit`,
`ClaimVisit` and `SaveStatus` are the visit of the booking, a claim and the save after
it; `LoadChange` and the same save the operations that only save (the customer's
cancellation, the two sides of a reschedule). `revived` is history: such a save has
brought a cancelled booking back. `Invite` and `Lapse` stand for the search. PENDING,
NOTIFIED and VIEWED are one status, OPEN, because no operation here tells them apart.

### EntitlementLedger

`ent` holds the counters and the status, `usage` the usage of each booking, `taken`
the bookings whose acceptance has called `consumeEntitlement` (once per booking:
`AnsweredOnce`). The sweep of stale reservations calls the release, so it is the
operation RELEASE at any time. The subscription's state is left out: every change
of the entitlement's status may come at any time.

### ProviderConfirmation

`booking` holds the provider and `providerConfirmation`, `phase` how long it is to
the start, `reservation` whether the slot's document is still there. `BeginConfirm`
and `SaveConfirm` are `confirmProviderBooking`; `BeginJob` to `Miss` one booking of a
run of `processProviderConfirmationReminders`; `FindBackup` and `Assign` the search
and the assignment of a backup, which the customer may ask for too (`BeginReplace`).
The job loads up to 100 bookings and saves them one after another, so a run works
with documents of any age. `stale` of a handler remembers that another has written
the booking since, `history.lost` that a stale handler has saved: the lost update
that a versioned save would refuse, and the only thing that two of the properties
except. Handlers that overlap and do not save over each other keep them.

### UrgentWaves

`sess` are the session objects, `cur` the one in the map `activeSessions`; a function
in flight keeps the object it began with, so several exist at a time. `proc` are the
asynchronous functions. `Load` to `Schedule` are `ringNextBatch`; `Advance` is the
test-and-set of `advancing`; `Fire` a timer; `ReadRequest`, `ReadTargets` and
`ExpireTarget` the batch's timeout; `FindSearching` and `FindOpen` the recovery after
`Restart`, which empties memory and keeps documents. A function that throws resets
`advancing` in its `finally`, and the exception ends the search it was part of
(`threw`).

### CarePlanSubscription

`sub`, `attempt`, `invoiced` and `ent` are the documents, `captured` the gateway.
`BeginCreate` to `Order` are `createSubscription`; `BeginConfirm`, `Paid`, `Claim` a
payment; `LoadActivate` to `CreateEnt` the activation with its entitlements;
`BeginRenew`, `Invoice`, `Renew` the renewal job. `production` is chosen at first,
because the code pays by itself outside production. `Order` may find the attempt of
another subscription under its idempotency key and leave none for its own.

`Exhaust` is the last unit used: `consumeEntitlement` checks no status, so a unit that
was reserved before is spent while the subscription is paused or cancelled too, and
`BenefitsFollow` is about what is on offer (ACTIVE), not about that.
`BeginAdjust` and `SaveAdjust` are `adminAdjustEntitlement`, which turns EXHAUSTED into
ACTIVE whatever the subscription's status is; `history.restored` names the entitlements
it brought back, until the next suspension or reactivation. `history.crossed` names the
subscriptions of which a status was saved out of turn: while the handler of an earlier
save had not yet brought the entitlements in line, by a renewal that found the
subscription paused or cancelled since, or by a cancellation that did not send the
status because it had loaded it CANCELLED.

### PaymentSettlement

`payment` and `booking` are the two documents that both carry a payment status, with
the metadata the direction of the settlement is read from. `LoadUnpaid`,
`LoadPayment`, `Webhook`, `LoadBooking`, `SaveOrder` and their saves are
`payment.service.ts`; `PayPayment` and `PayBooking` are
`markBookingPaidForSettlement`; `LoadStarted` and `Complete` the payment side of
COMPLETE_SERVICE; `TryBooking` to `TryCreate` are `tryCreateProviderSettlement`;
`LoadPending`, `SettleSave` and `Payout` `settleProviderRecord`.

A payment is confirmed in one of three ways (`Confirmation`): in cash, as waived
because the amount is below 1 (`free`), or `online`, by what came with a payment id.
The last covers the gateway's signature, its webhook, and the `dev` flag, which
`confirmBookingPayment` takes in every environment (`payment.service.ts:119`); nor does
the verification of the signature ask whether the order is the booking's own. So
`captured`, the money, guards the webhook only, and `KindFitsConfirmation` relates the
settlement to how the payment was confirmed and says nothing of money received. A
booking is made with its first order, or without when creation failed before it; an
urgent one without and at the gateway, whatever its method (`urgent.service.ts:406`).

### MarketplaceOrder

`stock` are the inventory rows, `res` the reservations (one per line of an order),
`order` the orders with their items. `BeginOrder` to `FinishOrder` are `createOrder`
with the bodies of `reserveInventory` and `confirmReservation`; `LoadRelease`, `Lower`
and `SaveRelease` are `releaseReservation`, called by the catch of `createOrder` and
by the job (`JobFind`, `Mark`); `Restock` is the partner's update. A line is one
piece, and the lines of a cart are different variants (`CartAssumption`), because
`addToCart` raises the quantity of a line there is already. The properties except what the code does not guard against, in `history`:
`late`, a job that finds a reservation another handler still holds, and `cut`, a
handler that stops between two writes that belong together. With either the code
does sell a unit twice: `confirmReservation` does not look at whether its update
matched.

## 3. Runs

| Run | Instance | Shows |
|---|---|---|
| `slot_all` | 2 handlers, 2 reservations, starts 10, 11 and 12 of length 2, clock to 1, no Redis | `TypeOK`, `SingleConsumer`; but for pairs written in a race or unchecked `NoOverlappingHolds`, `NoDoubleBooking` |
| `booking_answers` | 2 handlers, 2 providers, the answer and the whole visit | `TypeOK`, `ServedOnlyWhenAgreed`, `AnsweredOnce`, `NeverPendingAgain`; under fairness `OverdueIsReported` |
| `booking_promised` | 2 handlers, 2 providers, every operation up to the provider's departure, an entitlement and coins | `SpentOnlyWhenAccepted`, `KeepsPromise` |
| `booking_double_start` | 2 handlers, 1 provider, the visit | violates `StartedOnce` |
| `confirm_all` | 2 handlers or job runs, 3 providers, 1 reschedule | `TypeOK`, `ReplacedAfterMiss`; until an update is lost `WordCounts`, `DoneOnce` |
| `urgent_all` | 2 handlers, 2 providers, 2 rounds | `TypeOK`, `OneWinner`, `WonStays`; unless a late save revived the booking `HolderWon` |
| `waves_search` | 2 functions in flight, 2 providers, batches of 1, 3 sessions, 1 restart | `TypeOK`, `AdvanceAlone`; under fairness `NeverStalled` |
| `ledger_all` | 2 handlers, 3 bookings, 2 units, every operation | `TypeOK`; until a correction `NeverOversold`, `ExhaustedWhenSpent`, `ConsumedIsCounted` |
| `subscription_all` | 2 handlers, 1 subscription, 2 periods | `TypeOK`, `PaidGrants`; with the exceptions of section 2 `BenefitsFollow`; under fairness `PaidIsServed` |
| `subscription_twice` | 1 handler, 2 subscriptions | violates `OnePlanOnce` |
| `payments_all` | 2 handlers, 2 orders at the gateway | `TypeOK`, `KindFitsConfirmation`, `PaidOutOnce`, `DueIsSettled` |
| `market_all` | 2 handlers or job runs, 2 orders, 2 variants with 1 unit each, 1 failure, 1 restock | `MarketTypeOK`, `SoldIsConfirmed`; `CountersMatch` and `HeldIsOnShelf` with the exceptions of section 2 |

No run checks for deadlock: a server without calls, a booking that has ended and a
request that was served have nothing more to do.

### Where the code and its documents disagree

| Run | Statement | What happens |
|---|---|---|
| `booking_double_start` | "concurrent duplicate actions (double start / double complete) cannot both succeed" (`booking-provider.service.ts:422`) | the save that follows the claim of an earlier action takes the status back, and START_SERVICE is claimed again |
| `subscription_twice` | "You already have an active subscription for this plan." (the check of `createSubscription`, `subscription.service.ts:193`) | a paused subscription does not stop a second one, and resuming does not look: two are active |

Each of these runs checks one property in the smallest instance that shows it.

More races are in the models, and are the reason for the exceptions the properties
name:

- Two creations hold overlapping slots when one inserts after the other's last query
  (`reservation.service.ts:50`), and two bookings are created, moved or taken over to
  one time likewise; see `SlotReservation`, also for the bookings nobody checks.
- `releaseSlotReservation` and `getSlotReservation` (`reservation.service.ts:249`, `272`)
  save their status over a reservation consumed since. Nothing decides on it afterwards:
  the booking is made once all the same (`SingleConsumer`).
- `reassignPendingBookingProvider` (`provider-reassignment.service.ts:93`) saves the
  new provider over a booking accepted since it was loaded, so a booking can be
  confirmed with a provider who never accepted it. `BookingPromise` has this as a
  request for another provider that lands late.
- The save after a visit step's claim (`booking-provider.service.ts:473`) and those of
  the reschedule can take a booking back that was cancelled meanwhile; of an urgent one
  the request may be with somebody else by then. `HolderWon` excepts it (`revived`).
- `expirePendingProviderRequests` (`booking.service.ts:684`) marks as expired what its
  query found, also when the wait was extended in between.
- The start code is issued by PROVIDER_ARRIVE only
  (`booking-provider.service.ts:451`). When it expires, or the process dies before the
  save, no operation issues another, although the message at
  `service-start-otp.service.ts:36` sends the customer to look for one.
- MISSED wants at most `deadlineHours` before the start, the job's query at least as
  many (`provider-confirmation.service.ts:90`, `157`): only the exact instant reaches
  it. The TTL index has removed the reservation the search for a backup needs.
- "cancel the booking and restart dispatch" (`urgent.service.ts:452`): the second
  winner of a redispatched request is given the cancelled booking.
- `expireNoProviders` (`urgent-wave.service.ts:268`) expires the request its ring
  loaded, also when a provider has won it since; `WonStays` excepts that step.
- `notifySingleTarget` saves NOTIFIED over an invitation rejected while it was sent.
  The rejection has rung the next batch, whose start clears the timer of this one:
  nobody expires the invitation, and the next batch never comes, against the comment
  at `urgent-wave.service.ts:421`. `NeverStalled` excepts it (`Unwatched`).
- A customer who pays between the load and the claim of COMPLETE_SERVICE
  (`booking-provider.service.ts:555`) gets no settlement tried on either side;
  `history.due` of `DueIsSettled` leaves that order out.
- `initiateBookingPayment` saves the metadata it loaded before the gateway answered
  (`payment.service.ts:87`). It drops a cash confirmation made since, and the
  settlement becomes a payout (`provider-settlement.service.ts:70`);
  `KindFitsConfirmation` excepts it (`history.lost`).
- A subscription's payment is claimed before it is activated
  (`subscription-billing.service.ts:92`): when the handler dies in between, the
  customer has paid and nothing can serve it; `PaidIsServed` excepts it.
- Two overlapping runs of the stock job lower `reservedQuantity` twice
  (`inventory.service.ts:113`); see `MarketplaceOrder`.

### Bounds

`MaxTime` ends the clock of `SlotReservation`; a hold lasts one tick, so that it can
be created, expire, be removed by the TTL monitor and be followed by another within
the bound. Of three starts one apart, of length 2, the neighbours overlap without
being equal and the outer two do not, so a booking can be moved. `slot_all` runs
without Redis, which the code allows: with it `AcquireSlotHold` refuses more, and a
refused handler ends as one does that fails there, so every behaviour with Redis is,
keys aside, one without. The theorems hold for both.
`MaxRounds` ends the dispatch rounds at two: one to win, one to be
redispatched into. `MaxAttempts` and `MaxWaits` are constants of the code, taken
no larger; the code compares with them only. `MaxSessions` is three: the current
session, one a function still refers to, and the one that replaces it; sessions
nothing refers to are used again. `MaxRestarts` is one, `MaxMoves` one. `MaxOrders`
is two: an order that was paid and one that replaced it. `MaxPeriods` is two: the
first period and a renewal. `MaxFails` and `MaxRestocks` of
`MarketplaceOrder` are one each. History counters stop at 2, where the properties
are already decided. Two handlers are enough for every lost update between a load
and a save. Handlers, providers, bookings, reservations and orders are symmetric;
symmetry is not used with liveness. (`KeepsPromise` is a step property, and its
mapping commutes with the permutations: `Lates` and `provider` are permuted with the
handlers and the providers.) In `market_all` the carts are one
whose second line may be refused and one that takes that unit away.

`booking_promised` leaves the visit after the departure to the theorem `Implements`,
which is about every operation; `booking_answers` has the whole visit, without the
reschedules, the provider's cancellation and the backup.

The operations called in an instance are the constant `Ops`. It restricts the
clients, never a handler, and each restriction is part of the run's statement.

### Fairness

`FairSpec` of `BookingLifecycle` is used by `booking_answers`. Fairness restricts no
reachable state, so the run's invariants are those of `Spec`. The job is started by
`setInterval` again and again: weak fairness of its query, and strong fairness of
its save, because a run may fail but not every run does. Time passes (weak fairness
of `Clock`), and a handler that was not killed goes on (weak fairness of
`Continues`). Nothing obliges a customer or a provider to call, so no operation of
theirs is fair.

`FairSpec` of `UrgentWaves`: a promise is settled (weak fairness of `Step`), a young
search grows old (weak fairness of that tick only; that the request runs out of time
is never assumed), and a timer that is set fires. The last is strong fairness,
because `Proc` bounds how many functions run at a time and would keep a timer waiting
that Node would not.

`FairSpec` of `CarePlanSubscription`: a handler that was not cut off goes on.

## 4. Proofs

TLAPS proves these for every value of the constants that satisfies the named
assumptions of the modules (there is a provider; `Nobody` is none; limits are
positive; for the ledger finitely many bookings, for the stock finitely many orders
and variants, and carts whose lines are different variants).

| Module | Theorem | Property |
|---|---|---|
| `SlotReservation_proofs` | `TypeCorrect`, `OneConsumer`, `HoldsNeverOverlap`, `NeverBookedTwice` | `TypeOK`, `SingleConsumer`, `NoOverlappingHolds`, `NoDoubleBooking` |
| `BookingLifecycle_proofs` | `TypeCorrect`, `OneAnswer`, `ServedAsAgreed`, `SpentAsAgreed`, `NoReturn`, `Implements` | `TypeOK`, `AnsweredOnce`, `ServedOnlyWhenAgreed`, `SpentOnlyWhenAccepted`, `NeverPendingAgain`, `KeepsPromise` |
| `ProviderConfirmation_proofs` | `TypeCorrect`, `ReplacedOnlyAfterMiss`, `ConfirmationCounts`, `OneOfEach` | `TypeOK`, `ReplacedAfterMiss`, `WordCounts`, `DoneOnce` |
| `UrgentAssignment_proofs` | `TypeCorrect`, `OneWinnerEver`, `HolderServes`, `WonIsKept` | `TypeOK`, `OneWinner`, `HolderWon`, `WonStays` |
| `UrgentWaves_proofs` | `TypeCorrect`, `OneAdvance` | `TypeOK`, `AdvanceAlone` |
| `Counters_proofs` | `TypeCorrect`, `Sold`, `Exhausted`, `CountedOnce`; of orders `MarketTypeCorrect`, `CountersAreRight`, `HoldsAreOnShelf`, `SalesAreConfirmed` | `TypeOK`, `NeverOversold`, `ExhaustedWhenSpent`, `ConsumedIsCounted`; `MarketTypeOK`, `CountersMatch`, `HeldIsOnShelf`, `SoldIsConfirmed` |
| `CarePlanSubscription_proofs` | `TypeCorrect`, `GrantsArePaid`, `EntitlementsFollow` | `TypeOK`, `PaidGrants`, `BenefitsFollow` |
| `PaymentSettlement_proofs` | `TypeCorrect`, `KindIsConfirmed`, `OnePayout`, `DueGetsSettled` | `TypeOK`, `KindFitsConfirmation`, `PaidOutOnce`, `DueIsSettled` |

The arguments:

- *Slots.* `SingleConsumer` is not inductive: a handler past its claim must find the
  reservation spent or gone, so that nobody else's claim succeeds. The
  strengthening says so: no save writes HELD, so a spent reservation stays spent,
  under whatever status. For
  the overlaps `Apart` adds what a handler knows between its last check and its
  write: the only holds (or bookings) in its way are those in `unseen`. No other step
  puts one in its way, so what it writes overlaps only those, and they are the pairs
  it adds to `raced`. A booking that is put unchecked adds its clashes itself.
- *Bookings.* A claim needs PENDING_PROVIDER, so a second one is impossible if no
  save brings that status back. The strengthening records, for every handler on its
  way to a save, what the booking had reached when it was loaded: a visit step's
  save needs an acceptance, START_SERVICE's a start, and so on. Each of these facts
  is stable because the history only grows. `Implements` holds for any number of
  handlers without a hypothesis. A handler's place is what it has yet to land, so a
  step of the code moves one entry of `late` and leaves the others (`AwaitLeaves`,
  `RecallLeaves`, `FinishLeaves`): a load is a decision, a save a landing, a claim
  happens at once, and what the promise does not see is a stutter or a `Lapse`. The
  invariant is needed where a load does not look at the status: a backup is decided
  only when somebody has agreed.
- *Confirmation.* A handler on its way to an assignment has seen the miss, and the
  history keeps it. For the rest, a handler that is not stale still holds the stored
  document, so its save changes what it meant to change and nothing else, and every
  write makes the others in flight stale (`Timely`).
- *Urgent requests.* Winners hold the request as long as its provider is theirs.
  The reset of a redispatch is the only step that takes the provider away, and it
  starts the next round. A handler that has won and not converted yet still holds
  the request while there is no booking, because a redispatch begins with one; a
  handler about to reset has seen the booking cancelled, and it is so still unless
  `revived`.
- *Waves.* `AdvanceAlone` needs to know which functions work on which session: a
  function that advances owns a session object, nobody else's ring is taken for it,
  and the object it owns is not used again while it does (`Owner`, `Fits`).
- *Ledger.* Every increment is guarded by the sum, every other step keeps or lowers
  it. A handler about to write EXHAUSTED saw `used` reach the total, and `used`
  never falls without corrections. The bookings shown as consumed, or about to be,
  are at most `used`: a step that adds one has spent a unit.
- *Subscriptions.* Payments, grants and the handlers between claim and generation
  are counted: one claim is one payment, and carries one grant at most. For
  `BenefitsFollow`, take a subscription that was never crossed or cut off: one handler
  at most has saved a status and is yet to bring the entitlements in line (`Following`),
  because a second save would have crossed it, and what it is about to do fits the
  status it saved. With none in flight the entitlements are in line but for those in
  `restored`, and consumption, expiry and adjustment keep them so. Of the handlers that
  have loaded and not saved yet nothing is assumed but what `Begun` keeps of their
  load.
- *Payments.* What is paid was confirmed, in the documents and in what any handler has
  loaded. An online confirmation marks the payment with the gateway for good, so a
  payment without the mark was confirmed in cash or waived; a payment confirmed in cash
  only says so, until a stale save drops it. The creator of a settlement has read one
  or the other. Only the handler whose save settles the record posts the payout, and the
  unique key lets one through. What is due has a handler on its way to create it, or
  one that created it.
- *Orders and stock.* Three invariants, each on top of the one before. `MInv` holds
  always: what a handler has at each place (`Shape`), that an order is worked on by one
  call, which knows how far it has come (`Progress`), and that until the partner goes
  below it what is reserved is on the shelf. `Orderly` holds until the job finds
  a reservation in another's hands: no two handlers have one in hand (`Apart`), each
  finds its own as it left them (`Held`, `Ahead`), and the lines an order has left
  behind are confirmed, the others untouched (`Behind`). `SoldIsConfirmed` by itself
  is not inductive: the last save of an order says nothing of the lines before it.
  `Tally` adds the counters, until a handler stops half way: `reservedQuantity`
  counts the reservations with a unit (`Counted`: the active ones, with the one
  about to be written and without those already given back), and what was sold is
  `Gone` from the stock. A step of one handler changes how one reservation counts
  (`OthersCount`), and because it is the only one to have it (`Alone`), its place and
  the stored status say how.

Only model-checked: the liveness properties `OverdueIsReported`, `NeverStalled` and
`PaidIsServed`, which are out of the prover's reach.

## 5. What could follow

- That every reservation of the marketplace ends, which its job promises under
  fairness.
- The budget check of the organizations' approvals (check-then-act), home-help
  replacement, price changes, presence, and the fallback of the queue.

## 6. Not modelled

Of the modelled parts:

- Working hours, time off, service areas and buffers: slots are given.
- The counter of the slot inventory (`reservation.service.ts:105`,
  `operations/slot-inventory.service.ts`), taken before the checks when there is Redis
  and an inventory row. The refusals that follow never give it back, and
  `releaseSlotInventory` has no caller; no modelled decision but the refusal itself
  reads it.
- Prices, invoices, notifications, sockets, timelines, chat and audit entries, which
  no modelled decision reads. Their calls matter only because they can throw; that
  is `Fail` or `Stops`.
- Price changes and administrator edits of bookings; no-shows of scheduled bookings.
- Overlapping runs of the booking expiry job in several servers: it is one process.
  The urgent expiry job, the confirmation job, the renewals and the stock job are
  handlers and may run twice at once.
- Ownership and role checks: a call comes from a party that may make it.
- Confirmation: a reschedule keeps the old confirmation, as in the code.
- Waves: BullMQ's durable jobs in place of timers, Redis, and a second search of the
  same request while a ring of the first is in flight.
- Subscriptions: PAST_DUE and its grace period, which nothing enters; plans, homes and
  prices. Modelled and true of the code, though no property promises otherwise:
  renewals in production leave an invoice nobody can pay, a renewal grants no
  entitlements of the new period, an abandoned payment blocks another subscription,
  and a late payment turns a cancelled subscription active.
- Payments: refunds, the gateway that stands in for Razorpay without its keys, the finance
  outbox; `completeBookingWithSummary` and `reverseFinancialEvent`, which nothing calls.
- Marketplace: `confirmMarketplacePayment` and `handlePaymentFailure`, which nothing
  calls (so an order paid online stays PENDING, and keeps its stock), stock rows of
  several zones, the status of a row (shown, never tested), returns and statements.

The rest of the repository is not modelled, and most of it is out of the reach of
this method for lack of protocol, not of size: of about 70 000 lines, the greater
part are routes, schemas, validators, serializers, reports and modules that read and
write one document per request. A model of those would restate them line by line and
could not be wrong. `PROJECT.json` names each part with its reason.
