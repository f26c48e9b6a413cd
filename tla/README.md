# checkout-platform in TLA+

Specifications, model-checking configurations and machine-checked proofs for the
part of checkout-platform whose correctness depends on interleavings, crashes and
retries. Every definition is translated from the TypeScript source; `PROJECT.json`
gives the lines each one stands for.

## 1. The system

| Component | State | Operations | Talks to |
|---|---|---|---|
| payment-service | `payment_intents`, `payment_transactions`, outbox rows | `AuthorizeAndCaptureUseCase.execute` | the PSP through `PspGateway`, MongoDB through `withOutbox` |
| kernel outbox: `withOutbox` | the `outbox` collection | append rows in the transaction of the business write | MongoDB sessions |
| kernel outbox: relay | `outbox` rows with `status`, `availableAt`, `leaseExpiresAt` | `claimBatch`, `relayTick`, `startOutboxRelay` | RabbitMQ confirm channel |
| kernel inbox | `processed_messages` | `Inbox.claim`, `Inbox.complete` | a consumer's handler and its transaction |
| order-service | `orders`, `order_search_view` | `CreateOrderUseCase`, `ReserveForCheckoutUseCase`, the `Order` aggregate, search | `withOutbox` |
| catalog-pricing-service | `price_books`, `quotes` | `priceOrder`, `CreateQuoteUseCase`, `VerifyQuoteUseCase` | `withOutbox` |
| identity-service | `users` | `RegisterUserUseCase`, `POST /login`, JWKS | HTTP, the gateway that verifies its tokens |
| kernel context | an AsyncLocalStorage store | `RequestContext.run`, `TenantScopedRepository` | every repository |

Several more services (gateway, checkout orchestrator, invoice, notification,
production, asset), the HTTP idempotency middleware, the hold reaper and the
payment reconciliation job are described in `docs/` and have no source. They are
not modelled.

How the parts meet: a use case changes its aggregate and appends its events in
one MongoDB transaction; the relay carries each row to RabbitMQ at least once; a
consumer puts the message through its inbox, so that a duplicate does no harm.
The order version is the lock of a checkout, the idempotency key is the lock of
a charge.

### What is hard

* Payment: the PSP call stands between two transactions. It may time out after
  the money moved, the process may die on either side of it, and attempts with
  one key, or with two keys of one order, may run at once. `persist` compares no
  version.
* Relay: leases are stamped from a `now` fixed before the claim loop, run out
  while their holder still publishes, and are dropped and marked by `_id` alone.
  The loop keeps the one channel it was started with.
* Inbox: claims expire under a slow handler, and the reclaim compares `claimedBy`
  only. A delivery that meets a live claim uses up one of the few its copy has.
* Quotes: price books change while a quote is priced, and a quote expires and is
  swept while it is verified; money is rounded.
* Unit of work: callbacks are run again after transient errors, and the reply of a
  commit may be lost.
* Identity and tenants: registrations of one email race; requests of several tenants
  interleave in one process, and take their tenant from an ambient store.
* Orders: an aggregate is loaded, edited and saved while checkouts reserve it.
* Reservation: several callers race for one version, `withTransaction` runs the
  callback again, the loser has to be told why from a consistent read.

`hazards` in `PROJECT.json` lists each of these at its line, with the properties
that watch it, or with the reason why none does yet.

## 2. Modules

| Module | Models | Checked by |
|---|---|---|
| `Payment` | `AuthorizeAndCaptureUseCase`, `PaymentIntent`, the unique indexes, `MockPspGateway` | `MCPayment` |
| `PaymentLedger` | abstract: what payment-service promises the platform | property `ImplementsLedger` of `Payment` |
| `UnitOfWork` | `withOutbox`, `SessionBoundCollection`, the unique index on `messageId` | `MCUnitOfWork` |
| `AtomicWork` | abstract: a unit of work as one step | property `ImplementsAtomic` of `UnitOfWork` |
| `OutboxRelay` | `claimBatch`, `relayTick`, `startOutboxRelay` | `MCOutboxRelay` |
| `Inbox` | `Inbox.claim`, `Inbox.complete`, the handler the comments prescribe | `MCInbox` |
| `Pipeline` | `OutboxRelay` and `Inbox` composed through a queue | `MCPipeline` |
| `EventDelivery` | abstract: a committed event is handled | property `ImplementsDelivery` of `Pipeline` |
| `OrderReservation` | create, reserve, the `Order` aggregate in an editor's hands, view and events | `MCOrderReservation` |
| `Pricing` | `priceOrder`, `applyRate`, `roundHalfToEven` as operators | through `Quote` |
| `Quote` | `CreateQuoteUseCase`, `VerifyQuoteUseCase`, `Quote`, the TTL index | `MCQuote` |
| `Tenancy` | the tenants, shared by the two modules below | through `Access` |
| `Identity` | `RegisterUserUseCase`, `LoginUseCase`, `POST /login`, the unique index on `email` | through `Access` |
| `TenantScope` | `RequestContext`, `TenantScopedRepository` | through `Access` |
| `Access` | `Identity` and `TenantScope` composed through the token | `MCAccess` |
| `PaymentProofs`, `UnitOfWorkProofs`, `RelayProofs`, `InboxProofs`, `PipelineProofs`, `OrderProofs`, `QuoteProofs`, `AccessProofs` | theorems about the module they are named after; `QuoteProofs` also about `Pricing` | tlapm |

A definition named `Faulty_...` is a plausible bug in the definition it is named
after. It takes no part in a specification; substituting it must violate the
property `PROJECT.json` pairs it with.

### Payment

An attempt is one call of `execute`. `pc` holds the `await` it stands at:

```
open ──OpenIntent──► charge ──ChargeReplayed/ChargeAnswered──► persist ──► done
  └─DuplicateKey─► find ─┘ └─ChargeTimedOut─► record ─► lookup ─┘
```

`intents`, `ledger` and `outbox` are the collections; `intent[a]` and `answer[a]`
are the locals that survive an `await` and may be stale when they are used.
A MongoDB transaction is one step: `withOutbox` uses snapshot reads and majority
writes and retries conflicting transactions. `PersistRejected` is the
transaction the order index aborts. `Fail(a)` ends an attempt between any two
steps, and a commit may go unanswered, so crashes, lost callers and retries
are all there: a retry is another attempt with the same key.

A key is a `{tenantId, idempotencyKey}` pair, as in the unique index. The gateway
is given the `idempotencyKey` alone, so two tenants with one `idempotencyKey` would share
a decision of the PSP. The model takes it that this does not happen
(`docs/CHECKOUT-SAGA.md:260` makes a key of the unique session id); nothing in the
service enforces it, and no property speaks of it.

The PSP is the mock of the repository; `psp` is its `byIdempotencyKey`. It is
taken for the outside service it stands for, so its memory outlives attempts.
`cmd.amount` and the intent's amount are kept apart because the code charges one
and records the other.

`PaymentLedger` says what other services rely on: a key is claimed before the PSP
decides, the PSP decides once, the payment settles once and as decided, the event
is announced in the same step, and an order has one captured payment at most. The
mapping forgets attempts, timeouts and overwrites; a persist over a document that
another attempt settled maps to a stutter.

### UnitOfWork

A call runs `begin → write → append → commit → ended`. `Read` takes the snapshot,
`Write` is refused while the document is not what was read or another transaction
writes it, `AppendEvents` meets the unique index. A document is the sequence of
the calls whose write it contains, so a lost, repeated or phantom write shows.
`TransientError` runs the callback again from the start; `Commit` may lose its
reply, and the driver then sends it again (`Confirm`) or gives up (`GiveUp`).
MongoDB and its driver are modelled by what `withTransaction` documents.
`withOutbox` rejects in the same way whether nothing was written or the outcome of
the commit is unknown. The two differ only by the label
`UnknownTransactionCommitResult` on the driver's error, which it passes on and which
nothing in the repository reads. The model keeps them apart as `REJECTED` and
`REJECTED_UNKNOWN`; a caller that does not look at the label has to take every
rejection for the second. `AtomicWork` has one step in which a call happens, and an
answer that is never wrong, though it may leave the outcome open.

The other modules take this as given: a transaction is one step there, or a
few where another process can see between them.

### OutboxRelay

A worker runs `idle → claim → publish → mark → …`, with `release` for the catch
block. `ClaimRow` is one `findOneAndUpdate`. Time is relative: `wait` and `lease` are
how far `availableAt` and `leaseExpiresAt` lie ahead, `age[w]` how long ago the
worker fixed `now`. So a lease taken late in a loop is `LeaseFor - age[w]`, which may
already have run out. Marking and releasing go by `_id`, whoever holds the row.
`NotConfirmed` covers a broker that has the message and one that has not.
A rejection of `claimBatch`, or of the update in the catch block, leaves the polling
loop as an unhandled rejection, which ends a Node process: `Die`.

`startOutboxRelay` is given a channel and opens no other. One that closes with an error
takes the process with it (nobody listens for it), which is `Die` again. One that is
closed in good order, as a broker does when it is shut down, leaves the process polling:
`ChannelCloses` puts the worker into `closed`, and from then on `PublishThrows` is all that
comes of a publish, until `Restart`. `Closable` says whose channel this may happen to.

### Inbox

No consumer exists in the repository. The handler modelled is the one the
comments of `inbox.ts` prescribe: claim; business write and `complete` in one
transaction; ack; nack on `ConcurrentDeliveryError`. The insert, the read and the
reclaim are three steps, as in the code. A handler whose transaction aborts nacks.

The queue is the one `docs/EVENTS.md` §3 declares, which no source declares yet: a copy
is delivered `DeliveryLimit` times at most (6 there), and one that comes back from its
last delivery goes to the dead-letter queue. `copies[m][k]` counts the copies of `m`
that wait for their `k`-th delivery, `parked` the messages given up. `Deliver`, `Requeue`,
`Park`, `Finish`, `Nack`, `Ack` and `Crash` are external. The delays of the retry ladder are
left out: a retry may come at once, before the lease it waits for has run out, so the
model parks more than the ladder would. So is the replay of a parked message.

### Pipeline

`Pipeline` runs both modules over one set of events. What the broker accepts from
the relay, confirmed or not, is a copy in the consumer's queue; no other copies
exist, so the duplicates are the ones the relay makes. No channel closes here
(`Closable` is empty). The mapping to `EventDelivery` keeps what is committed, how often
each event was worked on, what was parked, and whether a claim on it ever ran
out before the work was done, be its claimant slow or dead.

### OrderReservation

`Reserve` is the `findOneAndUpdate` that matches: it takes the snapshot and holds the
document until `Commit`. `ReserveMisses` takes the snapshot that `Diagnose` reads.
`TransientError` is `withTransaction` aborting and running the callback again.

An editor is a caller of the aggregate. `Load` is `findById`, `EditItems` is `addItem`
and `removeItem`, `TransitionTo` changes status and version and pushes the event;
`MoveToPricing` and `Move` are the public ways to it, and an editor may take any
transition that `LEGAL` has, into PRICING with an empty order and into CHECKOUT_PENDING
without a session too. `Save` stores what `toOrderDocument` (with `checkout: null`) and
`toSearchViewDocument` make of the copy, changed or not, and commits the pulled events.
Loading, editing and saving are separate steps, so copies grow stale.

No use case in the repository saves a loaded aggregate, so `Save` is external. That it
compares the version is what `docs/DATA-INTEGRITY.md` §6 prescribes. `ViewInSync`,
`EventsTellTheHistory`, `HoldIsEarned` and `OneWinnerPerVersion` are about reservations
beside savers that keep to this; a saver that did not would break the last three.

### Pricing and Quote

`Pricing` has one operator per part of `priceOrder`; a line keeps the fields that are
added up or hashed; `SumOf` is the running total of `reduce`. A rate is an integer of basis points and its product is exact
until it is rounded. The discount line carries no tax, as in the code; the docs tax it
(see Findings). The code multiplies doubles, which can push an exact tie to
one side of the half; the amounts of `MCQuote` were chosen so that both agree. The
integrity hash is the record it is taken over: SHA-256 is taken to be
injective.

In `Quote` a create is `ReadBook → Price → Insert → ReturnQuote`. The
book is the one of the transaction's snapshot: `Publish` and `Retire` may come before
the commit, and two books may be active at once, since `findOne` sorts by
nothing. `Rerun` is `withTransaction` starting again; `Throw` and `LoseAnswer` are
the errors before and after the commit. A verify is `FindQuote` and then a judgement
by the clock of a later instant; between them `Sweep`, MongoDB's TTL monitor, may
delete the document. `answer` is the latest result of any verifier, `refused` a
history of final refusals. Processes and database are taken to agree on
the time: with skewed clocks a quote lives as much longer or shorter.

### Identity, TenantScope and Access

In `Identity` every `await` is a step boundary: `FindByEmail → Insert`, and
`FindUser → Verify → Issue`. The loser of the index gets a raw duplicate-key error
(`InsertRejected`). A password stands for its hash. `Disable` is an operator:
nothing in the repository writes DISABLED.

In `TenantScope` a repository builds its filter from the request's store when it
is called, and MongoDB applies it in a later step; other requests run in between. A
caller may put any `tenantId` into its filter. `insertOne` takes the tenant
from the document, as the code does, so anything may be inserted.

`Access` joins them: a request runs in a context opened with the `tid` of a token
that a login returned. The gateway that does this is not in the repository, so
`Authenticate` is external. Expiry of tokens is left out.

## 3. Runs

| Run | Instance | Shows |
|---|---|---|
| `payment` | 3 attempts, 2 keys of 1 order, 2 amounts, 4 cards | all safety properties and the refinement |
| `payment_row` | 2 attempts | the second CAPTURE row |
| `payment_charge` | 2 attempts | two charges for one order |
| `relay` | 2 rows, 2 workers, lease 1, stall 2, 2 faults, one closable channel | safety and liveness of the relay |
| `relay_order` | 2 rows, 2 workers, 1 fault | events of one aggregate swapped |
| `inbox` | 1 message, ≤ 3 copies of 3 deliveries, 3 handlers in 2 pods, 2 faults | safety and liveness of the inbox |
| `inbox_rework` | the same | a handled message claimed again |
| `pipeline` | 1 event, 1 worker, 2 handlers in 2 pods, 2 deliveries a copy, 1 + 2 faults | the way from outbox to effect |
| `unit_of_work` | 3 calls, 2 documents, 2 messages, 2 retries | `withOutbox` is atomic |
| `reservation` | 1 order, 1 item, 2 requests, 1 editor, 5 versions | the race, its diagnosis, edits, view and events |
| `quote` | 2 quotes, 2 verifiers, 2 versions of a price book, a tenant without one, 3 carts, 3 instants | quotes stay what they were, as long as promised |
| `access` | 3 registrations of 2 emails in 2 tenants, 2 logins, 2 requests, 1 document | accounts, tokens and tenants |

### Properties

* `OneLivePaymentPerOrder`, `CommitPoint`, `TruthfulResult`, `ChargedAsRecorded`,
  `SettledIsFinal`, `ImplementsLedger`: the stored payments agree with each other,
  with the PSP and with what callers were told. `ChargedAsRecorded` is restricted
  to keys whose attempts all carry one amount, as keys derived from a checkout
  session do: the code does not compare amounts.
* `PublishedWasAccepted`, `DuplicatesHaveACause`, `EveryRowIsPublished`: at least
  once, never lost, and once unless a fault happened or a lease was overrun. Every row
  is published in the end if no relay is left with a closed channel.
* `DoneIffRecorded`, `NoMessageIsLost`, `OnceWhileLeasesLast`,
  `EveryMessageIsSettled`: the same for the consuming side, where "in the end" means
  handled or parked in the dead-letter queue. `OnceWhileLeasesLast` exempts a message as
  soon as any claim on it ran out before the work was done, which a crashed claimant's
  does too.
* `PublishedIsInGoodHands`, `ImplementsDelivery`: both together. A row that is
  marked and forgotten is in the queue, with a handler, in the dead-letter queue or done,
  and every committed event is handled or parked in the end, and handled twice only if
  the lease of a claim on it ran out first, its claimant slow or dead.
* `WriteIffEvents`, `TruthfulAnswer`, `ImplementsAtomic`: a write never goes without its
  events, whichever attempt made them, and what the caller is told is true.
* `OneRegistrationPerEmail`, `TokensNameTheAccount`, `DisabledStaysOut`,
  `TenantsAreApart`: from racing registrations to the documents a request gets to
  see. The last one relates a document to the account behind the token, across
  both modules. It covers what goes through `TenantScopedRepository`, not the use cases
  that take a `tenantId` from their command. `DisabledStaysOut` says nothing of an account
  disabled during the password check: that login goes through.
* `OneWinnerPerVersion`, `HoldIsEarned`, `ViewInSync`, `EventsTellTheHistory`,
  `AccurateReason`: one winner, no stale view, no event lost or invented by a retried
  callback or a stale copy, refusals that describe a state in which the request could
  not have won. `HoldIsEarned` is what the reservation alone can promise beside editors
  that may do all that the aggregate allows: a session is never there without a
  request that reserved, and while the order has the version its winner made, no other
  session has it. An order may be CHECKOUT_PENDING without a session, and a save
  may wipe one.
* `AsQuoted`, `HonouredUntilExpiry`, `NoRevival`: OK means what the caller was
  quoted, is given until the quote expires, and never after a final refusal, also when
  one verifier holds a document that was swept for another.
* `SameHashSameOffer`, `PricedToTheHalfUnit`: the hash pins the offer and the
  version it comes from; the tax of each item is the amount nearest to the exact one, of
  two the even one; and a stored total is within half a minor unit per line of the
  exact price, which is stated without the engine's lines. Exact is what the code means:
  gross, less the highest tier reached, plus the tax on gross.

### Findings

Four claims of the docs, comments and tests do not hold of the code; a run shows
each (see `findings`):

* `payment_row`: a retry that overlaps adds a second CAPTURE row and a second event.
* `payment_charge`: the order index stops the second payment and not the second charge.
* `relay_order`: events of one aggregate may be swapped.
* `inbox_rework`: a reclaim may redo completed work.

Six more can be read off the code and have no run of their own:

* A worker that overran its own lease and then fails unsets `leaseExpiresAt` by `_id`
  (`relay.ts:46`), and so drops the live lease of the worker that took the row over.
* A relay keeps the channel it was started with (`relay.ts:73`), and `connectRabbit`
  listens for no close. One that was closed in good order makes every later publish
  throw until the process is restarted, where `docs/PERFORMANCE.md:312` has the outbox's
  "obligations discharge on recovery". The model has the closed channel, and
  `EveryRowIsPublished` excludes it.
* `transitionTo` is public (`order.aggregate.ts:78`) and takes an empty DRAFT to PRICING,
  where `errors.ts:10` says that "an order must have at least one item before it can be
  priced" and `order.aggregate.test.ts:56` tests it for `moveToPricing` alone. The
  model's editors may do it.
* `priceOrder` gives the discount line no tax and takes the subtotal before it. The
  worked example of `docs/DATA-MODEL.md:189-200` (and `docs/EVENTS.md:245`) taxes that
  line and takes the subtotal after it: 135,850 + 27,170 = 163,020, where the code has a
  subtotal of 143,000, a tax of 28,600 and a total of 164,450. TLC evaluates the code's
  amounts in the assumption `WorkedExample` of `MCQuote`.
* `verify-quote.usecase.ts` compares the stored hash and does not hash the stored lines
  again, as its comment has it.
* `docs/API.md:86` promises a diacritic-insensitive match of all words of a search, and
  `search` only trims and lower-cases its query.

### Bounds

* Payment: three attempts are the least with two racing on one key while a third
  pays the same order with another key. The refinement and the invariants are
  proved for any number, so the bound limits nothing but the search.
* Relay: the least instance with a lease that runs out within a tick
  (`LeaseFor` < `MaxStall`), a row behind another, a take-over, and a fault on each
  side of it. `MaxStall` caps how long a tick may take; ages and times further back
  compare alike. `MaxFaults` caps failures; without a cap the liveness property
  would ask progress of a broker that never works. One channel may close, so that a relay
  that works stands beside one that does not. Lease 1 leaves TLC only whole and
  elapsed leases; that partly elapsed ones exclude as well is `LeasesExclude`, for any lease.
* Inbox: `MaxCopies` = 3 gives every handler a copy; two of the handlers share a
  pod, because the reclaim cannot tell them apart. `DeliveryLimit` = 3 lets a copy be
  nacked, come back and be parked; the proofs cover any limit.
* Pipeline: one event is enough, since events do not meet. A relay worker that dies
  and comes back publishes it again; two handlers are the least for a take-over.
  One relay fault loses a confirm, a mark or the worker; two inbox faults use up both
  deliveries of a copy, so that a message is parked with its work undone.
* Unit of work: two calls on one document, two with one message, one without
  events. `MaxAttempts` = 2 lets a callback run three times, so a retry may itself
  be retried.
* Access: two registrations race for an email from different tenants, and a tenant
  has an account beside; a request for each tenant. One document can
  belong to either.
* Reservation: `MaxVersion` = 5 lets an order become ready, be reserved, released
  and reserved again, or be paid and refused. One editor is enough to hold a
  stale copy beside two requests; the proofs cover any number. `RequestSymmetry` exchanges the two
  requests; all properties of that run are state invariants.

* Quote: life 1 of a clock 0..2 has instants before, at and after `expiresAt`, for quotes
  made at once and later. Two quotes of one cart can come from both versions of the
  book, or of two carts have different hashes; two verifiers are the least for
  `NoRevival`. The carts reach no tier, a tier of each version, and an unknown SKU;
  their amounts meet both kinds of tie and both directions of rounding. Requests and
  verifiers are symmetric; all properties are invariants or speak of one step.

### Deadlock and fairness

Payment, inbox, reservation, quote, unit of work and access stop when their calls, messages, versions or
time are used up, so deadlock is not checked there; the relay and the pipeline poll for ever, and there
it is checked.
No liveness is claimed of payments, reservations, quotes and logins: nothing in the
repository retries them. Relay: the polling loop is always scheduled (weak fairness of a
worker's steps), the supervisor restarts a dead process, time passes. Faults are
not fair. Inbox: a delivered message is worked on, leases run out, and a message that
waits in the queue is delivered as long as handlers come free (strong fairness: the
queue is first in, first out, and passes nobody over for ever), though no more than
`DeliveryLimit` times a copy. So nothing is promised but that it is handled or parked.
Pipeline: what its two parts assume, and no more.

## 4. Proofs

`PaymentProofs` proves for every set of attempts, keys, orders, amounts and
commands, from the three assumptions of `Payment` (`OrderOf` is a function from keys
to orders, `NoAmount` is no amount, commands are well formed):

`TypeCorrect`, `Invariance`, `AtMostOneLivePayment`, `ResultsStayTrue`,
`CommitPointHolds`, `ChargeMatchesRecord`, `SettledPaymentsStand`,
`LedgerIsImplemented`.

The invariant `IInv`. None of the checked invariants is inductive by itself:
`persist` writes an in-memory copy over a document it does not compare. What makes
the overwrite harmless is said by the added parts:

* `HoldsPendingCopy`: a running attempt holds a PENDING copy of its key's
  intent, with the stored amount, although the stored one may have settled;
* `AnswerIsFinal`: what it is about to persist is what the PSP decided, once
  and for all, for that key;
* `VerdictMatchesPsp`: a settled document agrees with the PSP.

So two attempts that persist over each other write the same document.
`AmountsAreCommanded` carries the amounts from commands to both sides,
`AmbiguityIsRecorded` the PENDING row to the empty lookup. Each part has a lemma
with one step per action that can disturb it; `StepIsStable` says once what no step
ever takes back. The refinement maps each step by a lemma of its own
(`OpenIntentOpens`, `ChargeDecides`, `PersistCaptures`, `PersistRejects`).

`QuoteProofs` proves for every set of tenants, books, carts, requests and verifiers
`TypeCorrect`, `Invariance`, `VerifiedIsAsQuoted`, `StoredPricesAreNearExact`,
`HashPinsTheOffer`, `QuotesAreHonoured` and `RefusalIsFinal`, from
`ParametersAssumption` alone: a book belongs to a tenant and has a status, `NoQuote` is no
book, a quote lives for a positive time, and amounts, quantities, units and rates are
integers (`IsPriceBook`, `IsCart`). The invariant says that one
draft goes from the create to the collection, to the caller, to the verifier and
into the answer (`StoredByCommit`, `HeldWasReturned`), that its hash and its total are
right for the book it names (`DraftsAreSound`), and that a
committed quote missing from the collection, or refused, has expired
(`SweptIsExpired`, `RefusedIsExpired`). The last two carry `NoRevival`, whose
verifier no longer finds in the collection what it holds.

It first proves of `Pricing`, for every integer, `RoundingIsNearest`,
`TiesGoToEven`, `RoundingIsMonotone`, and that a rate up to 100 % keeps an amount
within itself (`RateStaysWithin`); and of `priceOrder`, for every book and every cart it
has prices for, `TaxesAreNearest`, `PriceIsNearExact` and `TotalsAreBounded`: each tax is
the nearest amount, ties to even, and the total within half a minor unit per
line of the exact price, and, if prices and quantities are not negative and rates at
most 100 %, a discount of at most the subtotal and never a negative total.
The last two speak of sums over any number of lines, which takes induction. The
library's induction theorems have a predicate as their parameter, which no
prover here can instantiate; `Induction` has the set of the numbers for which a
statement holds instead. It follows from `LeastNumber`, and that from the library's
theorem that the proper subset relation is well-founded on finite sets, applied to the
intervals `0 .. n`. `SumOf` is a recursive function over the lines, as `reduce` is, so
`SumOfRuns` can say that it ends in the last of the running totals, and the lemmas about
running totals do the rest. `LeastNumber` also shows that the tier which the sort and
`find` choose exists and is the highest one reached (`TierIsHighest`).

`UnitOfWorkProofs` (`WorkAssumption`): `TypeCorrect`, `Invariance`,
`WritesCarryTheirEvents`, `MessagesAreUnique`, `AnswersAreTrue`, `WorkIsAtomic`. The
invariant says that a transaction that wrote is the only one on its document and has
read its latest version (`WritersAreCurrent`), that a call's write is absent
before the commit and has the announced place after it (`WrittenByCommit`), and that
the messages about to be committed are nobody else's (`MessagesAreFresh`). So the
commit is the step in which `AtomicWork` lets the call happen, and every other
step is an answer or a stutter.

`RelayProofs`, from the module's assumptions: `TypeCorrect`, `Invariance`,
`NothingMarkedUnsent`, `LeasesExclude`, `SentTwiceForAReason`. That no two workers
hold one row is not inductive: a claim looks at the lease and at nothing else. While
nobody overran, each row of a batch still carries the very lease its worker took
(`LeasesAreHeld`), hence nobody else finds it claimable; and without faults every channel
is open and a row the broker has is published or about to be marked (`SentOnce`).

`InboxProofs` (`InboxAssumption`): `TypeCorrect`, `Invariance`, `WorkIsRecorded`,
`NothingIsLost`, `OneEffectPerLiveLease`. `OneClaimant` is the strengthening: as long
as no claim on a message ran out, its record is live, nobody is reclaiming it, and who
works on it is alone and the first. `NothingIsLost` counts the dead-letter queue as a
place, for any delivery limit.

`PipelineProofs` (the assumptions of both parts, `PipelineAssumption`): `Invariance`,
`NothingPublishedIsLost`, `HandledOnceEndToEnd`, `DeliverySafety`. It instantiates the
two modules above and uses their lemmas: the relay's invariant holds because the relay
never looks at the queue, the consumer's because it promises the same whatever the
queue holds (`RelayStep`, `ConsumerStep`). Two facts tie them together: what the
broker accepted is in good hands (`SentIsInGoodHands`), and what the consumer ever
touched was committed (`OnlyCommittedIsTouched`). With `PublishedWasAccepted` the first
gives `PublishedIsInGoodHands`; with `OneClaimant` the second makes every step of the
pipeline a step of `EventDelivery` or a stutter (`Simulation`). So the safety part of
`ImplementsDelivery` holds for any number of events, workers, handlers and faults.

`OrderProofs` (`OrderAssumption`): `TypeCorrect`, `Invariance`, `OneReservationWins`,
`HoldsAreEarned`, `SearchIsNeverStale`, `EventsAreComplete`, `RefusalsAreAccurate`. A request about to commit holds the document, and the document is
still what its filter matched (`WriterHolds`); a won version is gone
(`WonVersionIsGone`); a copy is no newer than its order, and while the version is the
one loaded its pending events lead from the order's status to the copy's
(`CopiesFollow`). `HoldsAreEarned` rests on `StatusIsVersioned`: no step changes a hold
or a status under one version, except that a save may wipe the hold.

`AccessProofs` (the assumptions of `Tenancy`, `Identity`, `TenantScope`, `Access`):
`TypeCorrect`, `Invariance`, `EmailsAreUnique`, `TokensAreGenuine`, `TenantsStayApart`,
`TheDisabledStayOut`. What a login found is a copy of the one account of its
email, up to its status (`LoginsAreSound`), a context is that of the token its
request carries, and what is awaited is restricted to it (`ContextsAreSound`); so
what a request has seen is its own (`SeenIsOwn`). The last theorem is temporal: a
login of a disabled account that is still to look it up is barred, and `BarredStays`
that no step changes that.

Only model-checked: liveness, which TLAPS does not cover. That is `EveryRowIsPublished`,
`EveryMessageIsSettled`, and the fairness of `EventDelivery` in `ImplementsDelivery`,
whose initial states and steps are proved. Every other property of a passing run is
stated by a theorem.

## 5. Not modelled

Refunds (declared by `PspGateway`, called by nothing), the hold's expiry (stored,
read by nothing), `effectiveFrom` and `effectiveTo` of a price book (likewise),
doubles, the text of names and searches, hashing, signing, expiry and verification
of tokens, roles, JWKS, configuration, the API pages, connections (but for a channel
that closes), the delays of the retry ladder, the replay of parked messages, start-up, and
the services that exist only in `docs/`. The 30-day purge of inbox records is left
out: a message redelivered after it would be handled again. Ids, dates, card
details and message texts are abstracted.

## 6. Plan

What the repository holds of concurrent state is modelled. Next, as it grows:

1. The checkout saga, once the orchestrator exists: `OrderReservation`, `Quote` and
   `Payment` composed, with the reaper and the reconciliation job as fair actions.
2. A search module with words as values, when search gets its promised matching.
3. Proofs: what today stays with TLC is liveness alone; a prover for fairness could
   start from the invariants of `RelayProofs`, `InboxProofs` and `PipelineProofs`.
