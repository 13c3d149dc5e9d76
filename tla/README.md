# A TLA+ verification project for the commerce engine

The repository is a large Go monolith (硕米智能引擎): product sourcing, image
generation, listing to marketplaces, and around them organizations, stores, and
several ledgers that say who may spend what. This project models the part where
a mistake costs money and where tests reach least: **what is held, charged and
given back when work is done by processes that crash, retry, overlap and talk to
several databases, an object store and a provider at once.**

Paths below are relative to `src/`.

## 1. Inventory

### Parts and their state

| Part | Code | State | Operations that change it |
|---|---|---|---|
| Consumer charge ledger | `internal/integration/orgresource/{consumer_charge,member_allocation,purchase}_repository.go`, `debt.go`, `transaction.go` | bucket (available, allocated, reserved, consumed), debt, member positions with versions, operation rows, source claims, reservations | purchased grant, debt, allocate, reclaim, reserve, settle |
| Consumer charge recovery | `internal/ledger/orgresource/consumer_charge.go`, `startCommercialRecoveryLoop` in `internal/app/httpapi/current_application.go` | reservations with next check time, a pass's batch | `ClaimDue`, `Reconcile`, `RecoverDue` |
| Store service | `internal/storecenter/service_charge.go`, `internal/app/storecenter/service_charges.go` | store row with version and service dates, assignments, connection, one operation row per charge | admit, reserve, bind, apply, fence, reconcile; assignment, connection and store changes meanwhile |
| AI point ledger | `internal/integration/orgresource/{model_invocation,image_generation,member_limit,trial_grant}_repository.go`, `internal/aicapability/model_point_pricing.go` | bucket, debt, monthly limits and counters, holds, reserve and finalize operation rows | grants, set limit, reserve (two kinds), finalize by usage, by success, by a no-effect proof, close before reserve |
| Model invocation | `internal/integration/aicapability/einomodel/{executor,component}.go`, `internal/aicapability/store/gorm_invocation_recorder.go`, `RecoverDue` of the model invocation repository | invocation row, the request that holds its claim, reservations with next check time | claim, reserve, send, record, settle, recovery pass |
| Image generation | `internal/imageagent/generation_*.go`, `store/generation_*.go` | generation fact, no-generation event, provider phase | reconcile, prepare, reserve, bind, begin dispatch, post, observe, reject, mark unknown, finalize, bind settlement |
| Image slot effects (V3) | `internal/imageagent/effectpolicy/`, `store/slot_effect_v3_gorm.go`, `temporal/activities_*_v3.go`, `objectstore/durable.go` | effect row with 12 phases, usage budget of the run, recovery bundle, staged and published objects, publication lease and fence | claim, settle, mark unknown, not dispatched, preserve, prepare, stage, claim publication, renew, copy, complete, block, restore, recover |
| Money wallet | `internal/integration/persistence/money/` | balances (available, reserved, debt), posted top-ups, reversals with their effect, refund holds and admissions, purchase reservations | post a top-up with known reversals, accept a reversal, prepare, admit and release a refund hold, reserve, commit and release a purchase |
| Top-up orders | `internal/commercial/billing/topup_service.go`, `internal/integration/persistence/commercialbilling/topup_repository.go`, `internal/integration/wallettopup/` | attempt row with version, phase and lease, inbox of observations, order row | checkout, notification, cancellation, every step of `ReconcileTopUpOrder` |
| Top-up refunds | same files | refund intent row with lease, provider request | `ApproveTopUpRefund`, every step of `reconcileTopUpRefund` |
| Resource and storage purchases | `internal/commercial/billing/{service,storage_purchase,resource_recovery}.go` | order row, money reservation, resource grant or storage lot, cursor of the loop | create, reserve, prepare, grant, commit, release, activate, recover |
| Storage capacity | `internal/integration/persistence/storagecapacity/repository.go`, `internal/ledger/storagecapacity/meter.go`, `internal/ecoservices/files.go`, `internal/app/productsourcing/source_media.go`, `internal/imageagent/{storage_capacity,generation_execution}.go`, `internal/imageagent/objectstore/durable.go` | account, lots, write reservations with bindings, bucket | reserve, bind, dispatch, confirm, abort, close, activate and expire a lot; the writers' requests and uploads |
| Everything else | see `PROJECT.json`, "components", and section 6 | | |

### How they interact

```
 payer ── provider (Alipay, WeChat Pay)
              |  notices, queries, refunds
              v
   top-up orders, top-up refunds ──> money wallet <── purchases ──> storage capacity lots
                                                        |                     ^
                                          grant         |                     | bytes
            Temporal attempts             v             v                     |
             |            |        consumer charge ledger             uploads, generated
             v            v               ^        ^                  images, published copies
     slot effect ── image generation      |        | proof                    ^
             |       |      |       store service  recovery loop              |
             |       |      v       (other database)                          |
             |       |   AI point ledger                                      |
             |       └── image provider                                       |
             └── bundle, staging, publication ── object store ────────────────┘
```

* The ledger and the owner of a charge live in **different databases**. The owner
  writes an intent first, the ledger opens a reservation for it, the owner decides
  and keeps an immutable proof, and a recovery loop settles from the proof.
* An image generation and a text model call are **paid for before they are sent**, sent at most
  once, and finalized from a durable fact in another database. Temporal may run a second attempt while a timed
  out one still works.
* A slot's result is **published once**: several attempts may stage and copy, a
  lease with a fencing number decides which one completes.
* A top-up is credited from **verified observations** in an inbox; whoever writes the
  attempt row does so by compare-and-swap on its version, under a lease that may run out.
* A purchase walks through **three databases** (order, wallet, resource or lot) and is
  finished by the request or by a paging recovery loop.
* Bytes are **reserved before they are written** to a bucket that takes no part in any
  transaction.

### What is hard about it

Lost answers of committed transactions; values read before a transaction and used
in it; a second attempt, a recovery and an owner's redrive on the same row; a
provider that generates, pays or refunds after everybody gave up; a month that ends
between hold and settlement; debt that takes part of a refund; a chargeback of a payment
whose refund is held; int64 at its limit; rows nobody can finish that fill every recovery
batch; an upload that lands late. `PROJECT.json` lists each hazard at
the line where it bites, with the property that covers it or the reason there is none.

## 2. Modules

```
ResourceCredit ── ConsumerLedger ── ChargeRecovery      (ConsumerChargeProofs)
       |                 └───────── StoreService        implements ChargeRecovery's owner  (StoreServiceProofs)
       └ AIPointLedger ─┬─ ImageGeneration              implements PaidEffect  (PaidEffectProofs)
   ModelPointTariff ┘   └─ ModelInvocation              implements PaidEffect  (PaidEffectProofs)
                                                        (AIPointLedgerProofs)
SlotEffect                                              (SlotEffectProofs)
Wallet ──┬── TopUpOrder                                 (WalletProofs, Wallet and
         ├── TopUpRefund                                 TopUpRefund)
         └── PurchaseOrder
StorageCapacity                                         (StorageCapacityProofs)
RowSums, used wherever books are summed                 (RowSumsProofs)
```

| Module | Models | How |
|---|---|---|
| `ResourceCredit` | `applyPositiveCredit` and int64 columns | net credit after debt, what fits in int64 |
| `RowSums` | SQL sums over rows | a sum over a column, given as a function, and a set of rows |
| `ConsumerLedger` | the consumer charge ledger | one bucket; each SERIALIZABLE transaction is one action, callers unconstrained |
| `ChargeRecovery` | `ConsumerChargeService` | adds an abstract owner (`proof`), the `next_check_at` order (`schedule`, `due`), batches, the read of a proof as a step before `Settle` |
| `StoreService` | the store side | extends the ledger; a request walks through the transactions and may stop after any; roles are answers of an external service |
| `ModelPointTariff` | `ModelPointTariff.Points` | scaled arithmetic, rounded up |
| `AIPointLedger` | holds of model calls and images | points, limits, months, operation rows |
| `ModelInvocation` | a text call from claim to settlement, and `RecoverDue` | extends the point ledger; one job per call (the request that holds the claim), a provider that may answer late, the `next_check_at` order of the recovery pass; `demand` chooses which attempts are asked for |
| `PaidEffect` | nothing; the promise | hold before the effect, charge only for it, refund only without it |
| `ImageGeneration` | one image per effect row | extends the point ledger; worker program counters, lost answers of every transaction, provider steps of its own |
| `SlotEffect` | the slot from claim to publication | attempts of four kinds (execute, recover, redrive, persist the block), object store, budget, lease clock; `plan` chooses the run's scope, its slots and attempts |
| `Wallet` | the money owner | its tables are one record `money`; each transaction is a function of it, so the order modules can call the owner inside a step of their own |
| `TopUpOrder` | one top-up order | customer, provider and two reconciling workers on one attempt row; `fresh` is the set of actors whose version is current |
| `TopUpRefund` | refunds of one payment | approver and worker per refund intent, a provider that acts late or never |
| `PurchaseOrder` | orders paid from the wallet | buyer and recovery loop, each on its own copy of the row; pages and cursor of the loop |
| `StorageCapacity` | quota of one enterprise and three kinds of writers | callers step through reserve, bind, put, verify, confirm; `flight` holds uploads that may still land |

A transaction that rolls back, replays or conflicts changes nothing and is a
stuttering step. Where the code's **error path** matters (a lost commit answer), the
transaction has a second outcome that commits and continues as if it had failed:
`Transact` in `SlotEffect`, `PostFails` in `TopUpOrder`, `AdmitAnswerLost` in
`TopUpRefund`, and the corresponding disjuncts elsewhere.
A row written by compare-and-swap carries no version number in the models of billing:
a write or a newly recorded observation empties `fresh` of everybody else, and an actor
outside `fresh` fails its write as the code does. Versions stay bounded this way, however long the run.
Every definition that models code is mapped to its lines in `PROJECT.json`.

Notes on faithfulness:

* The suspended service status has no writer in the code, so `StoreService` has no action for it.
* Organization scope (generation facts, no reviewer) and the older tenant scope
  (reviewer, no facts) are two plans of `SlotEffect`, as no
  program combines a reviewer with generation facts. Under organization scope
  `GenerateSlot` without a quote never reaches a provider; the executors refuse it.
* `SlotEffect` has one asset per slot (a manifest is one content). Every attempt is
  a publication owner of its own, as the owner string carries workflow, run,
  activity and attempt.
* `ImageGeneration`, `SlotEffect` and `StorageCapacity` look at one generation from three
  sides: the money, the content, the bytes. `proved` in `SlotEffect`
  is what the first one records as `provider_succeeded`; a step on a fact in
  `StorageCapacity` is atomic because `ImageGeneration` already opens it.
* `TopUpOrder`'s observations are what a verified notification or query says. The identity
  of an observation from a query is derived from its content, that of a notice is its own,
  so one fact may be in the inbox once by each way. What the two providers report of one trade
  differs, and the model has both: WeChat Pay answers `PAID_REFUND_UNKNOWN` for every trade with a
  refund, Alipay answers paid until all of it was refunded and also announces a closed trade. A
  cancellation may be repeated while the close is pending; each repetition counts against `MaxFaults`.
* A step of a `StorageCapacity` caller stands for the same step of all three kinds of writers: `FileService.Upload`,
  `SourceMedia.Upload` through `Meter`, and `GenerateQuotedSlot` with `FinalizeWithProgress`. `PROJECT.json` names
  one place per definition, so the map of `Reserve`, `Bind`, `Claim`, `Put`, `Verify` and `Confirm` is spread over these files.
* Versions of member positions are modelled for the fence of a transfer only. `Settle` also refuses a
  position whose version is the largest int64; `Settleable` does not speak of that case, which takes as many
  changes of one position.
* The resource owner of `PurchaseOrder` either grants or finally refuses (`Grantable`);
  what it does inside is `ConsumerLedger`.
* `GormReservationRepository` and `StoreServiceExecutor` are constructed by tests only, and
  `CreditSettledTopUp` and `ApplyTopUpReversal` have no caller outside tests; all are left out.

## 3. Runs

Every run is a `.cfg` on the component's `MC` module, which supplies constants and, for
`store_service`, the bound of the exploration.

| Run | Instance | Question | States |
|---|---|---|---|
| `charge_recovery` | 2 members, a charge of 2 periods from a member and one of 1 from the enterprise, 2 paid sources over 2 operation ids, 3 transfers at fresh and stale versions, debt, a loop with batches of 1 and a caller, one fault, weak fairness | Is value conserved, minted once, backed row by row and always settleable; does every settlement follow the owner's proof; is a proved charge settled although another stays unknown? | 260 thousand |
| `store_service` | one store, 2 charged commands of any kind that may be admitted at one version, 2 requests, 1 loop, one member, 2 connections, `MCBound` | Is every served period paid, no version of the store served twice, no revoked member served, and is the owner contract of `ChargeRecovery` implemented? | 458 thousand |
| `model_invocation` | one member; 2 model calls, or one and an image, 2 months, one of 2 limits, 2 grants, int64 limit 5, batches of 1, one fault, weak fairness | Is `PaidEffect` implemented, one request sent and billed as answered; are points backed, limits kept, holds finalizable, and is every recorded call settled although another one stays without an outcome? | 389 thousand |
| `image_generation` | one image, 2 overlapping attempts restarted without bound, 2 months | Is `PaidEffect` implemented, one request sent, no hold orphaned? | 239 thousand |
| `slot_effect` | 3 attempts on one slot of an organization's run, or 2 attempts on two slots of a personal run that share one unit of usage; 2 contents | One generation per slot, its usage held, books that add up, one content, rows never ahead of the objects, harmless stale holders, no dispatch after a block | 644 thousand |
| `slot_review_bypass` (violation) | tenant scope, 2 attempts | Is an output that review held back never published? No: finding 1 | |
| `wallet` | 2 payments, 2 refunds and a chargeback that exceed the first one, a refund of the second, 2 orders, int64 limit 5 | Is money conserved, does debt never coexist with spendable funds, is no posting that must happen ever refused? | 55 thousand |
| `topup_order` | one order, customer, 2 workers, a refund made outside, one fault, fairness | Is no observation forgotten, no paid order closed, every announced payment credited? | 562 thousand |
| `topup_hints` (violation) | one order, 1 worker, 2 refunds made outside, no fault | The same first property with two refunds. No: finding 2 | |
| `topup_refund` | 2 refunds of 2 units each of a payment of 3, another payment that may be posted too, approver and worker, one fault, fairness | Do intent, hold and provider agree, is no more asked back than was paid, is every decided refund finished? | 194 thousand |
| `purchase_order` | a resource order, one the owner refuses and a storage order over a wallet that pays for two; pages of 1, 2 faults, fairness | Is it paid exactly when delivered, is every decided order finished by the loop alone? | 336 thousand |
| `storage_capacity` | an attachment, a source image and a generation that do not all fit, a lot that comes and goes, 2 callers restarted without bound | Does the account equal its rows, is nothing admitted beyond the lots active at that moment, and is every stored or flying byte covered? | 284 thousand |

**Bounds and why they are enough.** Each bound is a named constant. Two members
separate a member's own position from another's; the two charges cover both ways of
funding. Small int64 limits (5 in `model_invocation` and `wallet`) put the overflow checks
within reach, which quantities of 1 to 4 then hit; where a property promises progress the limit is
above every sum (9 in `charge_recovery`), because a grant that does not fit is refused
for good, as in the code, or the property excepts the overflow (`RecordedIsSettled`). `model_invocation`
has one member, one limit change and no debt: that limits, conservation and closed operations hold for any number of members,
limit changes and debts is proved (section 5). `MCBound` explores `store_service` fully as long
as one command was asked for; with two it keeps the store row and the assignment as they are and lets two requests,
or one process that settles, be under way: the commands then compete for one version of the store, and
edits meanwhile are what the first half covers. Two requests or workers are
what a timed out attempt and its retry amount to; each may stop at any step, and the
workers of `ImageGeneration` and callers of `StorageCapacity` start again without bound. `SlotEffect` takes three
attempts on one slot, since a takeover by a third party (block, restore, late first attempt)
needs three; the budget needs a second slot to compete with. `MaxFaults` bounds
crashes, lost answers and overrun leases (one, or two where the loop and the request may
each fail), because after them a run must still be live.
`MaxMonth = 1` gives one turn of the month, which is what separates the month of a
hold from the current one. Two contents let a second download differ from the first.
Refunds of 2 and 2 against a payment of 3 need each other's holds to be refused, and
the other payment, where it is posted, keeps the balance from refusing them instead.
Symmetry (attempts, contents, callers) is used only where no liveness is checked.

**Deadlock** is checked where the system never has to stop: `image_generation`, `wallet`
(replays are steps that change nothing), `topup_refund`, `purchase_order`, `storage_capacity`. The finite
instances of the other runs come to rest once all requests are served or all attempts
have ended, so they do not check it.

**Fairness.** Each assumption is that of a loop or a wall clock in the code.

* `charge_recovery`: the clock advances, the loop claims, reads and settles, each weakly
  fair. `startCommercialRecoveryLoop` (`internal/app/httpapi/subscription_purchase_recovery.go` 14, called in `current_application.go` 1316)
  runs a pass at startup and every 30 seconds, and a pass works through its whole batch.
  Nothing is assumed of the owner.
* `model_invocation`: the same loop calls `RecoverDue` of the model calls: clock, claim of a batch and
  its rows are weakly fair. Nothing is assumed of requests or of the provider.
* `topup_order`: a worker that can take a step takes one (`ReconcileRecoverableTopUps`, started in
  `internal/app/httpapi/commercial_billing_module.go` 71), and leases run out. Nothing is
  assumed of customer, provider or notifications.
* `topup_refund`: a request once started ends, as its calls have timeouts; leases run out; the worker
  comes to each listed refund (strong fairness per refund, since it serves one at a time and
  the listing holds every open one). Nothing is assumed of approvals or of the provider.
* `purchase_order`: weak fairness of the recovery loop as a whole, which is one thread;
  none per order, so that starvation by the pages would show. None of requests.

No liveness is claimed of image facts: Temporal gives up after three attempts and no loop
revisits an unknown fact. Nor of model calls without a recorded outcome: `ResolveDispatchedInvocation` has no
caller under `src/`, so their hold stays. None of storage reservations either, which the code never expires.

**Mutants.** Each property of each passing run has a mutant in `PROJECT.json`: a plausible
mistake in one mapped definition (a dropped guard, a missed column, a fence that does not
move) under which the same run finds the property violated.

## 4. Findings

1. **A review that can be skipped** (`slot_review_bypass`). `ExecuteSlotV3` persists
   `staging_prepared` for an output that the reviewer held back and blocks the slot in a
   second transaction. If the worker dies in between, or another attempt runs, the next
   attempt finds an ordinary prepared slot and publishes it.
2. **A refund that is recorded and never read** (`topup_hints`).
   `ReconcileTopUpOrder` resolves refund hints in a loop that re-reads the attempt with its
   version after each provider query, but appends only the observation it queried. A notice
   recorded meanwhile is part of the version and of none of the observations, so the save
   that clears `NeedsReconcile` succeeds and the refund is not taken from the wallet, against
   `internal/integration/persistence/commercialbilling/topup_repository.go:261`. One refund is not enough
   for it; `topup_order`, with one, holds.

Observed while modelling, inside the models but without a run of its own:

* A request whose `Reserve` answers "insufficient" fences a store operation without a
  reservation while another request still reserves for it. The hold can be neither bound nor
  released (`internal/app/storecenter/service_charges.go:104`), against
  `docs/architecture/member-resource-allocation-v1.md:199`.
* Whether to generate with a quote is decided on a row read before the reservation
  (`internal/imageagent/temporal/activities_execution_v3.go:132`). If the holder releases it in between, the slot is
  staged without a receipt and its budget stays reserved, against
  `docs/superpowers/specs/2026-08-28-image-agent-budget-authorization-design.md:147`.
* `ReserveProvider` takes a released budget again in any phase (`effectpolicy/provider.go:51`), so a late attempt on a
  blocked row holds usage that nothing releases (`BudgetBacked` counts it).
* The second reconciliation of a fact without generation finds its write `ABORTED`, goes on to
  `CloseWrite` and is refused (`internal/imageagent/storage_capacity.go:46`), so every later attempt on that
  row fails at its first call.
* A grant that overflows the bucket is taken for a final refusal
  (`internal/integration/orgresource/debt.go:37`, `internal/commercial/billing/service.go:390`); the
  purchase is cancelled and its money given back.
* A request that dies after reserving bytes and is never repeated leaves them reserved;
  `docs/architecture/enterprise-storage-capacity-v1.md` accepts it.

## 5. Proofs

TLAPS checks the theorems below for every value of the constants that satisfies the named
assumptions, which TLC evaluates in the runs as well. They say that inputs have the types the code
validates (`MaxIntAssumption`, `TariffAssumption`, `LedgerAssumption`, `PointAssumption`,
`RecoveryAssumption`, `StoreAssumption`, `InvocationAssumption`, `QuoteAssumption`, `CapacityAssumption`, `WalletAssumption`, `RefundAssumption`), that the sets whose
rows are summed are finite, and that ids of different kinds differ (model calls and images; attachments,
source media and generations; `NoneAssumption`). No assumption bounds how many members, charges, calls, attempts, slots,
writers, months or faults there are.

**Sums.** `RowSums` defines a sum over rows, `RowSumsProofs` proves what the books need of it:
it exists and does not depend on the order (`SumRemove`), one changed row changes it by as much (`SumUpdate`),
rows outside a selection count as zero (`SumSelect`), a part is at most the whole (`SumPart`). The library's induction
over finite sets cannot be instantiated here, so each fact is proved by a smallest
counterexample (`MinimalSet`, strict inclusion being well founded).

**Consumer charges** (`ConsumerChargeProofs`). `CreditSplit` says what a credit splits into at any integer width.

* `TypeCorrect`: every column stays a non-negative int64; the guards of each action are what
  keeps its columns in range.
* `ValueConserved` (`Conservation`) and `DebtComesFirst` (`DebtFirst`): `ValueStep` shows under `TypeOK` that each
  action moves equal amounts; both follow by arithmetic.
* `BooksBalance` (`BooksBacked`) and `MintsOnce` (`MintedOnce`): per action, which row moves and by how much, then
  `SumUpdate`. Both are inductive with `TypeOK`.
* `AlwaysSettleable` (`Settleable`): needs in addition that no debt is owed that was not incurred (`DebtRecorded`),
  that all members' free shares add up to the allocated column, and conservation; then every column a settlement touches has room.
* `ReplaysAgree`, `SettlementIsFinal`, `PositionsAreVersioned`.
* `RecoveryIsLedger`: `ChargeRecovery` implements the ledger, so all of the above holds under it (`RecoveryKeepsBooks`).
  `SettlesAsProved` (`SettledAsProved`) needs `ReadingHolds`: what a process read of its first claimed charge
  is what the owner's row still says, because terminal proofs are immutable.

**Store service** (`StoreServiceProofs`). A request decides on what it learned transactions ago, while other
requests carry the same operation, so no property is inductive alone. `StoreInv` says what a row allows (a bound row
has a reservation, a succeeded one names it: `RowFits`), what a request has learned where it stands (`Learned`, in `CallFits`:
at `ApplyServiceCharge` its row names a reservation), and which rows moved the service dates (`PeriodsFit`).
What was learned survives the others' steps because rows and reservations only move forward. From it:

* `RevokedStayUnserved` (`RevokedNeverServed`): the assignment is read again in the transaction that serves.
* `OwnerKeepsContract` (`OwnerContract`): each step of a request, of the store or of the ledger is a step of
  `ChargeRecovery` with the store's rows as its proofs, or a stutter.
* `OncePerVersion`: a command that succeeded was admitted at a version the store has left (`ServedOnce`), as serving
  it compares the version and advances it in one transaction; so no two commands succeed at one version.
* `PeriodsArePaid` (`PeriodsPaid`, which includes that) and `ServiceKeepsBooks`: `ConsumerChargeProofs` instantiated with those proofs
  (`Recovery`) carries `SettlesAsProved` and the ledger's theorems over the refinement.

**AI points** (`AIPointLedgerProofs`, and `PaidEffectProofs` for calls and images).

* `TariffBounds`: usage within the token maxima costs between one point and the points of the maxima, by
  monotonicity of product and rounded-up division; `PriceIsFair` follows.
* `PointTypeCorrect`, `PointsConserved`, `OperationsTellTruth`, `ClosedIsFinal`, `PastMonthsSettle`.
* `LimitHolds` (`WithinLimit`): the current month changes, so the strengthening `FutureUnused` (months to come
  have neither held nor consumed anything) is needed.
* `PointBooksBalance` (`PointsBacked`): bucket and each member's month are sums over holds (`ColumnsBacked`), with
  `OpenUnused`: an active hold has used nothing. `AlwaysFinalizable` (`Finalizable`) adds `DebtRecorded` and `TariffBounds`.
* `InvocationIsLedger`, `ImagesAreLedger`: model calls and image generations implement the point ledger, hence
  `InvocationKeepsBooks` and `ImagesKeepBooks`.
* `CallsBilledOnce` (`BilledOnce`), from `CallInv`: a request advances only while its row is dispatched, a row
  that says failed means nothing was sent, and the hold is closed only by the recorded outcome.
* `ImagesPostedOnce` (`OnePost`), `SettlementsFit` (`SettlementFits`), `NoHoldIsOrphaned` (`NoOrphanHold`), from `ImageInv`: what a fact says
  of provider and reservation (`FactTrue`, `FactPaid`), what an overlapping attempt still knows although others write the
  fact (`Claims`, `Knows`), and that at most one attempt is about to send (`OneSender`).
* `CallKeepsContract` (`CallContract`) and `ImagesKeepContract` (`PaidContract`): both implement `PaidEffect`; initial states map to
  initial states and each step to a step of the contract or a stutter.

**Slot effects** (`SlotEffectProofs`). `SlotInv` ties together phase and budget of a row (`RowFits`),
what the row says of the objects (`Evidence`, `Objects`), what each attempt holds at each of its steps
(`Carries`), and that an attempt at its dispatch has a claimed, held row for which nothing was generated yet. From it:
`GeneratesOnce`, `GenerationStaysHeld`, `BudgetBalances`, `ContentIsOne`, `EvidenceIsStored`, and the action
properties `StaleHolderStaysHarmless` and `StoppedStaysUndispatched`; that is every property of the run
`slot_effect`. None is inductive alone: `OneGeneration`, for instance, depends on what a second
attempt, which read the row some steps ago, may still do.

**Storage** (`StorageCapacityProofs`). `CapacityInv`: an open write holds its whole bound until its object is
confirmed, no write is closed over a bound object, and a caller at a step that relies on an answer
(`Knows`) is still right about the row. From it `CapacityBalances` (`CapacityKept`:
the books, and that a step which takes more bytes stays within the base quota and the lots active then, since a reservation
is the only such step) and `StoredStaysCovered` (`StoredIsCovered`).

**Wallet** (`WalletProofs`). `WalletInv` says of each balance which rows it sums (`BalancesFit`: top-ups posted,
principal taken back, open holds and reservations, money spent) and of each row what it allows (`RowsFit`: no more
principal taken from a payment than was posted, a receipt only
for a posted payment, a hold consumed only with a receipt). From it:

* `MoneyIsConserved` (`WalletConserved`) and `WalletStaysValid` (`WalletShape`).
* `SettlementsFindRoom` (`WalletSettles`): conservation bounds what a settlement can move by
  what was posted, and that fits in the column, so no commit or release is
  refused by an overflow check, and no reversal either until the provider's own amounts exceed the column.

Posting a payment with the reversals already known is a loop inside one transaction;
`Stages` is the wallet after each round, and the invariant is carried along it by a least failing round, as no
induction theorem can be instantiated.

**Refunds** (`WalletProofs`, on `TopUpRefund`). `RefundInv` has four parts: receipts, admissions and holds against
the provider's decisions (`Books`, with the open holds of the payment adding up to at most what was paid); only
admitted refunds were ever asked of the provider (`ProviderFits`); a finished intent is finished as its hold is
(`IntentsFit`); and what an actor read earlier still holds at the step that relies on it (`Relies`, in
`ActorsFit`): the admission before a call or a replay, the provider's decision before accepting or releasing,
the state of the hold before the outcome is saved. The last part survives the other actors' steps because
nothing decided is taken back (`Ahead`), and needs no lease: leases and versions are there for
progress and for the intent row, the money is safe without them. From it:

* `BooksAgree` (`RefundAgrees`) and `RequestsStayWithin` (`RefundsWithinPayment`), neither inductive alone: a lost admission
  leaves an actor at the undo step whose only safeguard is what the money owner knows.
* `RefundsKeepTheWallet`: the wallet's properties hold under the whole refund protocol.

Some theorems are not repeated by a run: the type theorems, `ReplaysAgree`, `SettlementIsFinal`,
`PositionsAreVersioned`, `PastMonthsSettle`, `OperationsTellTruth`, `PriceIsFair`, `TariffBounds`, `ClosedIsFinal`,
`SlotInvariant`, `WalletInvariant`, `RefundInvariant`, `RefundsKeepTheWallet`, `StoreInvariant`, `ServiceKeepsBooks` and the refinements of the ledgers.

**Only model-checked.** Liveness (`ProvedIsSettled`, `RecordedIsSettled`, `PaidIsCredited`, `RefundSettles`,
`PurchaseSettles`) is out of the prover's reach. `NothingForgotten` and `ClosedIsUnpaid` of top-up orders and `PurchaseAgrees`
are checked on the instances above and have no proof yet; every other safety property of a passing run has one.

## 6. Not modelled

`PROJECT.json` lists every part with its reason. The repository holds many subsystems that
share no state with each other; the models cover the ones where money, points, bytes
and paid effects meet, a small share of its lines. Left out, and why:

* **Product acquisition and data acquisition** as owners of consumer charges: covered through the
  abstract owner of `ChargeRecovery`, which `StoreService` is shown to implement and they are not.
* **Service purchases and subscriptions**: the lease, inbox and reservation patterns of
  `TopUpOrder` and `PurchaseOrder` over other rows.
* **Listing submission, batch capture, the image run workflow, the knowledge base**: subsystems of their own,
  each needing a model of its own.
* **Superseded repositories and operations** without a caller in a running program.
* **Read-only projections, transport, schema tools, user interface**: no state the properties speak of.
* Within `SlotEffect`: `ReviewStagedSlotV3` with its usage accounting, corrupt rows, and
  runs without budget authorization. Within `ModelInvocation`: usage beyond the token limits, which the
  executor treats as no answer. Within `AIPointLedger`: hosts share one clock, so that skew around the turn of
  a month is not seen.

## 7. Plan

Done in this order: the consumer ledger and its proofs, recovery, the store service as an
owner; the point ledger and its proofs, image generation and model calls against `PaidEffect`; slot effects;
the wallet, top-ups, refunds and purchases; storage capacity.

Next, along the same lines:

1. Proofs: `PurchaseAgrees` and the top-up orders over the wallet's lemmas.
2. `AcquisitionCharge` and `DataAcquisition`: two more owners that implement
   `ChargeRecovery`'s contract.
3. Staged reviews of `SlotEffect`; service purchases; listing submission with remote confirmation.
