# TLA+ models of the AR.IO bundler

The bundler accepts signed data items over HTTP, packs them into bundles, posts
each bundle as one Arweave transaction and follows it until it is permanent. It
is two services and an admin dashboard (`packages/`), built on PostgreSQL, an
object store, Redis, and BullMQ queues whose workers run the handlers of
`packages/upload-service/src/jobs/`. This directory holds the models of its
core, the TLC runs that check them, and the theorems TLAPS proves about them.

    tlc -workers 2 -config MCRedelivery.cfg MCBundlePipeline
    tlapm BundlePipelineProofs.tla

## 1. Inventory

| Part | State it keeps | Operations | Talks to |
|---|---|---|---|
| Upload route (`routes/dataItemPost.ts`) | in-flight cache entry, reservation, stored object | check, mark, pay, store, sign receipt, enqueue | payment service, cache, object store, `newDataItem` queue |
| Item tables (`arch/db/postgres.ts`) | `new_data_item`, `planned_data_item`, `permanent_data_items`, `failed_data_item` | insert, move, promote, repack, dead-letter | every pipeline handler |
| Bundle tables | `bundle_plan`, `new_`, `posted_`, `seeded_`, `permanent_`, `failed_bundle`, `posted_bundle_redrive` | one move per stage | every pipeline handler |
| Handlers `plan`, `prepare`, `post`, `seed`, `verify`, `redrive-posted` | what an execution read and has not written yet | sections 3 and 4 | tables, store, gateways, queues |
| BullMQ (`arch/queues*`, `workers/`) | waiting, active and failed jobs with their attempts | enqueue, take, retry, redeliver a stalled job | handlers |
| BundlePacker (`bundles/bundlePacker.ts`) | the plans of one pass | first fit by bytes and count | `plan` |
| Multipart uploads (`routes/multiPartUploads.ts`) | in-flight and finished multipart rows | create, chunk, finalize, fail | object store, payment, queues |
| Chunk broadcast (`jobs/broadcast-chunks.ts`, `jobs/chunkBroadcastGate.ts`, `jobs/seed.ts`) | staged chunks, the gate's deadline in the job, a job per chunk | wait, stage, enqueue, broadcast, delete | distributor nodes, object store, queues |
| Optical, unbundle, offsets | caches and offset rows | best-effort posts | gateway |
| Archive copy and cleanup (`jobs/archive-copy.ts`, `jobs/cleanup-fs.ts`) | objects of two stores, copy jobs, the sweep's cursor | copy, compare sizes, delete, advance | object stores, `permanent_bundle` |
| Credit ledger (`payment-service/src/database/postgres.ts`) | users, reservations, receipts, gifts, approvals, overflow spends | reserve, refund, credit, charge back, approve, revoke, expire | upload service, Stripe |
| Card payments, gifts, disputes (`routes/stripe`) | quotes, receipts, chargebacks, gifts | receipt, refund, redeem, charge back | Stripe, the ledger |
| Pending crypto payments | `pending_`, `credited_`, `failed_payment_transaction` | watch, credit, fail | gateways of other chains, the ledger |
| ArNS purchases | quotes, receipts with a status, failed purchases, refund jobs | debit, write, mark, refund, reconcile | Solana, Stripe, the ledger |
| x402 payments (`payment-service/src/x402`, `routes/x402*`, `upload-service/src/arch/x402Service.ts`) | payment and reservation rows of the payment service, payments of raw items of the upload service | verify, settle, record, reserve, credit, finalize | facilitators, the ledger, the upload route |
| Pricing, admin service, migrations, deployment | rates; none; none | - | - |

How they interact: handlers share the tables, and hand each other a plan id over
the queues (`plan` -> `prepare` -> `post` -> `seed` -> `verify`). `redrive-posted`
and `plan` are started by schedulers in the worker process. No scheduler starts
`verify`: `seed` enqueues one run five minutes ahead, and the operations runbook
has the operator install `scripts/trigger-verify.sh` as a cron.

What is hard here:

* every handler is a sequence of separate transactions, store writes, network
  calls and enqueues; it can stop between any two and is run again, up to three
  times, from its start;
* BullMQ hands a job whose lock expired to a second worker while the first
  execution goes on, so each handler can overlap itself;
* a broadcast can succeed without its answer arriving, and gateways can deny or
  fail to find a transaction the network has;
* items are moved by ids read earlier, from a reader pool that may be a replica;
* a refund reads a reservation and approvals without a lock and writes what it worked out;
* repacking and the move of the bundle row are separate steps in three handlers;
* an upload is marked, stored, paid for and queued in four services, each of which
  can fail, and what each failure undoes can fail too;
* two uploads of one item share its reservation, and either may refund it;
* a multipart upload is finalized by requests and by a job, each of which goes on
  where the last one died;
* the webhook, the request, the durable job and the cron job that settle one
  payment overlap, and the money or the name is out of the service's hands;
* a bundle's chunks are staged and broadcast by jobs of their own, which share their bytes
  when a bundle is seeded twice, and nobody waits for them;
* planning has to leave light plans behind and still send every item in time.

What makes each part correct: no accepted item is lost (tables), a plan is in
one bundle table (tables), "permanent" means on chain (verify), nothing waits for
a bundle nobody works on (verify, repacking), nothing is bundled twice while its
first transaction is on the network (post, verify, redrive), plans keep the
limits and every overdue item leaves (planner), every item is settled in the end
(all of them); an upload is charged for once and refunded at most once (route,
ledger), wallets and approvals together neither make nor lose credit (ledger), a
multipart upload is assembled in order and its finalization resumed (multipart),
a payment ends as credits, as money back or with an operator, never as two of them
(payments), a name is bought or refunded (ArNS), an authorization buys one thing and
gives no more credits than it paid (x402), cleanup deletes no last copy and
leaves nothing behind (archive), a seeded bundle's chunks are with a node or their bytes are
kept, and the gate holds no bundle for good (chunks).

## 2. Modules

| Module | Models | Notes |
|---|---|---|
| `Delivery` | what the service promises of items and bundles | abstract; five variables |
| `BundlePipeline` | item tables, bundle tables, queues and all pipeline handlers | the core |
| `BundlePromise` | what the pipeline's tables say in the terms of `Delivery`: the refinement mapping | extends `BundlePipeline` |
| `MCBundlePipeline` | TLC instances of both | |
| `BundlePipelineProofs` | proofs of `TypeOK`, `NoItemLost`, `OneBundleTable`, `NoStrandedItems` and `OneItemTable` | TLAPS |
| `DeliveryProofs` | proofs of `PermanentOnChain` and of `ImplementsDelivery` | TLAPS; extends `BundlePipelineProofs` and `BundlePromise` |
| `Planning`, `MCPlanning` | the plan handler and BundlePacker | refines the choice `PlanStart` leaves open |
| `PlanningProofs` | proofs of `PlansFit`, `FirstFit`, `Partition` | TLAPS; extends `SumTheorems` |
| `Ingest` | a data item posted: in-flight mark, reservation, object, receipt, job, and what each failure undoes | no specification of its own |
| `Multipart`, `MCMultipart` | uploads in parts, and their composition with `Ingest` | extends `Ingest`: both share items, reservations, stores, quarantine and request slots |
| `UploadsProofs` | proofs of `NoFreeCredit` and `AssembledInOrder`, of the composition | TLAPS; extends `SumTheorems` |
| `Ledger` | what the credit ledger promises of credits | abstract; three variables |
| `CreditLedger`, `MCCreditLedger` | balances, approvals, reservations, refunds and trims | implements `Ledger` |
| `CreditLedgerProofs` | proofs of `TypeOK`, `UsedIsReserved`, `OneReservation`, `NoFreeCredit` and of `ImplementsLedger` | TLAPS; extends `SumTheorems` |
| `SumTheorems` | facts about sums over finite sets | TLAPS |
| `Payments` | card payments, gifts, disputes, transactions of other chains | |
| `ArNSPurchases` | names bought with credits or by card | extends `Payments`: Stripe's webhook and its refund serve both |
| `X402`, `MCPayments` | payments by x402, of both services; the instances of all three | extends `ArNSPurchases`: one database, one set of handlers |
| `PaymentsProofs` | proofs of `TypeOK`, `OneOutcome` and `NotBothWays` of `Payments`, of `NameOrCredits`, of `OnePurchase`, `CreditsWithinPayment` and of `X402TypeOK`, of the whole composition | TLAPS |
| `Archive` | archive copies and the clean-up of the bundler's store | |
| `ChunkSeeding` | the chunk gate, staging, chunk jobs | the seed step of `BundlePipeline` in detail |
| `MCStores` | TLC instances of `Archive` and `ChunkSeeding` | `about` says which of the two a behaviour is of |
| `StoresProofs` | proofs of `ChunksKept`, `GivenUpUnconfirmed` of `ChunkSeeding`, and of `TypeOK`, `NeverTheLastCopy`, `NothingLeftBehind` of `Archive` | TLAPS |

How they compose: `Ingest` ends where `BundlePipeline`'s `Upload` begins, with a
job on `newDataItem` for an item whose object is stored; what it takes for the
payment service (`Reserve`, `GiveBack`) is `CreditLedger`'s reservation and refund
of one item seen from outside. `Archive`'s `prepareBundleHandler` and
`updateBundleAsPermanent` are the pipeline as far as it writes objects. `ChunkSeeding` is
what happens before `BundlePipeline`'s `SeedInsert`, which leaves the time it takes open,
with the re-drive beside it; its bundles are posted already.

## 3. BundlePipeline and the code

State: `newItem`, `planned`, `permanent`, `failed` are the item tables (rows
carry which upload they stem from, the number of failed bundles, and the plan or
bundle); `bundlePlan` and `bundles` the bundle tables; `redrives` the counters of
`posted_bundle_redrive`; `payload` the bundle payload stored under each plan id;
`content` what a signed transaction really holds; `chain` what the network knows
of it; `jobs` the waiting jobs. `run[w]` is what the execution on worker `w` remembers
between two steps. Two variables are history and no state of the code: `spent`, the items of
which a newDataItem job failed for the last time, and `shown`, the rows `planned_data_item`
ever had.

| Handler | Actions |
|---|---|
| upload route, `newDataItem` | `Upload`, `UploadRefused`, `IngestRead`, `IngestInsert` |
| `plan` | `PlanStart`, `PlanMove`, `PlanFails`, `PlanEnqueue` |
| `prepare` | `PrepareStart`, `PrepareStore`, `PrepareMissing`, `PrepareSign`, `PrepareLoses`, `PrepareEnqueue` |
| `post` | `PostStart`, `PostBroadcast`, `PostStatusSeen`, `PostStatusNotSeen`, `PostRecord`, `PostEnqueue`, `PostCatches`, then `RepackHeld`, `Demote` |
| `seed` | `SeedStart`, `SeedInsert`, `SeedEnqueue` |
| `verify` | `VerifyStart`, `VerifyDrop`, `VerifyConfirmed`, `VerifySkip`, `VerifyPromote`, `VerifyPromoteSome`, `VerifyFinalize`, `RepackHeld`, `Demote` |
| `redrive-posted` | `RedriveStart`, `RedriveSeed`, `RedriveDemote`, `RepackHeld`, `Demote` |
| failures | `HandlerFails` (throws or dies), `Stall` (redelivery), `RepackFails` |
| network, operator | `Mine`, `Confirm`, `Deepen`, `Expire`, `Reorg`; `VerifyTick` |

Decisions a reader should know of:

* An action is one transaction, store write, network call or enqueue with the
  local reads before it. `PrepareSign` also reads the payload back and moves the
  plan's row: between signing and that move the only thing another execution can
  do is overwrite the payload, which commutes with the move.
* `PlanStart` inserts the `bundle_plan` row with the read. One execution makes one
  plan; the handler's further plans are further executions.
* `Again` is BullMQ's attempts: a rejected job waits again with one attempt less. One that
  has none left is listed as failed for seven days, or until 5000 jobs of its queue have
  failed after it (`removeOnFail`, queues/config.ts:53-56), and no worker takes it up again;
  so the model has it nowhere, and `NoItemLost` names the items it may lose (`spent`, which
  `Exhausted` adds to). Two waiting jobs that agree in everything are
  one element of `jobs`; their handlers do the same from the same state.
* `PrepareMissing` puts the job back instead of recursing: the recursion is the
  handler from its start with the same attempt.
* A batch of `PlanMove` or `RepackHeld` is any non-empty subset of what is left,
  which includes every split into hundreds.
* `VerifyPromoteSome` stands for every way a promotion pass ends with some items
  promoted and the bundle left: an unexpected error (the run rejects in the
  end) or rows with an invalid deadline (it does not). A pass does not combine
  it with the repacking of items missing from the header; that is a later pass.
* Where the query builder decides what an insert of no row does
  (`insertSeededBundle`), or whether a DELETE takes the lock clause
  (`insertBundlePlan`), both outcomes are possible.
* `chain`: `expired` is a transaction whose anchor is more than
  `dropBundleTxThresholdNumberOfBlocks` behind; the network does not mine it.
  A confirmed (`final`) transaction is not reorganized away. `GatewayMayMiss`
  lets a gateway deny what the network has.
* `GatewayMayMiss`, `ReplicaLag`, `MultiProcess`, `MayRefuse`, `VerifyCron`, `VerifyOverlaps`
  are facts of a deployment, and CONSTANTS so that each run says what it assumes.
  `VerifyOverlaps` is `VERIFY_WORKER_CONCURRENCY` above 1, which it is by default.
* With `ReplicaLag` a read through the reader pool may miss rows there are and show rows
  there were: `ReadPlanned` returns any of the items ever planned for the plan,
  `PrepareStart` may find a plan or a bundle that moved on, or miss one there is. What
  is assumed of a replica is that it does not go back in time: what it shows was there
  once, and an item it shows for a newDataItem job is one that is there, or that has failed
  since.
* The duplicate check looks back 30 days (postgres.ts:181), which is all the time a
  behaviour has.

* `BundlePromise` maps the tables to `Delivery`. An item with a permanent row is permanent
  whatever other rows it has. `Settle` lets an item that was given up turn permanent: of
  two newDataItem jobs of one item the second may have looked before the first one's row
  was given up, and inserts it again.

Bounds, all of them on the environment and named in the module: `MaxUploads`,
`MaxFaults`, `MaxStalls`, `MaxSweeps`. Plans and bundles are finite sets of ids
never used twice, so a run ends when they are used up.

## 4. Planning and the code

`order`, `aged` and `fresh` are `new_data_item` by `uploaded_date`; `todo`
and `plans` a pass of the handler's loop; `sent` the plans inserted. `Read` is
`getNewDataItems` with its LIMIT, `Pack` one turn of
`packDataItemsIntoBundlePlans`, `Factor` the split of the loop's middle, `Send`
one of the inserts, `EndPass` the next turn of the loop. `insertBundlePlan` plans what the
DELETE finds of the items it was given, which may be none.

When an insert fails, `Promise.all` rejects and the handler is through, but the inserts
queued behind it go on: `FailSend` moves their plans to `adrift`, from where `SendAdrift`
takes them, in any order and as late as it likes, beside the next run of the handler and what
that read. `Fail` is a failure before anything is inserted.

Any four of six items arrive, in every order, of the sizes 1, 1, 2, 3, 5, 7 against 4 bytes
per bundle, 6 per item, two items per plan and a window of three: two of the first three
items are stopped by the count, 3 beside 2 by the bytes with one item in the plan, 5 and 7 are
over a bundle's and an item's size, and one item is stopped by its feature type alone.

## 5. Ingest, Multipart and the code

`run[r]` is what a request, or a job, still has to do: a sequence of calls, of which
each step makes the first. So the order in which an error path removes the mark,
refunds and quarantines is the order of the code's, and a crash (`Crash`) drops the
rest. `Requests` are slots and interchangeable.

| Code | Actions |
|---|---|
| `dataItemRoute` | `dataItemRoute`, `dataItemIsInFlight`, `getExistingDataItemIds`, `markInFlight`, `checkBalanceForData`, `cacheDataItem`, `reserveBalanceForData`, `createDelegatedPaymentApproval`, `signReceipt`, `enqueueNewDataItem` |
| undoing | `refundBalanceForData` (with its durable job), `removeFromInFlight`, `performQuarantine`, `quarantineDataItem` |
| workers, clock | `newDataItemWorker`, `refundBalanceWorker`, `Expire`, `Crash` |
| `createMultiPartUpload`, `postDataItemChunk` | the same names; `Taken`, `Raises`, `Raised` are the chunk size a process takes the upload to have and how it is raised |
| `finalizeMultipartUpload` and what it calls | `finalizeMultipartUploadWithHttpRequest`, `finalizeUploadWorker`, `finalizeMultipartUpload`, `finalizeMPUWithInFlightEntity`, `enqueueFinalizeUpload`, `validateMultipartUpload`, `finalizeMultiPartUpload`, `finalizeMPUWithValidatedInfo`, `reserveForMultipart`, `approveForMultipart`, `failFinishedMultiPartUpload`, `insertNewDataItem` |

Decisions:

* `Faults` is the set of things that may go wrong, `MaxFaults` how often, and
  `happened` which of them did: each property names the faults it is not about, so
  that one run has them all. `overlap` is a finalization beside another request of
  the item, or a request before a quarantine ended; two overlapping posts are no
  fault, the mark is for them.
* `copies` are the chunk sizes in the copies of the upload's row that processes
  keep; a chunk is handled with any of them, or with the row's where a process
  has none.
* A refund that fails is queued, and one that cannot be queued either is dropped, as the code
  does after logging "MANUAL INTERVENTION may be required" (payment.ts:629-641); the queued
  job ends after 50 attempts (queues.ts:110). Both are the fault `dropped refund`.
* An item may say by its tags that it is a bundle and not be readable as one (`bad bundle`).
  The route reads it after the reservation, outside any `try` (dataItemPost.ts:1050-1059),
  so the request ends there and nothing is undone.
* Every item has a price. `paid` counts charges less refunds, which may fall below
  zero: `refundBalance` pays whether or not there is a reservation.
* `NotAmongChunks` keeps an item from being posted whole among its chunks; before
  all of them and after, what the two share is what a finalization finds.
* The client cuts an item into chunks of one size and a last one that is no larger
  (`MultipartAssumption`); the part numbers of the code rest on that.
* An item has one multipart upload. `failInflightMultiPartUpload` and
  `failFinishedMultiPartUpload` also delete expired rows; that is left out.

## 6. CreditLedger and the code

`balance`, `approval` (rows of the active and the inactive table, with what was
used, and whether their time is over), `reservations` (with their overflow
spend), `reserving` (a `reserveBalance` between its lookup and the rest), `refunding` (what a
`refundBalance` has read) and `trim` (a `trimExpiredApprovals` between its statements).
`atomicCreditUser`, `createDelegatedPaymentApproval` and `revokeDelegatedPaymentApprovals`
are database transactions that lock what they change: one step each. `reserveBalance` and
`ReserveCommit` are one transaction in two steps, since nothing locks a row that is not there;
the unique index on reservations decides, and the rest locks the signer and the approvals.

A refund locks nothing it reads. `refundBalance` reads the reservation (postgres.ts:926-934),
`RefundApprovals` the approvals of its payers (2635-2643, 1770-1775), and `RefundCommit` writes
what was worked out from them, `used_winc_amount` as an absolute number; `RefundFails` is a
statement that fails, and rolls back. Others may commit between any two of these. `amiss`
counts, for each payer and signer, the refunds that wrote over approvals that were no longer
as read, or paid for a reservation that was no longer there. What the properties say ends
with those; what the code does then is in section 10.

The trim runs outside every transaction, also when a refund's read starts it: `TrimRead` or
`RefundApprovals`, then `TrimMove`, `TrimPay`.

`Shares` and `Draws` are `useBalanceAndApprovals`: the payers of the list in turn,
each as far as it goes, the approvals of a payer in any order the query returns
them (FEATURE_GUIDE.md:460 says oldest expiration first; the query that draws them
has no order). `refundWincFromOverflowSpend` goes through the active rows of a payer and
then the inactive ones, in any order the queries return them (`Orders`), until what was
spent has been found; `Found` is what it has found before a row, `Visited` the rows it gets
to, `GiveActive` and `GiveInactive` what it does with one.

`ApprovalsShared`, `TrimOverlaps` and `LapsedShared` say what a run lets
happen: a second approval of the same payer and user, others going on while expired
approvals are trimmed, and a refund after the end of an approval that paid for more than its
item. With any of the three `Ledger` is not implemented; `MCTrimTwice` shows the second,
section 10 has the others.

## 7. Payments, ArNSPurchases, X402 and the code

`rows[p]` are the tables with a row of the payment, `money[p]` where its money is,
`credited[p]` how often its credits were added, less clawbacks. A handler holds a
payment and the step it is at; every database transaction and every call to
Stripe, the gateway or the chain is a step. For a name, `status` is the receipt's
column, `landed` what the chain has, `antKnown` whether the receipt's row has the
ANT by which the reconciler recognizes the name, `jobs` the durable refund and
message-id jobs.

`Write` is the gateway's transaction: it lands, is refused, or lands while its
sender sees an error. `MaxTroubles` counts duplicate events, failed calls, wrong
answers and crashes. A card payment whose receipt cannot be made is looked up again before
it is refunded (`checkForExistingPaymentByTopUpQuoteId`, `getArNSPurchaseStatus`). The first of
these looks is made by the reader pool (postgres.ts:959) in a `catch` of a handler that
nobody awaits (stripeRoute.ts:97-110): a replica may not have the receipt yet, and then
the payment is refunded although it was credited; and where the look itself fails, neither
refund nor alert follows. `looks` remembers both (`Outdated`, `Unanswered`), and `NotBothWays`
and `NoMoneyKept` are about payments of which no look went wrong. A look that fails
because the database failed before it is the same trouble (`Still`). The look at a
name asks three pools with `Promise.any`, whose rejection is always an `AggregateError`
that the function takes for "no rows" (postgres.ts:2037-2067), so it does not throw: one that
fails refunds.
`updateArNSPurchaseQuoteToSuccess`, for a quote that expired meanwhile, waits for a
second transaction that waits for the row the first one deleted; the action ends in
a step with no successor.

In `X402` a payment is an authorization, and each request that carries it a handler:
`run[h].kind` tells a signed item of the upload service, a raw item, a top-up and a
hybrid payment apart. `Purchases` says which payments a run has.

| Code | Actions |
|---|---|
| `dataItemRoute`, `handleRawDataUpload`, `x402TopUpRoute`, `x402PaymentRoute` up to verification | `postSignedItem`, `rawDataUploadRoute`, `x402TopUpRoute`, `x402PaymentRoute` |
| the two services' `X402Service` | `verifyPayment`, `settlePayment`, `rawVerifyPayment`, `rawSettlePayment` |
| `createX402Payment`, `createX402PaymentReservation`, `adjustUserWinstonBalance` | the same names, in that order as the mode asks |
| answer to the upload service; `x402FinalizeRoute` | `verifyAndSettleX402Payment`; `x402FinalizeRoute` (the read), `finalizeX402Payment` (the transaction) |
| rest of an upload | `acceptSignedItem` (what `Ingest` has in detail); `insertX402Payment`, `storeRawDataItem` |

The transfer itself can be made once; a facilitator asked for it again refuses or
answers with the transaction there is, and one whose answer is lost leaves a
transfer nobody recorded. `given` counts credits in quarters of what was paid: a
top-up gives four, a hybrid payment two, a refund three. Whether fewer, as many or
more bytes came than were declared is chosen in `x402FinalizeRoute`.

## 8. Archive and the code

`bundler` and `archive` are the keys in the two stores, `jobs` the attempts left of
the copy job of each key, `copying` the copies written and not yet compared.
`archiveCopyHandler` and `copyKeyToArchive` are a copy job; `getCursor`, `fetchPage`,
`reclaimBundleFromBundler`, `ReclaimRaw`, `ReclaimBundle`, `Advance` and `setCursor` are
`runBundlerReclaimSweep`, a page at a time, with the position of the scan, the cursor
to keep and whether a hole stops it. The row at the scan's position may come
again, since the cursor loses the microseconds of `permanent_date`; with a page of
one row that would never end, hence `PageSize >= 2`.

The sweep deletes an object when the archive answers that it has one, whatever its
size. A copy that came out short is there until the copy job compares, so
`NeverTheLastCopy` excludes short copies (`shortened`); with one, a sweep in between
deletes the only whole copy. Two copy jobs of one key may overlap in the code and write
the same bytes; here a key has one at a time. How long the archive keeps what it has is
left to its operator: with the lifecycle rule docs/architecture/TWO_TIER_MINIO.md:35,143-147
recommends it expires after 90 days, the last copy included, and `NeverTheLastCopy` is about
the sweep and says nothing of that.

## 9. ChunkSeeding and the code

`row` is the table of each bundle (`seeded` for what follows too), `redrives` the counter of
`posted_bundle_redrive`, `tx` how far its transaction is known, `queue` the jobs of the queues
`seed-bundle` and `broadcast-chunks` and `spent` those that failed for the last time (which the
queue lists for a while and no worker takes up, as in section 3), `staged` the keys of chunks in the object
store, `taken` the chunks a node answered it took. `unconfirmed` are the bundles that went
past the gate without a confirmation: the gate is off, or its cap was reached.

| Code | Actions |
|---|---|
| `seedBundleHandler` up to the gate | `getNextBundleAndDataItemsToSeedByPlanId` |
| `decideChunkBroadcastGate` and what follows from it | `GateProceeds` (`GateOff`, `GateCapReached`, `GateConfirmed`), `GateRequeues` |
| `persistAndEnqueuePreparedChunks`, a chunk at a time | `putChunkIntoObjectStore`, `enqueueBroadcastChunks` |
| the rest of `seedBundleHandler`, a failure anywhere | `insertSeededBundle`, `SeedFails` |
| `broadcastChunkHandler` | `getChunkFromObjectStore`, `broadcastChunkToArioNode`, `deleteChunkFromObjectStore`, `BroadcastStalls` |
| `redrivePostedHandler`, the network | `redrivePostedHandler`, `Network` |

* Time is counted in polls: a job carries how many of them its deadline leaves, and any
  number may have gone by when it is looked at. A job that no gate has seen carries none.
* A status that cannot be had counts as not confirmed, so `GateRequeues` is possible
  whatever the transaction's state is.
* The nodes take a chunk whose data root they know, and reject it otherwise, all of them;
  an answer may be lost, or a node be away, which the job cannot tell from a rejection.
* The re-queued job is a new one with all its attempts; the execution that enqueued it may
  still throw and be tried again.

## 10. Runs

Passing (distinct states with the configuration's bounds):

| Run | Shows | States |
|---|---|---|
| `MCRedelivery` | one item end to end with one failing step, one job run twice at once, one re-drive sweep, overlapping schedulers, an upload that is refused, a gateway that misses: `OneBundleTable`, `PermanentOnChain`, `NoStrandedItems`, and `Delivery` implemented | 1.8 M |
| `MCReplica` | `NoItemLost`, `OneBundleTable` with a reader that lags: one item uploaded twice, one failing step, one job run twice at once, overlapping schedulers | 1.6 M |
| `MCPoison` | three items, one missing from the store, one refused by `permanent_data_items`, one failure, two attempts, verify runs one at a time, three plans and two bundles: `NoItemLost`, `OneItemTable`, `NoDuplicateData` | 902 k |
| `MCSettled` | `EventuallySettled` with a missing item and two sweeps, so that a bundle is seeded again and then demoted | 94 k |
| `MCPlanning` | `PlansFit`, `FirstFit`, `Partition`, `OverdueLeaves` for any four of six items in every order, with a failed run whose inserts go on, or a repacked plan | 672 k |
| `MCUploads` | `NoFreeCredit`, `AssembledInOrder`, `RejectedRefunded`, `ResumedUpload`: one item, whole and in four chunks, two requests at once, two requests per item, two faults of twelve kinds | 531 k |
| `MCLedger` | `OneReservation`, `UsedIsReserved`, and `Ledger` implemented: three users, two items of one signer, two approvals, two reserve requests and two refunds, two of these four at once; up to the first refund that went amiss | 259 k |
| `MCPayments` | `NotBothWays`, `OneOutcome`, `NoMoneyKept`, `PendingIsDecided`, `NameOrCredits`, `NamesSettled`, `NoMoneyKeptForNames`, `OnePurchase`, `CreditsWithinPayment`: a payment of each of five kinds, or two authorizations for one good in two requests; three handlers at once, one trouble | 17 k |
| `MCStores` | `NeverTheLastCopy`, `NothingLeftBehind`, `EverythingReclaimed`: two bundles, sweep after sweep, two faults (217 k); `ChunksKept`, `GivenUpUnconfirmed`, `SeededAnyway`: one bundle of two chunks, gate on and off, two seed workers, one thing going wrong (177 k) | 394 k |

Why the bounds are enough: a hazard of the pipeline needs one or two executions,
one failure between two of their steps, and a second plan and bundle for the
items to come back in; `MCPoison` has a third plan (`RetryLimit = 3` lets an item come back
twice), and three items tell the good one of a plan or of two apart from the missing one and
the refused one; `MCRedelivery` has one item, and what several items of a bundle
add, batches that are promoted or repacked in part, is in `MCPoison` and in the proofs. In
`MCReplica` the item is uploaded again, so that a stale read has two rows of it to confuse,
and `RetryLimit = 1` gives it up at once. One fault is one
choice among every step of every handler. Uploads of different items share
nothing but the wallet, which `CreditLedger` has, so `MCUploads` has one item; two
requests overlap, and the second of two faults falls into what the first one
left. Payments of Stripe and of other chains share nothing with each other, so
`MCPayments` has one, of each kind in turn. Two x402 payments share the good they
reserve, and two requests may carry one authorization: two of each, which gives a
good reserved already, a row of another payment found by its good, and an
authorization that comes twice to one service or to both. The ledger's approvals of 2 and prices
of 3 use one approval up and leave another partly used; two refunds, or a refund and a
reserve, are what it takes to write over each other, and behaviours are not followed beyond the
first refund that did (`Explored`), of which no property says anything but `UsedIsReserved`
of other users. A page of two rows and two bundles has a sweep with a full page, a
short one and a hole before a bundle that is done. Bundles share no chunks and no rows, so
`MCStores` seeds one: two chunks are staged one before the other, two attempts of a job are
a first and a last, one poll is a gate that waits and then has its cap reached, and two seed
runs overlap after a redelivery or a re-drive (which counts as the one trouble).

Safety runs use symmetry over plans, bundles and workers, over items when none is
singled out, and over approvals and callers; it is sound there and for the
refinements, whose formulas name no particular one, and is not used for liveness.

`CHECK_DEADLOCK FALSE` stands in every configuration: when the uploads, payments or
bundles of the bound are settled and no job is left, the service waits.

Refuted: each of these runs states what a comment or a document says and finds a
behaviour of the code against it.

| Run | Statement | What happens |
|---|---|---|
| `MCLandedRefunded` | dbTypes.ts:774-777 | a name bought by card has a receipt with the status `reserved`, so the reconciler gives its price away as credits, with nothing failing |
| `MCTrimTwice` | postgres.ts:1824-1836, postgres.int.test.ts:2386 | two readers of an expired approval each give the remainder back |
| `MCAcceptedUnpaid` | FEATURE_GUIDE.md:179-180 | the second of two finalizations finds the item inserted and refunds what the first one paid |

What the passing runs therefore assume, and what TLC finds as soon as the
configuration or the property is widened:

* `NoDuplicateData` (model-checked only): verify runs one at a time, gateways that know what the network has, no
  demotion of a bundle that can still seed, and at most one failure, and that without a
  re-drive. Two verify runs that overlap, as the default concurrency of 3 lets them
  (allWorkers.ts:145), both read the items of an expired bundle. One repacks them, they are
  planned again and their new bundle is broadcast; then the other one repacks them by item
  id alone (postgres.ts:1013-1053), out of the new plan, into a third bundle. Nothing has
  failed. The lock "to prevent 2 concurrent executions competing for work"
  (verify.ts:163-166) ends with the query that takes it. A status lookup that fails
  counts as "not found", so the items of a posted bundle are bundled again (against
  post.ts:115-123). With two failures, a broadcast fails, the items are repacked,
  the process dies before the `new_bundle` row moves, and the retried job broadcasts
  the old transaction. A seed that finishes between the re-drive scan and the
  demotion has its items planned again (against redrive-posted.ts:89-90).
* `OneItemTable`: one upload per item, and no newDataItem job handed out while its handler
  runs. The primary key of `new_data_item`, "the real dedup guard" (postgres.ts:172-175),
  does not see an item that moved to `planned_data_item` meanwhile.
* `NoStrandedItems` allows a bundle to be half promoted: a batch that fails leaves the
  others' items permanent and the bundle seeded until the next pass (against
  verify.ts:226-233).
* `NoItemLost`: no refused re-upload of a failed item (`MayRefuse`): the duplicate
  check deletes the item's row of `failed_data_item` before payment. And no newDataItem
  job of the item failed as often as it may: then a failed job is all there is of it, and
  the queue drops that after a week.
* `NoStrandedItems`, `PermanentOnChain` and `ImplementsDelivery`: a reader that does not lag.
  One that misses planned rows gives a bundle up without them (postgres.ts:1225). A lagging replica lets a duplicate
  `prepare` overwrite the payload a transaction was signed over, and promotion
  reads the header of the new one.
* `ImplementsLedger` and `NoFreeCredit` of the ledger: an approval that ended had paid one
  item. For an expired or revoked approval `refundWincFromOverflowSpend`
  (postgres.ts:2697-2709) pays the payer its whole `used_winc_amount` and leaves the row as
  it is: with two items paid from one, the refund of either pays for both while the other
  stays reserved, and its own refund pays again (`LapsedShared`: TLC has it in seven steps).
  Nor a refund that does not find what it read: two refunds of one item at once both find the
  reservation and both pay (postgres.ts:926-934), a refund of an item without one is paid
  all the same, and a reserve or refund that commits between a refund's read of an approval
  and its write is overwritten, so that the approval is used for less, or more, than is
  reserved from it. `UsedIsReserved` goes on for the users it did not happen to. Nor
  two approvals of one payer (`ApprovalsShared`), each of which is compared with
  the payer's whole share.
* `NoFreeCredit` of uploads: Redis is there, a refund is answered, no approval fails and
  no finalization overlaps. With Redis away the process's own cache lets a second
  upload of an item through, whose failure refunds what paid for the first.
* `RejectedRefunded`: not an item whose tags ask for an approval without an amount:
  the route looks at them after the reservation and rejects the upload without a
  refund (dataItemPost.ts:855-864), while a multipart upload accepts it without the
  approval. Nor a bundle that cannot be read, nor a refund that could not be queued
  or whose job used up its attempts (section 5). Nor after a crash, or when the reservation's answer is lost: nothing
  looks for reservations whose upload came to nothing.
* `AssembledInOrder`: a last chunk that is posted again after another raised the
  chunk size leaves two parts.
* `ResumedUpload`: an attempt that failed and quarantined the object leaves later ones
  none to find.
* `NameOrCredits`: one thing goes wrong, and purchases; a change of a name (extend,
  upgrade, undernames) whose request died is refunded although it landed, for
  nothing on chain tells (against initiateArNSPurchase.ts:119).
* `NotBothWays`: a second look that no replica answered without the receipt. With lag one
  event delivered again just after the payment was credited finds no quote, sees no receipt
  and refunds. `NoMoneyKept`: a second look that was answered. One outage that fails
  `createPaymentReceipt` and the look in its `catch` keeps the money and tells nobody
  (paymentSuccessEventHandler.ts:73-78, stripeRoute.ts:97-110).
* `OneOutcome`: two requests to watch one transaction, one of which saw it pending, leave
  a pending row beside the credited one for ever. A gift's credits are not taken
  back by a dispute.
* `OnePurchase`: the transaction hash is unique in the payment service only. The upload
  service's `x402_payments` (migrator.ts:1234) indexes it and takes it again, so where a
  facilitator answers a second settlement with the first transaction, a raw item can be
  bought with what paid for something else.
* `CreditsWithinPayment`: one call to finalize a payment at a time. `finalizeX402Payment`
  (postgres.ts:2894) does not look at the status, so a call made again while the first is
  at work credits its refund twice. A hybrid payment's refund is of all it paid,
  although its excess was credited already.
* `GivenUpUnconfirmed`: fewer things go wrong than a job has attempts. A chunk job whose
  nodes were away three times is given up, whatever the gate said, and nothing enqueues it
  again; `ChunksKept` says that its bytes are still there, and no more than that. With the gate off, the default,
  a node that does not know the transaction within the three attempts has the same effect,
  and the bundle is verified all the same.
* `SeededAnyway` allows for a seed job that used up its attempts; its bundle waits for the
  re-drive.
* What a request settled before it failed stays with the operator: nothing refunds it,
  and it may have no row. A payment whose reservation finds the good taken is settled by
  then. Reservations of payments that were never finalized stay too:
  `cleanupExpiredX402Reservations` has no caller, while X402_INTEGRATION_GUIDE.md:521 says
  "Reservation expires after 1 hour if not used".
* Where the bundler has one store and no archive, the clean-up's one cursor follows the
  seven-day file system cutoff (cleanup-fs.ts:233-390), so copies in the object
  store past it are never deleted, against scripts/CLEANUP_SETUP.md:29-30. This pass
  is not modelled.

## 11. Fairness

`FairSpec` of `BundlePipeline` assumes: a handler that runs takes its next step
(WF of `Advance`); a job that waits again and again is taken (SF per queue,
since each queue has workers of its own and a worker is free infinitely often);
the plan scheduler ticks (SF, because its one slot may be taken); the external
cron fires (WF of `VerifyTick`); and the network goes on confirming what it
accepted (WF). It assumes nothing of uploads, failures, redelivery, re-drives,
reorganizations or expiry. `VerifyTick` matters: without it the one verify job
`seed` enqueues runs before the confirmations are there and the bundle stays
seeded, so `EventuallySettled` is claimed for deployments with the cron only. And
it is claimed without failures: a process that dies between `PlanMove` and
`PlanEnqueue` strands the plan, as does a job that used up its attempts.

`FairSpec` of `Planning`: the scheduler starts the handler again and again (WF of
`Handler`) and items grow old (WF of `Age`). `OverdueLeaves` needs a window larger
than the number of oversize items; the upload route keeps those out.

`FairSpec` of `Multipart`: a request runs on while its process lives (WF per slot),
workers take their jobs (WF of `Worker`; SF of `finalizeUploadWorker`, which needs a
free slot). Nothing is assumed of clients, faults or the clock.

`NamesFairSpec`: a handler runs on (WF); Stripe delivers its event once, and the cron
job of pending transactions comes round to each (SF, both need a free handler);
receipts grow old (WF); the refund worker and the reconciler go on (WF). Stripe is
assumed to deliver because it retries until it has an answer, and the answer is
given before the work. `X402FairSpec` adds that requests with an authorization run on.

`FairSpec` of `Archive`: copy jobs are taken, and the clean-up is scheduled daily (WF). The
sweep runs after the age-based pass of the same job has resolved (cleanup-fs.ts:912), so it
is assumed that this pass does not fail day after day. That
a bundle is reclaimed "in the end" rests on the bound of the faults: a copy that
fails for ever is never reclaimed, as it should be.

`SeedingFairSpec` of `ChunkSeeding`: seed workers take a job (SF, their two slots may be
taken) and go on with it (WF). Nothing is assumed of the network, of the nodes or of the
re-drive, which may be switched off: the cap alone has to let a bundle through.
`StoresSpec` states the fairness of `Archive` and of `ChunkSeeding` for the behaviours that
are of each.

## 12. Proofs

These hold for every value of the constants that the named assumptions of their modules
allow: for `BundlePipeline` (`CountsAssumption`, `NoneAssumption`, `SettingsAssumption`) any sets of items, plans, bundles and workers, any
numbers of attempts, uploads, faults, redeliveries and sweeps. `SpecSteps` takes the history
`shown` out of `Spec`; no invariant is about it.

* `TypeCorrect`: `Spec => []TypeOK`. `TypeOK` is inductive because the type of an
  execution (`Execution`) says what its step needs: an `insert` step has a
  newItem job, a `move` step a plan, a `promote` step a bundle. One lemma per
  handler; `Take`, `Throw` and the other queue operators have theirs.
* `ItemsNeverLost`: with `~MayRefuse`, `Spec => []NoItemLost`. Inductive with
  `TypeOK`. The argument: an ingest job leaves `jobs` only into a running `insert`
  step, into its last failure (`spent`), or when the item is recorded already (a read may be
  stale, but what it saw was recorded, and what was recorded is never lost);
  and no handler takes a row out of the item tables without putting its item into another
  one in the same transaction.
* `BundleInOneTable`: `Spec => []OneBundleTable`. Not inductive alone: a new row
  could repeat a plan or a transaction. `RowsAreKnown` adds that plans in any
  table are used ones and transactions in any table are signed ones, so
  `PlanStart` and `PrepareSign` bring in fresh ids; every other action moves
  rows from one table to another (`MoveRows`) or leaves them.
* `NothingStranded`: with `~ReplicaLag`, `Spec => []NoStrandedItems`. `StrandedInv` says what
  every step knows. `PlansGrowAlone`: a plan has one run that moves items into it and no
  prepare job before that run is through, so a plan with a bundle no longer grows.
  `Informed(w)`: an execution works on a bundle that has a row; from its read on it holds
  all items still planned for the bundle's plan, and none is left where it is about to
  demote or finalize. Batches may be lost to another execution, which takes items away
  and never adds one. With a lagging replica the read may miss planned items, and the
  property is violated.
* `OneItemTableAlways`: `Spec => [](UploadedOnce => OneItemTable)`, where `UploadedOnce` is no
  second upload of an item and no stalled job. `OnceInv`, inductive for such histories, says that
  one job or execution at most carries an item to its insert (`CarriedOnce`), that what is
  carried has no row yet (`CarriedIsNew`), and that what has one has one row, in one table
  (`Separate`); so each handler's transaction moves the only row. A read that lags
  finds an item new that is not, but not one that was never recorded; it stays so till the insert.
* `PermanentIsOnChain` (`DeliveryProofs`): with `~ReplicaLag`, `Spec => []PermanentOnChain`.
  What is planned for a plan stays within the payload at `sign` and within the signed data
  once there is a row (`RowsCovered`), because plans with a prepare job only shrink, a
  duplicate of `prepare` writes all that is planned at its read, and signed data is fixed.
  A verify run at `promote` therefore holds items of the data on chain only (`Covered`).
* `PipelineImplementsDelivery` (`DeliveryProofs`): with `~ReplicaLag`, `Spec =>
  ImplementsDelivery`, under `DeliveryInv`: the invariants above, and that what is in a
  table or a newDataItem job was accepted (`OnlyAccepted`), a signed transaction keeps a row
  (`SignedHaveRows`), what is stored and signed is some accepted items, and what is
  finalized is confirmed (`Ready`). `Upload`, `UploadRefused` and `IngestRead` are `Accept` or
  `Reopen`; every step that moves items is a `Settle` (`SettleStep`); `PrepareSign` is `Sign`;
  the moves of the bundle tables are `Proceed`, which needs that the rows moved are one
  row at most (`OneBundleTable`); `Confirm` is `Confirm`; all others are stutters.
* `CreditLedgerProofs`, for any finite users, approvals, readers and refunders and any items,
  prices and lists of payers. `TypeCorrect` and `OneReservationAlways` hold whatever the flags
  are: a list pays no more than its payers have, a refund, whatever it had read, leaves a row
  used for no less than nothing and no more than its amount (`GiveBackSound`), and
  only `ReserveCommit` adds a reservation, when the item has none.
  `UsedIsReservedAlways` needs `~ApprovalsShared`: then a payer's share of a
  reservation is on one row, and `Accounted`, the inductive form, says of each payer and
  user, as long as `amiss` is 0 for them, what that row was used for. A refund that commits
  for such a pair finds the row as it had read it, and its reservation is there (`Reading`), so
  it takes from the row what it takes from the reservations. `LedgerImplemented` needs `InScope` too. `Kept` adds what a
  refund and a trim rest on: a reservation's spend adds up to
  its price (`Whole`), and while somebody trims nobody else writes, so what it read is still
  so (`Trims`). Each step with no refund amiss before or after is then a step of `Ledger` or a
  stutter, which takes the sums over wallets, approvals and trims apart; a refund that goes
  amiss ends what `Ledger` says (`sound`). `NoFreeCreditAlways` is `Ledger`'s conservation
  (`Conserved`) for finitely many items, carried back along the refinement.
* `SumTheorems`: a sum over a finite set (`SumFunctionOnSet`) with one element more, over two
  disjoint sets, of functions that agree or differ at one place. The library's induction is out of reach; each fact is proved for every finite set
  by a smallest counterexample: were there one, take one of the least cardinality, take an
  element out.
* `PlanningProofs`, for any window, limits, sizes and arrival order: `Packed`, the invariant
  `Inv`. `Opened` says that a plan's running totals are those of its items, which keep the
  limits unless there is one alone, and that plans share no item; `Waiting` the same of the
  plans adrift, which may share items with the pass that goes on; `Moved` that what was sent
  left the table, once, and that every item is in the table or in a plan sent. That what is
  packed is still in the table cannot be said, and need not be: `insertBundlePlan` plans what
  it finds. `FirstFit` goes with them: an item that
  did not fit into a plan does not fit when it is fuller.
  `PlansFitAlways`, `PartitionAlways` and `FirstFitAlways` follow.
* `UploadsProofs`, of `Multipart`'s `Spec`, which composes both ways to upload, for any
  items, requests, chunk sizes and numbers of faults. `NoFreeCreditAlways`: what happened
  only grows (`Grows`), so while none of the six faults `NoFreeCredit` excludes happened, `Sound`
  is inductive: of the requests of one item one is past the in-flight mark (`OneMarked`), a
  finalization has its item to itself (`Alone`), who still may refund has a reservation there
  (`PaidFor`), and an item is charged once when it is reserved and not otherwise (`Charged`).
  `AssembledInOrderAlways`: a full chunk's part number is its place whatever size a process
  takes the upload to have (`NumberIs`), and the last one's, computed with a size no larger
  than the first chunk's, is no smaller than its own place. `Assembling` says that a
  finalization under way was asked for when all chunks were answered (`AskedWhenReady`), and
  that each answered chunk has one part (`Matched`). It was a run's invariant first.
* `TypeCorrect`, `NeverTheLastCopyAlways`, `NothingLeftBehindAlways` (`StoresProofs`), under
  `ArchiveAssumption`. `Archived` strengthens the first property by what a sweep knows:
  of the bundle it is at, the payload is in the archive once it is past the look
  there, a raw item no longer to be looked at is missing or in the archive, and
  keys leave the bundler's store only then. `Behind` and `Seen` strengthen the second:
  every row before the cursor, and every row a sweep has passed without a hole, is off
  the bundler's store and, being permanent, is not written again, whichever sweep
  deleted it. The runs have one sweep at a time; the theorems any number.
* `PaymentsTyped`, `OneOutcomeAlways` (`PaymentsProofs`): of `X402Spec`, which composes
  card payments, names and x402, under `PaymentsAssumption` and `X402Assumption`. `Typed`
  says what the state is made of: a handler is at a step its payment's method has (`Fit`),
  and a payment has rows of its method only (`Proper`). `Accounts` is the books of each
  payment: which tables exclude each other, and how much was credited by the row that
  stands for it. A handler that read a row says nothing of it any more when it writes, so
  each statement's own condition has to do: the quote that is deleted, the key of
  `redeemed_gift`, the row of the pending transaction.
* `OnePurchaseAlways`, `CreditsWithinPaymentAlways`, `X402Typed` (`PaymentsProofs`): the invariant
  `Purchased`. `Once` is about an authorization no facilitator answered for twice: one
  request at most is past its settlement, and it bought nothing yet. `One`, `Buys` and
  `Gives` are about the row of `x402_payment_transaction`: whoever is past the record is
  alone there, carries what was recorded, and until it ends nothing was bought or given
  with it. `Alone` says that a signed item in a request has its in-flight mark and no
  second request, so the payment a finalization found is finalized by nobody else: that is
  why the look-up without a lock gives no refund twice. `UNCHANGED` parts of the step
  lemmas are shared (`PaidOther`, `AloneGoes`, `AloneEnds`): a step of one request is seen by
  its own payment only. The `X402Assumption` that `None` is no transaction stands for a
  missing row being unlike any row.
* `NotBothWaysAlways`, `NameOrCreditsAlways` (`PaymentsProofs`): `X402Spec =>
  [](troubles <= 1 => NotBothWays)`, and the same of `NameOrCredits`. Both need the condition:
  TLC finds both violated with two troubles. The invariant `OneWayEach`, inductive while
  there was one at most, was checked as a run's invariant first. `Deliveries` is about cards:
  a delivery that checks or refunds knows there is no receipt (`Refused`) and that none can
  come (`Over`), because the quote is gone or expired, or because the one trouble is behind
  and nobody is left at `createPaymentReceipt`; of payments of which a replica hid the receipt
  (`Outdated`) it says nothing. `Confirmed` is about transactions of other
  chains: one that was credited, or is about to be, is paid. `Request`
  and `Name` are about names: one request per name, which alone writes to the chain, and a
  refund job only once that request is done with and the name did not land; the
  reconciler refunds what it looked up and did not find. `PaymentsAssumption` says that
  `None` is no handler, so that an idle one is at nothing.

* `ChunksKeptAlways` (`StoresProofs`): `SeedingSpec => []ChunksKept`, under
  `SeedingAssumption`. A chunk is safe when a node has taken it, or its bytes and a job of it
  are there, one that failed for the last time counted with its history only. `Keeps` is what
  every step does: what is safe stays so, since bytes are deleted only by an execution whose
  chunk was taken (`DeletesTaken`) and a job that throws waits again or is `spent`
  (`ThrownJobStays`). `DoneAll` says that an execution of seed made safe what it is past, so
  that `insertSeededBundle` may say seeded.
* `GivenUpUnconfirmedAlways`: `SeedingSpec => []GivenUpUnconfirmed` when `MaxTroubles < Tries`.
  `Chances` counts: a chunk job that is not excused (its bundle was staged unconfirmed, or a
  node has the chunk) is of a mined transaction and has lost an attempt only to a trouble, so
  it has more of them left than there are troubles to come. A job that finds its bytes gone
  is excused, since a chunk with a job is staged or taken (`Present`).

Only model-checked: `NoDuplicateData`. Liveness
(`EventuallySettled`, `OverdueLeaves`, `RejectedRefunded`, `ResumedUpload`, `NoMoneyKept`,
`PendingIsDecided`, `NamesSettled`, `NoMoneyKeptForNames`, `EverythingReclaimed`,
`SeededAnyway`) is out of the prover's reach and stays with TLC.

## 13. Not modelled

* Of x402 payments: prices and the oracle, signature checks, finalizations of one
  payment that overlap, `payg` payments made at the payment service without an upload.
* Optical posting, BDI unbundling, offsets, and the detached push of chunks to the read
  gateway's cache (best effort, nothing depends on them).
* Data item parsing and signature checks (bytes), pricing (arithmetic over external
  rates), circuit breakers and rate limits (they only shed load), the admin
  dashboard (read-only), migrations and deployment.
* The age-based pass of the clean-up, the deletion of expired multipart rows, transfers of ANTs.

## 14. Plan

1. Composition of `ChunkSeeding` with `BundlePipeline` in place of `SeedInsert`.
2. Composition of `Ingest` with `CreditLedger` in place of `Reserve` and `GiveBack`.
