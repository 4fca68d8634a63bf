-------------------------- MODULE BundlePipeline --------------------------
(***************************************************************************)
(* The bundling pipeline of the upload service: how a data item travels    *)
(* through the item tables, and its bundle through the bundle tables, as   *)
(* the BullMQ handlers newDataItem, plan, prepare, post, seed, verify and  *)
(* redrive-posted run concurrently, fail, are retried and run twice.       *)
(*                                                                         *)
(* One action is one database transaction, object-store write, network     *)
(* call or enqueue of a handler together with the local reads that lead to *)
(* it; everything a handler holds between two such steps is in `run'.      *)
(***************************************************************************)
EXTENDS Naturals

CONSTANTS
    Items,         \* data item ids
    Plans,         \* plan ids (randomUUID: never used twice)
    Bundles,       \* ids of signed bundle transactions
    Workers,       \* concurrently running handler executions
    None,          \* the absent plan, bundle or item of a record
    Attempts,      \* defaultJobOptions.attempts
    RetryLimit,    \* retryLimitForFailedDataItems
    MaxRedrives,   \* maxSeedRedrives
    Missing,       \* items whose object is gone from the object store
    Unroutable,    \* items whose permanent insert violates a constraint
    GatewayMayMiss,\* a gateway may answer 404, or fail, for a known tx
    ReplicaLag,    \* the reader pool is a replica that may lag behind: it misses rows
                   \* and shows rows already gone, but never goes back in time
    MultiProcess,  \* scheduled handlers may overlap (several worker processes)
    MayRefuse,     \* an upload may be refused after its duplicate check
    VerifyCron,    \* an operator installed the external verify cron
    VerifyOverlaps,\* VERIFY_WORKER_CONCURRENCY is above 1, as it is by default
    MaxUploads,    \* bound: uploads of one item
    MaxFaults,     \* bound: handler failures, lost calls and reorgs
    MaxStalls,     \* bound: jobs redelivered while their handler still runs
    MaxSweeps      \* bound: redrive-posted sweeps that find a stale bundle

ASSUME CountsAssumption ==
    /\ Attempts \in Nat \ {0} /\ RetryLimit \in Nat \ {0}
    /\ MaxRedrives \in Nat /\ MaxUploads \in Nat
    /\ MaxFaults \in Nat /\ MaxStalls \in Nat /\ MaxSweeps \in Nat
ASSUME NoneAssumption ==
    None \notin Plans \cup Bundles \cup Items
ASSUME SettingsAssumption ==
    /\ {GatewayMayMiss, ReplicaLag, MultiProcess, MayRefuse, VerifyCron, VerifyOverlaps}
          \subseteq BOOLEAN
    /\ Missing \subseteq Items /\ Unroutable \subseteq Items

VARIABLES
    newItem,     \* new_data_item rows
    planned,     \* planned_data_item rows
    permanent,   \* permanent_data_items rows
    failed,      \* ids in failed_data_item
    bundlePlan,  \* plan ids in bundle_plan
    bundles,     \* the rows of each of the five bundle tables
    redrives,    \* seed_redrives of posted_bundle_redrive, 0 when no row
    payload,     \* object store: items of the payload stored under a plan id
    content,     \* items in the data a bundle transaction was signed over
    chain,       \* what the network knows of a bundle transaction
    jobs,        \* waiting or delayed BullMQ jobs
    run,         \* the handler execution of each worker
    spent,       \* history: items of which a newDataItem job failed for the last time
                 \* since they were last uploaded (BullMQ keeps it as failed for a week)
    shown,       \* history: <<plan, item>> of each row planned_data_item ever had
    usedPlans, uploads, faults, stalls, sweeps

itemVars   == <<newItem, planned, permanent, failed>>
bundleVars == <<bundlePlan, bundles, redrives, usedPlans>>
storeVars  == <<payload, content, chain>>
queueVars  == <<jobs, spent>>
boundVars  == <<uploads, faults, stalls, sweeps>>
vars == <<itemVars, bundleVars, storeVars, queueVars, run, boundVars>>
allVars == <<vars, shown>>

(***************************************************************************)
(* Tables, jobs and executions.                                            *)
(***************************************************************************)
BundleTables == {"new", "posted", "seeded", "permanent", "failed"}
BundleRow    == [plan : Plans, bundle : Bundles]
ItemRow      == [item : Items, up : Nat, fails : Nat]
PlannedRow   == [item : Items, up : Nat, fails : Nat, plan : Plans]
PermanentRow == [item : Items, up : Nat, bundle : Bundles]
ChainState   == {"none", "unposted", "mempool", "mined", "final", "deep",
                 "expired"}

QueueKinds     == {"newItem", "prepare", "post", "seed", "verify"}
ScheduledKinds == {"plan", "redrive"}
Job == {j \in [kind : QueueKinds \cup ScheduledKinds, plan : Plans \cup {None},
               item : Items \cup {None}, up : Nat, left : 1..Attempts] :
          j.kind = "newItem" => j.item \in Items}

JobFor(kind, p) ==
    [kind |-> kind, plan |-> p, item |-> None, up |-> 0, left |-> Attempts]
NewItemJob(i, n) ==
    [kind |-> "newItem", plan |-> None, item |-> i, up |-> n, left |-> Attempts]

Steps == {"idle", "insert", "move", "enqueuePrepare", "store", "sign",
          "enqueuePost", "broadcast", "status", "record", "enqueueSeed",
          "recordLate", "enqueueSeedLate", "repack", "demote", "stage",
          "enqueueVerify", "check", "promote", "repackRest", "finalize",
          "count"}
Execution ==
    {e \in [job : Job, pc : Steps, plan : Plans \cup {None},
            bundle : Bundles \cup {None}, items : SUBSET Items,
            todo : SUBSET BundleRow, stuck : BOOLEAN] :
       /\ e.pc = "insert" => e.job.kind = "newItem"
       /\ e.pc = "move" => e.plan \in Plans
       /\ e.pc = "promote" => e.bundle \in Bundles}

Exec(j, pc, p, b, S, T) ==
    [job |-> j, pc |-> pc, plan |-> p, bundle |-> b, items |-> S, todo |-> T,
     stuck |-> FALSE]
Idle == Exec(JobFor("plan", None), "idle", None, None, {}, {})

ItemsOf(rows)    == {r.item : r \in rows}
PlannedFor(p)    == {r \in planned : r.plan = p}
RowsIn(table, p) == {r \in bundles[table] : r.plan = p}
KnownIn(tables, p) == \E t \in tables : RowsIn(t, p) # {}

\* What a SELECT of a plan's items on the reader pool can return.
ReadPlanned(p) == IF ReplicaLag THEN SUBSET {i \in Items : <<p, i>> \in shown}
                                ELSE {ItemsOf(PlannedFor(p))}

\* Mutant: the delete is missing from the transaction.
MoveRowsCopies(rows, from, to) == bundles' = [bundles EXCEPT ![to] = @ \cup rows]
MoveRows(rows, from, to) ==
    bundles' = [bundles EXCEPT ![from] = @ \ rows, ![to] = @ \cup rows]

(***************************************************************************)
(* BullMQ.  Take: a free worker starts a waiting job.  Throw: the handler  *)
(* of job j rejects; the job waits for its next attempt, or has none left. *)
(* A scheduled handler has no job of its own: its next tick is its retry.  *)
(***************************************************************************)
\* Mutant: one attempt too many.
AgainTooOften(j) == IF j.kind \in QueueKinds THEN {[j EXCEPT !.left = @ - 1]} ELSE {}

Again(j) == IF j.kind \in QueueKinds /\ j.left > 1
            THEN {[j EXCEPT !.left = @ - 1]} ELSE {}
\* The item of a newDataItem job that has none left.
Exhausted(j) == IF j.kind = "newItem" /\ j.left = 1 THEN {j.item} ELSE {}

Take(w, j, e) == /\ run[w] = Idle
                 /\ j \in jobs
                 /\ jobs' = jobs \ {j}
                 /\ run' = [run EXCEPT ![w] = e]
                 /\ UNCHANGED spent
DropJob(w, j) == Take(w, j, Idle)
ThrowAtStart(w, j) == /\ run[w] = Idle
                      /\ j \in jobs
                      /\ jobs' = (jobs \ {j}) \cup Again(j)
                      /\ spent' = spent \cup Exhausted(j)
                      /\ UNCHANGED run
Throw(w) == /\ jobs' = jobs \cup Again(run[w].job)
            /\ spent' = spent \cup Exhausted(run[w].job)
            /\ run' = [run EXCEPT ![w] = Idle]

At(w, pc)     == run[w].pc = pc
Goto(w, pc)   == /\ run' = [run EXCEPT ![w].pc = pc]
                 /\ UNCHANGED queueVars
Finish(w)     == /\ run' = [run EXCEPT ![w] = Idle]
                 /\ UNCHANGED queueVars
\* The other items come in later batches; pc is where the last one leads.
NextBatch(w, batch, pc) ==
    /\ run' = [run EXCEPT ![w].items = @ \ batch,
                          ![w].pc = IF run[w].items \subseteq batch THEN pc ELSE @]
    /\ UNCHANGED queueVars
EnqueueLast(w, j) == /\ jobs' = jobs \cup {j}
                     /\ run' = [run EXCEPT ![w] = Idle]
                     /\ UNCHANGED spent

\* PLAN_WORKER_CONCURRENCY and the redrive worker's concurrency are 1 per worker
\* process, and so is VERIFY_WORKER_CONCURRENCY unless VerifyOverlaps.
MayStart(w, kind) ==
    /\ run[w] = Idle
    /\ MultiProcess \/ \A v \in Workers : ~(run[v] # Idle /\ run[v].job.kind = kind)

(***************************************************************************)
(* Ingest: the upload route looks the item up (and deletes its row of      *)
(* failed_data_item, so that it can be tried again) before it asks for     *)
(* payment; an accepted upload enqueues a newDataItem job, which looks     *)
(* again and inserts the item unless it is there.                          *)
(***************************************************************************)
\* Uploads are looked for in the last 30 days, which is taken to be all the time there is.
ExistingItems == ItemsOf(newItem) \cup ItemsOf(planned) \cup ItemsOf(permanent)
MayPassCheck(i) == ReplicaLag \/ i \notin ExistingItems

Upload(i) ==
    /\ uploads[i] < MaxUploads
    /\ uploads' = [uploads EXCEPT ![i] = @ + 1]
    /\ \/ /\ MayPassCheck(i)
          /\ failed' \in IF ReplicaLag THEN {failed, failed \ {i}} ELSE {failed \ {i}}
          /\ UNCHANGED faults
       \/ /\ faults < MaxFaults /\ faults' = faults + 1
          /\ UNCHANGED failed    \* the lookup throws: availability first
    /\ jobs' = jobs \cup {NewItemJob(i, uploads[i] + 1)}
    /\ spent' = spent \ {i}
    /\ UNCHANGED <<newItem, planned, permanent, bundleVars, storeVars, run, stalls, sweeps>>

\* Payment, signature or storage fails after the check.
UploadRefused(i) ==
    /\ MayRefuse /\ MayPassCheck(i)
    /\ i \in failed
    /\ failed' = failed \ {i}
    /\ UNCHANGED <<newItem, planned, permanent, bundleVars, storeVars, queueVars,
                   run, boundVars>>

\* Mutant: an item that failed before counts as existing, although its row is deleted.
IngestReadFailedExists(w, j) ==
    /\ j.kind = "newItem"
    /\ failed' = failed \ {j.item}
    /\ IF j.item \in ExistingItems \cup failed
       THEN DropJob(w, j)
       ELSE Take(w, j, Exec(j, "insert", None, None, {}, {}))
    /\ UNCHANGED <<newItem, planned, permanent, bundleVars, storeVars, boundVars>>

\* A lagging replica may miss a row, or show one the item had before it failed.
IngestRead(w, j) ==
    /\ j.kind = "newItem"
    /\ \/ /\ failed' \in IF ReplicaLag THEN {failed, failed \ {j.item}}
                                      ELSE {failed \ {j.item}}
          /\ \E exists \in IF ReplicaLag THEN BOOLEAN ELSE {j.item \in ExistingItems} :
                /\ exists => j.item \in ExistingItems
                /\ IF exists THEN DropJob(w, j)
                             ELSE Take(w, j, Exec(j, "insert", None, None, {}, {}))
       \/ ReplicaLag /\ j.item \in failed /\ DropJob(w, j) /\ UNCHANGED failed
    /\ UNCHANGED <<newItem, planned, permanent, bundleVars, storeVars, boundVars>>

IngestInsert(w) ==
    /\ At(w, "insert")
    /\ LET i == run[w].job.item IN
       newItem' = IF i \in ItemsOf(newItem) THEN newItem
                  ELSE newItem \cup {[item |-> i, up |-> run[w].job.up, fails |-> 0]}
    /\ Finish(w)
    /\ UNCHANGED <<planned, permanent, failed, bundleVars, storeVars, boundVars>>

(***************************************************************************)
(* Plan: pack some of the new items into a bundle plan, move their rows to *)
(* planned_data_item, enqueue its prepare job.  Which items go together is *)
(* BundlePacker's; here any non-empty set of them may.                     *)
(***************************************************************************)
PlanStart(w, S, p) ==
    /\ MayStart(w, "plan")
    /\ S # {} /\ S \subseteq ItemsOf(newItem)
    /\ p \notin usedPlans
    /\ usedPlans' = usedPlans \cup {p}
    /\ bundlePlan' = bundlePlan \cup {p}
    /\ run' = [run EXCEPT ![w] = Exec(JobFor("plan", None), "move", p, None, S, {})]
    /\ UNCHANGED <<itemVars, bundles, redrives, storeVars, queueVars, boundVars>>

\* A concurrent plan run may hold the rows (NOWAIT, if the query builder emits a
\* lock clause for the DELETE; else the other run's rows are just gone), or a
\* row's id is in planned_data_item already: the transaction fails and so does
\* the handler.
PlanConflict(w) ==
    \/ run[w].items \cap ItemsOf(planned) \cap ItemsOf(newItem) # {}
    \/ \E v \in Workers \ {w} : At(v, "move") /\ run[v].items \cap run[w].items # {}

\* Batch after batch (batchingSize items), each in a transaction of its own.
PlanMove(w, batch) ==
    /\ At(w, "move")
    /\ batch # {} /\ batch \subseteq run[w].items
    /\ batch \cap ItemsOf(newItem) \cap ItemsOf(planned) = {}
    /\ LET rows == {r \in newItem : r.item \in batch} IN
       /\ newItem' = newItem \ rows
       /\ planned' = planned \cup
             {[item |-> r.item, up |-> r.up, fails |-> r.fails,
               plan |-> run[w].plan] : r \in rows}
    /\ NextBatch(w, batch, "enqueuePrepare")
    /\ UNCHANGED <<permanent, failed, bundleVars, storeVars, boundVars>>

PlanFails(w) ==
    /\ At(w, "move") /\ PlanConflict(w)
    /\ Throw(w)
    /\ UNCHANGED <<itemVars, bundleVars, storeVars, boundVars>>

PlanEnqueue(w) ==
    /\ At(w, "enqueuePrepare")
    /\ EnqueueLast(w, JobFor("prepare", run[w].plan))
    /\ UNCHANGED <<itemVars, bundleVars, storeVars, boundVars>>

(***************************************************************************)
(* Prepare: assemble the plan's payload, sign a bundle transaction over it *)
(* and turn the bundle_plan row into a new_bundle row.                     *)
(***************************************************************************)
LivePlanTables == {"new", "posted", "seeded", "permanent"}

\* A lagging replica may miss the plan's row, or show rows that are gone: of bundle_plan,
\* or of the table the bundle was in before it failed.
PrepareStart(w, j) ==
    /\ j.kind = "prepare"
    /\ \/ /\ j.plan \notin bundlePlan /\ KnownIn(LivePlanTables, j.plan)
          /\ DropJob(w, j)
       \/ /\ j.plan \notin bundlePlan /\ ~KnownIn(LivePlanTables, j.plan)
          /\ ThrowAtStart(w, j)
       \/ /\ j.plan \in bundlePlan \/ (ReplicaLag /\ j.plan \in usedPlans)
          /\ \E S \in ReadPlanned(j.plan) :
                IF S = {} THEN ThrowAtStart(w, j)
                ELSE Take(w, j, Exec(j, "store", j.plan, None, S, {}))
       \/ ReplicaLag /\ ThrowAtStart(w, j)
       \/ ReplicaLag /\ KnownIn({"failed"}, j.plan) /\ DropJob(w, j)
    /\ UNCHANGED <<itemVars, bundleVars, storeVars, boundVars>>

PrepareStore(w) ==
    /\ At(w, "store") /\ run[w].items \cap Missing = {}
    /\ payload' = [payload EXCEPT ![run[w].plan] = run[w].items]
    /\ Goto(w, "sign")
    /\ UNCHANGED <<itemVars, bundleVars, content, chain, boundVars>>

\* Mutant: the missing item stays in its plan.
PrepareMissingThrows(w, i) ==
    /\ At(w, "store") /\ i \in run[w].items \cap Missing
    /\ Throw(w)
    /\ UNCHANGED <<itemVars, bundleVars, storeVars, boundVars>>

\* The object store misses an item: fail it and run the handler again.
PrepareMissing(w, i) ==
    /\ At(w, "store") /\ i \in run[w].items \cap Missing
    /\ LET rows == {r \in planned : r.item = i} IN
       IF rows # {} /\ i \notin failed
       THEN /\ planned' = planned \ rows
            /\ failed' = failed \cup {i}
            /\ EnqueueLast(w, run[w].job)
       ELSE Throw(w) /\ UNCHANGED <<planned, failed>>
    /\ UNCHANGED <<newItem, permanent, bundleVars, storeVars, boundVars>>

\* Mutant: the bundle_plan row need not be there.
PrepareSignsAgain(w, b) ==
    LET p == run[w].plan IN
    /\ At(w, "sign") /\ chain[b] = "none"
    /\ content' = [content EXCEPT ![b] = payload[p]]
    /\ chain' = [chain EXCEPT ![b] = "unposted"]
    /\ bundlePlan' = bundlePlan \ {p}
    /\ bundles' = [bundles EXCEPT !["new"] = @ \cup {[plan |-> p, bundle |-> b]}]
    /\ Goto(w, "enqueuePost")
    /\ UNCHANGED <<itemVars, redrives, usedPlans, payload, boundVars>>

\* The transaction is signed over the payload as it is stored now.
PrepareSign(w, b) ==
    LET p == run[w].plan IN
    /\ At(w, "sign") /\ chain[b] = "none"
    /\ p \in bundlePlan
    /\ content' = [content EXCEPT ![b] = payload[p]]
    /\ chain' = [chain EXCEPT ![b] = "unposted"]
    /\ bundlePlan' = bundlePlan \ {p}
    /\ bundles' = [bundles EXCEPT !["new"] = @ \cup {[plan |-> p, bundle |-> b]}]
    /\ Goto(w, "enqueuePost")
    /\ UNCHANGED <<itemVars, redrives, usedPlans, payload, boundVars>>

\* Another execution took the bundle_plan row: this transaction is never posted.
PrepareLoses(w) ==
    /\ At(w, "sign") /\ run[w].plan \notin bundlePlan
    /\ IF KnownIn(LivePlanTables, run[w].plan) THEN Finish(w) ELSE Throw(w)
    /\ UNCHANGED <<itemVars, bundleVars, storeVars, boundVars>>

PrepareEnqueue(w) ==
    /\ At(w, "enqueuePost")
    /\ EnqueueLast(w, JobFor("post", run[w].plan))
    /\ UNCHANGED <<itemVars, bundleVars, storeVars, boundVars>>

(***************************************************************************)
(* Post: broadcast the transaction; when that fails, ask the network       *)
(* whether it has it before giving the bundle up.                          *)
(***************************************************************************)
OnNetwork(b) == chain[b] \in {"mempool", "mined", "final", "deep"}

PostStart(w, j) ==
    /\ j.kind = "post"
    /\ \/ \E r \in RowsIn("new", j.plan) :
             Take(w, j, Exec(j, "broadcast", r.plan, r.bundle, {}, {}))
       \/ /\ RowsIn("new", j.plan) = {}
          /\ IF KnownIn({"posted", "seeded", "permanent"}, j.plan)
             THEN DropJob(w, j) \/ (ReplicaLag /\ ThrowAtStart(w, j))
             ELSE ThrowAtStart(w, j)
    /\ UNCHANGED <<itemVars, bundleVars, storeVars, boundVars>>

\* The node accepts the transaction, and its answer arrives or is lost (a
\* timeout); or the call fails without effect, as it does for a transaction
\* the network has already or whose anchor is too old.
PostBroadcast(w) ==
    LET b == run[w].bundle IN
    /\ At(w, "broadcast")
    /\ \/ /\ chain[b] = "unposted"
          /\ chain' = [chain EXCEPT ![b] = "mempool"]
          /\ \/ Goto(w, "record") /\ UNCHANGED faults
             \/ Goto(w, "status") /\ faults < MaxFaults /\ faults' = faults + 1
       \/ /\ chain[b] = "unposted" => faults < MaxFaults
          /\ faults' = IF chain[b] = "unposted" THEN faults + 1 ELSE faults
          /\ Goto(w, "status")
          /\ UNCHANGED chain
    /\ UNCHANGED <<itemVars, bundleVars, payload, content, uploads, stalls, sweeps>>

PostStatusSeen(w) ==
    /\ At(w, "status") /\ OnNetwork(run[w].bundle)
    /\ Goto(w, "recordLate")
    /\ UNCHANGED <<itemVars, bundleVars, storeVars, boundVars>>

\* Mutant: a failed broadcast is repacked whatever the network says.
PostStatusIgnored(w) ==
    /\ At(w, "status")
    /\ \E S \in ReadPlanned(run[w].plan) :
          run' = [run EXCEPT ![w].pc = "repack", ![w].items = S]
    /\ UNCHANGED <<itemVars, bundleVars, storeVars, queueVars, boundVars>>

\* Not found, or the lookup failed: repack (the wallet can pay), or throw.
PostStatusNotSeen(w) ==
    /\ At(w, "status")
    /\ GatewayMayMiss \/ ~OnNetwork(run[w].bundle)
    /\ \/ /\ \E S \in ReadPlanned(run[w].plan) :
                run' = [run EXCEPT ![w].pc = "repack", ![w].items = S]
          /\ UNCHANGED <<queueVars, faults>>
       \/ /\ faults < MaxFaults /\ faults' = faults + 1
          /\ Throw(w)
    /\ UNCHANGED <<itemVars, bundleVars, storeVars, uploads, stalls, sweeps>>

\* Mutant: the posted_bundle row is written although the new_bundle row is gone.
PostRecordsAlways(w) ==
    /\ At(w, "record") \/ At(w, "recordLate")
    /\ MoveRows({[plan |-> run[w].plan, bundle |-> run[w].bundle]}, "new", "posted")
    /\ Goto(w, IF At(w, "record") THEN "enqueueSeed" ELSE "enqueueSeedLate")
    /\ UNCHANGED <<itemVars, bundlePlan, redrives, usedPlans, storeVars, boundVars>>

\* insertPostedBundle: skipped when the new_bundle row is gone.
PostRecord(w) ==
    /\ At(w, "record") \/ At(w, "recordLate")
    /\ MoveRows({r \in bundles["new"] : r.bundle = run[w].bundle}, "new", "posted")
    /\ Goto(w, IF At(w, "record") THEN "enqueueSeed" ELSE "enqueueSeedLate")
    /\ UNCHANGED <<itemVars, bundlePlan, redrives, usedPlans, storeVars, boundVars>>

PostEnqueue(w) ==
    /\ At(w, "enqueueSeed") \/ At(w, "enqueueSeedLate")
    /\ EnqueueLast(w, JobFor("seed", run[w].plan))
    /\ UNCHANGED <<itemVars, bundleVars, storeVars, boundVars>>

\* An error of the database or of the queue is caught like one of the network.
PostCatches(w) ==
    /\ At(w, "record") \/ At(w, "enqueueSeed")
    /\ faults < MaxFaults /\ faults' = faults + 1
    /\ Goto(w, "status")
    /\ UNCHANGED <<itemVars, bundleVars, storeVars, uploads, stalls, sweeps>>

(***************************************************************************)
(* Seed: stage the chunks of a posted bundle, then mark it seeded.         *)
(***************************************************************************)
SeedStart(w, j) ==
    /\ j.kind = "seed"
    /\ \/ \E r \in RowsIn("posted", j.plan) :
             Take(w, j, Exec(j, "stage", r.plan, r.bundle, {}, {}))
       \/ /\ RowsIn("posted", j.plan) = {}
          /\ IF KnownIn({"seeded", "permanent"}, j.plan)
             THEN DropJob(w, j) ELSE ThrowAtStart(w, j)
    /\ UNCHANGED <<itemVars, bundleVars, storeVars, boundVars>>

\* The posted_bundle row may be gone by now: the insert of nothing is skipped or
\* refused, as the query builder has it.
SeedInsert(w) ==
    LET rows == {r \in bundles["posted"] : r.bundle = run[w].bundle} IN
    /\ At(w, "stage")
    /\ MoveRows(rows, "posted", "seeded")
    /\ Goto(w, "enqueueVerify") \/ (rows = {} /\ Throw(w))
    /\ UNCHANGED <<itemVars, bundlePlan, redrives, usedPlans, storeVars, boundVars>>

SeedEnqueue(w) ==
    /\ At(w, "enqueueVerify")
    /\ EnqueueLast(w, JobFor("verify", None))
    /\ UNCHANGED <<itemVars, bundleVars, storeVars, boundVars>>

(***************************************************************************)
(* Repacking, shared by post, verify and redrive: the planned rows of the  *)
(* items read earlier, whatever their plan now, go back to new_data_item   *)
(* or, at the retry limit, to failed_data_item, a transaction per batch.   *)
(***************************************************************************)
OverLimit(rows) == {r \in rows : r.fails + 1 >= RetryLimit}

CanRepack(rows) ==
    /\ ItemsOf(OverLimit(rows)) \cap failed = {}
    /\ ItemsOf(rows \ OverLimit(rows)) \cap ItemsOf(newItem) = {}

\* Mutant: the planned rows are kept.
RepackCopies(rows) ==
    /\ newItem' = newItem \cup
          {[item |-> r.item, up |-> r.up, fails |-> r.fails + 1] : r \in rows}
    /\ UNCHANGED <<planned, failed, permanent>>

Repack(rows) ==
    /\ CanRepack(rows)
    /\ planned' = planned \ rows
    /\ failed' = failed \cup ItemsOf(OverLimit(rows))
    /\ newItem' = newItem \cup
          {[item |-> r.item, up |-> r.up, fails |-> r.fails + 1] :
             r \in rows \ OverLimit(rows)}
    /\ UNCHANGED permanent

RowsHeld(batch) == {r \in planned : r.item \in batch}

\* The sweep handlers, verify and redrive, go on with the rest of their rows; a
\* verify run in which a promotion failed rejects when it is through with them.
IsSweep(w) == run[w].job.kind \in {"verify", "redrive"}
IsRedrive(w) == run[w].job.kind = "redrive"
GoOn(w, todo, stuck) ==
    IF todo = {} THEN IF stuck THEN Throw(w) ELSE Finish(w)
    ELSE /\ run' = [run EXCEPT ![w] =
               [Exec(run[w].job, IF IsRedrive(w) THEN "count" ELSE "check",
                     None, None, {}, todo) EXCEPT !.stuck = stuck]]
         /\ UNCHANGED queueVars
NextRow(w) == GoOn(w, run[w].todo, run[w].stuck)
GiveUp(w) ==
    IF IsSweep(w) THEN GoOn(w, run[w].todo, run[w].stuck \/ At(w, "repackRest"))
    ELSE Throw(w)

RepackHeld(w, batch) ==
    /\ At(w, "repack") \/ At(w, "repackRest")
    /\ batch \subseteq run[w].items /\ (batch = {} => run[w].items = {})
    /\ Repack(RowsHeld(batch))
    /\ NextBatch(w, batch, IF At(w, "repack") THEN "demote" ELSE "finalize")
    /\ UNCHANGED <<bundleVars, storeVars, boundVars>>

RepackFails(w, batch) ==
    /\ At(w, "repack") \/ At(w, "repackRest")
    /\ batch \subseteq run[w].items /\ ~CanRepack(RowsHeld(batch))
    /\ GiveUp(w)
    /\ UNCHANGED <<itemVars, bundleVars, storeVars, boundVars>>

\* The bundle row follows in a transaction of its own.  Post and verify insert
\* a row without ids, which is refused, when theirs is gone; redrive does not.
Demote(w) ==
    LET from == CASE run[w].job.kind = "post" -> "new"
                  [] IsRedrive(w) -> "posted"
                  [] OTHER -> "seeded"
        rows == IF from = "seeded" THEN RowsIn("seeded", run[w].plan)
                ELSE {r \in bundles[from] : r.bundle = run[w].bundle}
    IN
    /\ At(w, "demote")
    /\ MoveRows(rows, from, "failed")
    /\ redrives' = IF IsRedrive(w) THEN [redrives EXCEPT ![run[w].bundle] = 0]
                   ELSE redrives
    /\ IF IsSweep(w) THEN NextRow(w)
       ELSE IF rows = {} THEN Throw(w) ELSE Finish(w)
    /\ UNCHANGED <<itemVars, bundlePlan, usedPlans, storeVars, boundVars>>

(***************************************************************************)
(* Verify: for every seeded bundle, promote it, drop it, or leave it.      *)
(***************************************************************************)
VerifyStart(w, j) ==
    /\ j.kind = "verify"
    /\ VerifyOverlaps \/ MayStart(w, "verify")
    /\ IF bundles["seeded"] = {} THEN DropJob(w, j)
       ELSE Take(w, j, Exec(j, "check", None, None, {}, bundles["seeded"]))
    /\ UNCHANGED <<itemVars, bundleVars, storeVars, boundVars>>

\* trigger-verify.sh: no scheduler of the service itself enqueues a verify job.
VerifyTick ==
    /\ VerifyCron /\ bundles["seeded"] # {}
    /\ jobs' = jobs \cup {JobFor("verify", None)}
    /\ UNCHANGED <<itemVars, bundleVars, storeVars, spent, run, boundVars>>

\* Take row r up: with the planned items of its plan the reader returns.
Sweep(w, r, pc) ==
    /\ r \in run[w].todo
    /\ \E S \in ReadPlanned(r.plan) :
          run' = [run EXCEPT ![w] = 
              [run[w] EXCEPT !.pc = pc, !.plan = r.plan, !.bundle = r.bundle,
                             !.items = S, !.todo = run[w].todo \ {r}]]
    /\ UNCHANGED queueVars

\* Not found, and the anchor is more than dropBundleTxThresholdNumberOfBlocks
\* behind, which is when a transaction not mined yet can no longer be mined.
VerifyDrop(w, r) ==
    /\ At(w, "check")
    /\ \/ chain[r.bundle] = "expired"
       \/ GatewayMayMiss /\ chain[r.bundle] \in {"mined", "final", "deep"}
    /\ Sweep(w, r, "repack")
    /\ UNCHANGED <<itemVars, bundleVars, storeVars, boundVars>>

\* Mutant: any confirmation is enough.
VerifyConfirmedEarly(w, r) ==
    /\ At(w, "check") /\ chain[r.bundle] \in {"mined", "final", "deep"}
    /\ Sweep(w, r, "promote")
    /\ UNCHANGED <<itemVars, bundleVars, storeVars, boundVars>>

\* Found with txPermanentThreshold confirmations, by enough sources.
VerifyConfirmed(w, r) ==
    /\ At(w, "check") /\ chain[r.bundle] \in {"final", "deep"}
    /\ Sweep(w, r, "promote")
    /\ UNCHANGED <<itemVars, bundleVars, storeVars, boundVars>>

\* Pending or too few confirmations; confirmed by too few of the sources asked, or the
\* lookup failed, whatever the network knows.
VerifySkip(w, r) ==
    /\ At(w, "check") /\ r \in run[w].todo
    /\ GatewayMayMiss \/ chain[r.bundle] \in {"unposted", "mempool", "mined"}
    /\ GoOn(w, run[w].todo \ {r}, run[w].stuck)
    /\ UNCHANGED <<itemVars, bundleVars, storeVars, boundVars>>

InHeader(w) == run[w].items \cap payload[run[w].plan]
NotInHeader(w) == run[w].items \ payload[run[w].plan]
PermanentRowOf(r, b) == [item |-> r.item, up |-> r.up, bundle |-> b]
Poison(r) == \/ r.item \in Unroutable
             \/ \E q \in permanent : q.item = r.item /\ q.up = r.up

\* Mutant: a refused row is deleted, and recorded nowhere.
PromoteForgets(rows, b) ==
    /\ planned' = planned \ rows
    /\ permanent' = permanent \cup {PermanentRowOf(r, b) : r \in {q \in rows : ~Poison(q)}}
    /\ UNCHANGED <<newItem, failed>>

\* Promote the rows, dead-lettering the ones the table refuses.
Promote(rows, b) ==
    LET bad == {r \in rows : Poison(r)} IN
    /\ planned' = planned \ rows
    /\ permanent' = permanent \cup {PermanentRowOf(r, b) : r \in rows \ bad}
    /\ failed' = failed \cup ItemsOf(bad)
    /\ UNCHANGED newItem

RowsToPromote(w) == {r \in planned : r.item \in InHeader(w)}

VerifyPromote(w) ==
    /\ At(w, "promote")
    /\ Promote(RowsToPromote(w), run[w].bundle)
    /\ IF NotInHeader(w) = {} THEN Goto(w, "finalize")
       ELSE IF chain[run[w].bundle] = "deep"
            THEN /\ run' = [run EXCEPT ![w].pc = "repackRest",
                                       ![w].items = NotInHeader(w)]
                 /\ UNCHANGED queueVars
            ELSE NextRow(w)     \* DataItemsStillPendingWarning
    /\ UNCHANGED <<bundleVars, storeVars, boundVars>>

\* Mutant: the bundle is finalized although a batch of it failed.
VerifyFinalizesSome(w) ==
    /\ At(w, "promote")
    /\ faults < MaxFaults /\ faults' = faults + 1
    /\ \E rows \in (SUBSET RowsToPromote(w)) \ {RowsToPromote(w)} :
          Promote(rows, run[w].bundle)
    /\ Goto(w, "finalize")
    /\ UNCHANGED <<bundleVars, storeVars, uploads, stalls, sweeps>>

\* Some batch fails (the run will reject), or needs its deadline heights repaired:
\* the others are promoted, the bundle stays seeded.
VerifyPromoteSome(w) ==
    /\ At(w, "promote")
    /\ faults < MaxFaults /\ faults' = faults + 1
    /\ \E rows \in (SUBSET RowsToPromote(w)) \ {RowsToPromote(w)} :
          Promote(rows, run[w].bundle)
    /\ NextRow(w) \/ GoOn(w, run[w].todo, TRUE)
    /\ UNCHANGED <<bundleVars, storeVars, uploads, stalls, sweeps>>

VerifyFinalize(w) ==
    /\ At(w, "finalize")
    /\ MoveRows(RowsIn("seeded", run[w].plan), "seeded", "permanent")
    /\ NextRow(w)
    /\ UNCHANGED <<itemVars, bundlePlan, redrives, usedPlans, storeVars, boundVars>>

(***************************************************************************)
(* Redrive-posted: seed the stale posted bundles again, demote those that  *)
(* were re-driven too often.  Any posted row may be stale.                 *)
(***************************************************************************)
RedriveStart(w, T) ==
    /\ MayStart(w, "redrive")
    /\ T # {} /\ T \subseteq bundles["posted"]
    /\ sweeps < MaxSweeps /\ sweeps' = sweeps + 1
    /\ run' = [run EXCEPT ![w] = Exec(JobFor("redrive", None), "count",
                                     None, None, {}, T)]
    /\ UNCHANGED <<itemVars, bundleVars, storeVars, queueVars, uploads, faults, stalls>>

\* The counter is incremented, then the job enqueued: an error between the two leaves the
\* bundle to the next sweep, and so does a crash, which ends this one.
RedriveSeed(w, r) ==
    /\ At(w, "count") /\ r \in run[w].todo
    /\ redrives[r.bundle] < MaxRedrives
    /\ redrives' = [redrives EXCEPT ![r.bundle] = @ + 1]
    /\ \/ jobs' = jobs \cup {JobFor("seed", r.plan)} /\ UNCHANGED faults
       \/ faults < MaxFaults /\ faults' = faults + 1 /\ UNCHANGED jobs
    /\ \/ run' = [run EXCEPT ![w] = IF run[w].todo = {r} THEN Idle
                          ELSE [run[w] EXCEPT !.todo = run[w].todo \ {r}]]
       \/ faults' # faults /\ run' = [run EXCEPT ![w] = Idle]
    /\ UNCHANGED <<itemVars, bundlePlan, bundles, usedPlans, storeVars, spent, uploads,
                   stalls, sweeps>>

RedriveDemote(w, r) ==
    /\ At(w, "count") /\ r \in run[w].todo
    /\ redrives[r.bundle] >= MaxRedrives
    /\ redrives' = [redrives EXCEPT ![r.bundle] = MaxRedrives + 1]
    /\ Sweep(w, r, "repack")
    /\ UNCHANGED <<itemVars, bundlePlan, bundles, usedPlans, storeVars, boundVars>>

(***************************************************************************)
(* Failures.  A handler throws or its process dies at any step; a job whose*)
(* lock expired is handed out again while its first execution goes on.     *)
(***************************************************************************)
HandlerFails(w) ==
    /\ run[w] # Idle
    /\ faults < MaxFaults /\ faults' = faults + 1
    /\ Throw(w)
    /\ UNCHANGED <<itemVars, bundleVars, storeVars, uploads, stalls, sweeps>>

Stall(w) ==
    /\ run[w] # Idle /\ run[w].job.kind \in QueueKinds
    /\ stalls < MaxStalls /\ stalls' = stalls + 1
    /\ jobs' = jobs \cup {run[w].job}
    /\ UNCHANGED <<itemVars, bundleVars, storeVars, spent, run, uploads, faults, sweeps>>

(***************************************************************************)
(* The network.  unposted: signed only; mempool: accepted; mined: fewer    *)
(* than txPermanentThreshold confirmations; final: at least as many; deep: *)
(* past the repack threshold; expired: its anchor is too old to be mined.  *)
(***************************************************************************)
SetChain(b, from, to) ==
    /\ chain[b] \in from
    /\ chain' = [chain EXCEPT ![b] = to]
    /\ UNCHANGED <<itemVars, bundleVars, payload, content, queueVars, run>>

Mine(b)    == SetChain(b, {"mempool"}, "mined") /\ UNCHANGED boundVars
Confirm(b) == SetChain(b, {"mined"}, "final") /\ UNCHANGED boundVars
Deepen(b)  == SetChain(b, {"final"}, "deep") /\ UNCHANGED boundVars
Expire(b)  == SetChain(b, {"unposted", "mempool"}, "expired") /\ UNCHANGED boundVars
Reorg(b)   == /\ SetChain(b, {"mined"}, "mempool")
              /\ faults < MaxFaults /\ faults' = faults + 1
              /\ UNCHANGED <<uploads, stalls, sweeps>>

(***************************************************************************)
(* The specification.                                                      *)
(***************************************************************************)
Init ==
    /\ newItem = {} /\ planned = {} /\ permanent = {} /\ failed = {}
    /\ bundlePlan = {} /\ usedPlans = {}
    /\ bundles = [t \in BundleTables |-> {}]
    /\ redrives = [b \in Bundles |-> 0]
    /\ payload = [p \in Plans |-> {}]
    /\ content = [b \in Bundles |-> {}]
    /\ chain = [b \in Bundles |-> "none"]
    /\ jobs = {} /\ spent = {}
    /\ run = [w \in Workers |-> Idle] /\ shown = {}
    /\ uploads = [i \in Items |-> 0] /\ faults = 0 /\ stalls = 0 /\ sweeps = 0

StartQueued(w) == \E j \in jobs :
    IngestRead(w, j) \/ PrepareStart(w, j) \/ PostStart(w, j)
       \/ SeedStart(w, j) \/ VerifyStart(w, j)
StartKind(kind) ==
    \E w \in Workers, j \in jobs :
       /\ j.kind = kind
       /\ \/ IngestRead(w, j) \/ PrepareStart(w, j) \/ PostStart(w, j)
          \/ SeedStart(w, j) \/ VerifyStart(w, j)

StartPlan(w) == \E S \in SUBSET ItemsOf(newItem), p \in Plans : PlanStart(w, S, p)
StartRedrive(w) == \E T \in SUBSET bundles["posted"] : RedriveStart(w, T)

StepSweep(w) == \E r \in run[w].todo :
    VerifyDrop(w, r) \/ VerifyConfirmed(w, r) \/ VerifySkip(w, r)
       \/ RedriveSeed(w, r) \/ RedriveDemote(w, r)

StepPrepare(w) ==
    \/ PrepareStore(w) \/ PrepareLoses(w) \/ PrepareEnqueue(w)
    \/ \E i \in Items : PrepareMissing(w, i)
    \/ \E b \in Bundles : PrepareSign(w, b)

\* What an execution does when nothing goes wrong.
Advance(w) ==
    \/ IngestInsert(w) \/ PlanFails(w) \/ PlanEnqueue(w)
    \/ \E batch \in SUBSET run[w].items :
          PlanMove(w, batch) \/ RepackHeld(w, batch) \/ RepackFails(w, batch)
    \/ StepPrepare(w)
    \/ PostBroadcast(w) \/ PostStatusSeen(w) \/ PostStatusNotSeen(w)
    \/ PostRecord(w) \/ PostEnqueue(w)
    \/ SeedInsert(w) \/ SeedEnqueue(w)
    \/ Demote(w) \/ StepSweep(w) \/ VerifyPromote(w) \/ VerifyFinalize(w)

Fault(w) == HandlerFails(w) \/ Stall(w) \/ PostCatches(w) \/ VerifyPromoteSome(w)

Network == \E b \in Bundles :
    Mine(b) \/ Confirm(b) \/ Deepen(b) \/ Expire(b) \/ Reorg(b)

Next ==
    \/ \E i \in Items : Upload(i) \/ UploadRefused(i)
    \/ \E w \in Workers :
          \/ StartQueued(w) \/ StartPlan(w) \/ StartRedrive(w)
          \/ Advance(w) \/ Fault(w)
    \/ VerifyTick \/ Network

\* A replica that lags shows the rows there were.
Shows == shown' = IF ReplicaLag THEN shown \cup {<<r.plan, r.item>> : r \in planned'} ELSE shown

Spec == Init /\ [][Next /\ Shows]_allVars

(***************************************************************************)
(* Fairness: BullMQ's workers keep taking jobs and running the handlers,   *)
(* the plan scheduler ticks, the operator's cron (when there is one) fires,*)
(* and the network goes on confirming what it accepted.  Every queue has a *)
(* worker of its own, so a start cannot be starved by other queues' jobs.  *)
(***************************************************************************)
FairSpec ==
    /\ Spec
    /\ \A w \in Workers : WF_vars(Advance(w))
    /\ \A kind \in QueueKinds : SF_vars(StartKind(kind))
    /\ SF_vars(\E w \in Workers : StartPlan(w))
    /\ WF_vars(VerifyTick)
    /\ \A b \in Bundles : WF_vars(Mine(b) \/ Confirm(b) \/ Deepen(b))

(***************************************************************************)
(* Properties.                                                             *)
(***************************************************************************)

\* Every variable has its type; a redrive counter stops one past its limit.
TypeOK ==
    /\ newItem \subseteq ItemRow /\ planned \subseteq PlannedRow
    /\ permanent \subseteq PermanentRow /\ failed \subseteq Items
    /\ bundlePlan \subseteq Plans /\ usedPlans \subseteq Plans
    /\ bundles \in [BundleTables -> SUBSET BundleRow]
    /\ redrives \in [Bundles -> 0..(MaxRedrives + 1)]
    /\ payload \in [Plans -> SUBSET Items]
    /\ content \in [Bundles -> SUBSET Items]
    /\ chain \in [Bundles -> ChainState]
    /\ jobs \subseteq Job /\ spent \subseteq Items
    /\ run \in [Workers -> Execution]
    /\ uploads \in [Items -> 0..MaxUploads]
    /\ faults \in 0..MaxFaults /\ stalls \in 0..MaxStalls /\ sweeps \in 0..MaxSweeps

Recorded(i) == i \in ExistingItems \cup failed
Ingesting(i) ==
    \/ \E j \in jobs : j.kind = "newItem" /\ j.item = i
    \/ \E w \in Workers : At(w, "insert") /\ run[w].job.item = i

\* An accepted data item is never lost: it has a row in one of the four item
\* tables, or a newDataItem job that waits or runs still carries it, whatever
\* crashes, is run twice, or is repacked, dead-lettered or deleted for a re-upload
\* meanwhile.  Only a job of it that failed as often as it may loses it: what is
\* left of the item is the failed job, as long as the queue keeps that.
NoItemLost ==
    \A i \in Items : uploads[i] > 0 => Recorded(i) \/ Ingesting(i) \/ i \in spent

\* A plan is in bundle_plan or in one of the five bundle tables, never in two of
\* them, and is bundled at most once; two rows never share a transaction.
OneBundleTable ==
    /\ \A p \in bundlePlan : ~KnownIn(BundleTables, p)
    /\ \A t, u \in BundleTables : \A r \in bundles[t], q \in bundles[u] :
          (r.plan = q.plan \/ r.bundle = q.bundle) => t = u /\ r = q

\* What permanent_data_items says is so on chain: the item is in the data the
\* bundle's transaction was signed over, and that transaction is confirmed,
\* although promotion looks only at the plan and at the stored payload.
PermanentOnChain ==
    \A r \in permanent : /\ r.item \in content[r.bundle]
                         /\ chain[r.bundle] \in {"final", "deep"}

\* A planned item waits for a plan or a bundle that some handler still works
\* on: no item is left behind when its bundle is finalized or demoted.
NoStrandedItems ==
    \A r \in planned : \/ r.plan \in bundlePlan
                       \/ KnownIn({"new", "posted", "seeded"}, r.plan)

\* No item is paid for and stored twice: two transactions with the same item
\* are never both on the network.
NoDuplicateData ==
    \A b, c \in Bundles :
        b # c /\ OnNetwork(b) /\ OnNetwork(c) => content[b] \cap content[c] = {}

\* An uploaded item is in one item table at a time: the moves between the
\* tables neither copy a row nor meet a second one.
OneItemTable ==
    /\ ItemsOf(newItem) \cap ItemsOf(planned) = {}
    /\ ItemsOf(newItem) \cap ItemsOf(permanent) = {}
    /\ ItemsOf(planned) \cap ItemsOf(permanent) = {}
=============================================================================
