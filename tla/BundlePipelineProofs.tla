----------------------- MODULE BundlePipelineProofs -----------------------
(***************************************************************************)
(* Types and safety of BundlePipeline, for all values of its constants.    *)
(***************************************************************************)
EXTENDS BundlePipeline, TLAPS

(***************************************************************************)
(* Jobs and executions are well typed, whatever the BullMQ steps do.       *)
(***************************************************************************)
QueueTypeOK == /\ jobs \subseteq Job /\ spent \subseteq Items
               /\ run \in [Workers -> Execution]

LEMMA ExceptType ==
    ASSUME NEW S, NEW T, NEW f \in [S -> T], NEW x, NEW v \in T
    PROVE  [f EXCEPT ![x] = v] \in [S -> T]
  OBVIOUS

LEMMA JobForType ==
    ASSUME NEW k \in QueueKinds \cup ScheduledKinds, NEW p \in Plans \cup {None},
           k # "newItem"
    PROVE  JobFor(k, p) \in Job
  BY CountsAssumption DEF JobFor, Job

LEMMA NewItemJobType ==
    ASSUME NEW i \in Items, NEW n \in Nat
    PROVE  NewItemJob(i, n) \in Job
  BY CountsAssumption DEF NewItemJob, Job, QueueKinds

LEMMA ExecType ==
    ASSUME NEW j \in Job, NEW pc \in Steps, NEW p \in Plans \cup {None},
           NEW b \in Bundles \cup {None}, NEW S \in SUBSET Items,
           NEW T \in SUBSET BundleRow,
           pc = "insert" => j.kind = "newItem",
           pc = "move" => p \in Plans,
           pc = "promote" => b \in Bundles
    PROVE  Exec(j, pc, p, b, S, T) \in Execution
  BY DEF Exec, Execution

LEMMA IdleType == Idle \in Execution
  <1>1. JobFor("plan", None) \in Job
    BY JobForType DEF ScheduledKinds
  <1> QED
    BY <1>1, ExecType DEF Idle, Steps

LEMMA AgainType ==
    ASSUME NEW j \in Job
    PROVE  /\ Again(j) \subseteq Job /\ Exhausted(j) \subseteq Items
           /\ j.kind = "newItem" => Again(j) # {} \/ j.item \in Exhausted(j)
           /\ \A a \in Again(j) : a.kind = j.kind /\ a.item = j.item /\ a.plan = j.plan
  <1>1. j.left \in 1..Attempts
    BY DEF Job
  <1>2. j.left > 1 => j.left - 1 \in 1..Attempts
    BY <1>1, CountsAssumption
  <1>3. CASE j.kind \in QueueKinds /\ j.left > 1
    <2>1. [j EXCEPT !.left = @ - 1] \in Job
      BY <1>2, <1>3 DEF Job
    <2>2. Again(j) = {[j EXCEPT !.left = @ - 1]} /\ Exhausted(j) = {}
      BY <1>1, <1>3, CountsAssumption DEF Again, Exhausted, Job
    <2> QED
      BY <2>1, <2>2 DEF Job
  <1>4. CASE ~(j.kind \in QueueKinds /\ j.left > 1)
    BY <1>1, <1>4, CountsAssumption DEF Again, Exhausted, Job, QueueKinds
  <1> QED
    BY <1>3, <1>4

LEMMA TakeType ==
    ASSUME QueueTypeOK, NEW w \in Workers, NEW j, NEW e \in Execution, Take(w, j, e)
    PROVE  QueueTypeOK'
  BY DEF QueueTypeOK, Take

LEMMA ThrowAtStartType ==
    ASSUME QueueTypeOK, NEW w \in Workers, NEW j \in jobs, ThrowAtStart(w, j)
    PROVE  QueueTypeOK'
  BY AgainType DEF QueueTypeOK, ThrowAtStart

LEMMA ThrowType ==
    ASSUME QueueTypeOK, NEW w \in Workers, Throw(w)
    PROVE  QueueTypeOK'
  <1>1. run[w].job \in Job
    BY DEF QueueTypeOK, Execution
  <1> QED
    BY <1>1, AgainType, IdleType DEF QueueTypeOK, Throw

LEMMA GotoType ==
    ASSUME QueueTypeOK, NEW w \in Workers, NEW pc \in Steps \ {"insert", "move", "promote"},
           Goto(w, pc)
    PROVE  QueueTypeOK'
  <1>1. [run[w] EXCEPT !.pc = pc] \in Execution
    BY DEF QueueTypeOK, Execution
  <1> QED
    BY <1>1 DEF QueueTypeOK, Goto, queueVars

LEMMA FinishType ==
    ASSUME QueueTypeOK, NEW w \in Workers, Finish(w)
    PROVE  QueueTypeOK'
  BY IdleType DEF QueueTypeOK, Finish, queueVars

LEMMA EnqueueLastType ==
    ASSUME QueueTypeOK, NEW w \in Workers, NEW j \in Job, EnqueueLast(w, j)
    PROVE  QueueTypeOK'
  BY IdleType DEF QueueTypeOK, EnqueueLast

LEMMA NextBatchType ==
    ASSUME QueueTypeOK, NEW w \in Workers, NEW batch,
           NEW pc \in Steps \ {"insert", "move", "promote"}, NextBatch(w, batch, pc)
    PROVE  QueueTypeOK'
  <1>1. run[w] \in Execution
    BY DEF QueueTypeOK
  <1>2. run[w].items \ batch \in SUBSET Items
    BY <1>1 DEF Execution
  <1>3. [run[w] EXCEPT !.items = run[w].items \ batch, !.pc = pc] \in Execution
    BY <1>1, <1>2 DEF Execution
  <1>4. [run[w] EXCEPT !.items = run[w].items \ batch, !.pc = run[w].pc] \in Execution
    BY <1>1, <1>2 DEF Execution
  <1> QED
    BY <1>1, <1>2, <1>3, <1>4 DEF QueueTypeOK, NextBatch, queueVars

LEMMA GoOnType ==
    ASSUME QueueTypeOK, NEW w \in Workers, NEW todo \in SUBSET BundleRow,
           NEW stuck \in BOOLEAN, GoOn(w, todo, stuck)
    PROVE  QueueTypeOK'
  <1>1. CASE todo = {} /\ stuck
    BY <1>1, ThrowType DEF GoOn
  <1>2. CASE todo = {} /\ ~stuck
    BY <1>2, FinishType DEF GoOn
  <1>3. CASE todo # {}
    <2> DEFINE pc == IF IsRedrive(w) THEN "count" ELSE "check"
               e  == Exec(run[w].job, pc, None, None, {}, todo)
    <2>1. run[w].job \in Job /\ pc \in Steps
      BY DEF QueueTypeOK, Execution, Steps
    <2>2. e \in Execution
      BY <2>1, ExecType
    <2>3. [e EXCEPT !.stuck = stuck] \in Execution
      BY <2>2 DEF Execution
    <2> QED
      BY <1>3, <2>3 DEF QueueTypeOK, GoOn, queueVars
  <1> QED
    BY <1>1, <1>2, <1>3

LEMMA NextRowType ==
    ASSUME QueueTypeOK, NEW w \in Workers, NextRow(w)
    PROVE  QueueTypeOK'
  <1>1. run[w].todo \in SUBSET BundleRow /\ run[w].stuck \in BOOLEAN
    BY DEF QueueTypeOK, Execution
  <1> QED
    BY <1>1, GoOnType DEF NextRow

LEMMA GiveUpType ==
    ASSUME QueueTypeOK, NEW w \in Workers, GiveUp(w)
    PROVE  QueueTypeOK'
  <1>1. run[w].todo \in SUBSET BundleRow /\ run[w].stuck \in BOOLEAN
    BY DEF QueueTypeOK, Execution
  <1>2. (run[w].stuck \/ At(w, "repackRest")) \in BOOLEAN
    BY <1>1 DEF At
  <1> QED
    BY <1>1, <1>2, GoOnType, ThrowType DEF GiveUp

LEMMA ReadPlannedType ==
    ASSUME TypeOK, NEW p, NEW S \in ReadPlanned(p)
    PROVE  S \in SUBSET Items
  <1>1. \A r \in planned : r.item \in Items
    BY DEF TypeOK, PlannedRow
  <1>2. CASE ReplicaLag
    <2> DEFINE shownOf == {i \in Items : <<p, i>> \in shown}
    <2>1. shownOf \subseteq Items /\ S \in SUBSET shownOf
      BY <1>2 DEF ReadPlanned
    <2> HIDE DEF shownOf
    <2> QED
      BY <2>1
  <1>3. CASE ~ReplicaLag
    BY <1>1, <1>3 DEF ReadPlanned, PlannedFor, ItemsOf
  <1> QED
    BY <1>2, <1>3

LEMMA SweepType ==
    ASSUME TypeOK, NEW w \in Workers, NEW r, NEW pc \in {"repack", "promote"}, Sweep(w, r, pc)
    PROVE  QueueTypeOK'
  <1>1. run[w] \in Execution /\ r \in BundleRow
    BY DEF TypeOK, Sweep, Execution
  <1>2. PICK S \in ReadPlanned(r.plan) :
           run' = [run EXCEPT ![w] =
              [run[w] EXCEPT !.pc = pc, !.plan = r.plan, !.bundle = r.bundle,
                             !.items = S, !.todo = run[w].todo \ {r}]]
    BY DEF Sweep
  <1>3. S \in SUBSET Items
    BY ReadPlannedType
  <1>4. [run[w] EXCEPT !.pc = pc, !.plan = r.plan, !.bundle = r.bundle,
                       !.items = S, !.todo = run[w].todo \ {r}] \in Execution
    BY <1>1, <1>3 DEF Execution, BundleRow, Steps
  <1> QED
    BY <1>1, <1>2, <1>4 DEF Sweep, TypeOK, QueueTypeOK, queueVars

(***************************************************************************)
(* Type correctness, action by action.                                     *)
(***************************************************************************)
TableTypeOK ==
    /\ newItem \subseteq ItemRow /\ planned \subseteq PlannedRow
    /\ permanent \subseteq PermanentRow /\ failed \subseteq Items
    /\ bundlePlan \subseteq Plans /\ usedPlans \subseteq Plans
    /\ bundles \in [BundleTables -> SUBSET BundleRow]
    /\ redrives \in [Bundles -> 0..(MaxRedrives + 1)]
    /\ payload \in [Plans -> SUBSET Items]
    /\ content \in [Bundles -> SUBSET Items]
    /\ chain \in [Bundles -> ChainState]
    /\ uploads \in [Items -> 0..MaxUploads]
    /\ faults \in 0..MaxFaults /\ stalls \in 0..MaxStalls
    /\ sweeps \in 0..MaxSweeps

LEMMA TypeSplit == TypeOK <=> QueueTypeOK /\ TableTypeOK
  BY DEF TypeOK, QueueTypeOK, TableTypeOK

LEMMA TypeSplitNext == TypeOK' <=> QueueTypeOK' /\ TableTypeOK'
  BY DEF TypeOK, QueueTypeOK, TableTypeOK

LEMMA InitType == Init => TypeOK
  BY IdleType, CountsAssumption
  DEF Init, TypeOK, BundleTables, ChainState

LEMMA UploadType ==
    ASSUME TypeOK, NEW i \in Items, Upload(i) \/ UploadRefused(i)
    PROVE  TypeOK'
  <1>1. CASE Upload(i)
    <2>1. uploads[i] + 1 \in 0..MaxUploads
      BY <1>1, CountsAssumption DEF TypeOK, Upload
    <2>2. NewItemJob(i, uploads[i] + 1) \in Job
      BY <2>1, NewItemJobType
    <2> QED
      BY <1>1, <2>1, <2>2, CountsAssumption
      DEF TypeOK, Upload, bundleVars, storeVars
  <1>2. CASE UploadRefused(i)
    BY <1>2 DEF TypeOK, UploadRefused, bundleVars, storeVars, queueVars, boundVars
  <1> QED
    BY <1>1, <1>2

LEMMA IngestReadType ==
    ASSUME TypeOK, NEW w \in Workers, NEW j \in jobs, IngestRead(w, j)
    PROVE  TypeOK'
  <1>1. j \in Job
    BY DEF TypeOK
  <1>2. Exec(j, "insert", None, None, {}, {}) \in Execution
    BY <1>1, ExecType DEF Steps, IngestRead
  <1>3. QueueTypeOK'
    BY <1>2, TypeSplit, TakeType, IdleType DEF IngestRead, DropJob
  <1>4. TableTypeOK'
    BY DEF TypeOK, TableTypeOK, IngestRead, bundleVars, storeVars, boundVars
  <1> QED
    BY <1>3, <1>4, TypeSplitNext

LEMMA IngestInsertType ==
    ASSUME TypeOK, NEW w \in Workers, IngestInsert(w)
    PROVE  TypeOK'
  <1>1. QueueTypeOK'
    BY TypeSplit, FinishType DEF IngestInsert
  <1>2. run[w].job.item \in Items /\ run[w].job.up \in Nat
    BY DEF TypeOK, Execution, Job, IngestInsert, At
  <1>3. TableTypeOK'
    BY <1>2 DEF TypeOK, TableTypeOK, IngestInsert, ItemRow, bundleVars, storeVars, boundVars
  <1> QED
    BY <1>1, <1>3, TypeSplitNext

LEMMA MoveRowsType ==
    ASSUME bundles \in [BundleTables -> SUBSET BundleRow],
           NEW rows \in SUBSET BundleRow,
           NEW from \in BundleTables, NEW to \in BundleTables,
           MoveRows(rows, from, to)
    PROVE  bundles' \in [BundleTables -> SUBSET BundleRow]
  BY DEF MoveRows

LEMMA PlanType ==
    ASSUME TypeOK, NEW w \in Workers,
           \/ \E S \in SUBSET ItemsOf(newItem), p \in Plans : PlanStart(w, S, p)
           \/ \E batch \in SUBSET run[w].items : PlanMove(w, batch)
           \/ PlanFails(w)
           \/ PlanEnqueue(w)
    PROVE  TypeOK'
  <1> USE TypeSplit
  <1>1. ASSUME NEW S \in SUBSET ItemsOf(newItem), NEW p \in Plans, PlanStart(w, S, p)
        PROVE  TypeOK'
    <2>1. S \in SUBSET Items
      BY DEF TypeOK, ItemsOf, ItemRow
    <2>2. JobFor("plan", None) \in Job
      BY JobForType DEF ScheduledKinds
    <2>3. Exec(JobFor("plan", None), "move", p, None, S, {}) \in Execution
      BY <2>1, <2>2, ExecType DEF Steps
    <2>4. QueueTypeOK'
      BY <1>1, <2>3 DEF QueueTypeOK, PlanStart, queueVars
    <2>5. TableTypeOK'
      BY <1>1 DEF TableTypeOK, PlanStart, itemVars, storeVars, boundVars
    <2> QED
      BY <2>4, <2>5, TypeSplitNext
  <1>2. ASSUME NEW batch \in SUBSET run[w].items, PlanMove(w, batch)
        PROVE  TypeOK'
    <2>1. QueueTypeOK'
      BY <1>2, NextBatchType DEF PlanMove, Steps
    <2>2. run[w].plan \in Plans
      BY <1>2 DEF TypeOK, Execution, PlanMove, At
    <2>3. TableTypeOK'
      BY <1>2, <2>2 DEF TableTypeOK, PlanMove, ItemRow, PlannedRow,
                       bundleVars, storeVars, boundVars
    <2> QED
      BY <2>1, <2>3, TypeSplitNext
  <1>3. CASE PlanFails(w)
    <2>1. QueueTypeOK'
      BY <1>3, ThrowType DEF PlanFails
    <2>2. TableTypeOK'
      BY <1>3 DEF TableTypeOK, PlanFails, itemVars, bundleVars, storeVars, boundVars
    <2> QED
      BY <2>1, <2>2, TypeSplitNext
  <1>4. CASE PlanEnqueue(w)
    <2>1. JobFor("prepare", run[w].plan) \in Job
      BY JobForType DEF TypeOK, Execution, QueueKinds
    <2>2. QueueTypeOK'
      BY <1>4, <2>1, EnqueueLastType DEF PlanEnqueue
    <2>3. TableTypeOK'
      BY <1>4 DEF TableTypeOK, PlanEnqueue, itemVars, bundleVars, storeVars, boundVars
    <2> QED
      BY <2>2, <2>3, TypeSplitNext
  <1> QED
    BY <1>1, <1>2, <1>3, <1>4

LEMMA PrepareStartType ==
    ASSUME TypeOK, NEW w \in Workers, NEW j \in jobs, PrepareStart(w, j)
    PROVE  TypeOK'
  <1>1. j \in Job
    BY DEF TypeOK
  <1>2. QueueTypeOK'
    <2>1. CASE DropJob(w, j)
      BY <2>1, TypeSplit, TakeType, IdleType DEF DropJob
    <2>2. CASE ThrowAtStart(w, j)
      BY <2>2, TypeSplit, ThrowAtStartType
    <2>3. ASSUME NEW S \in ReadPlanned(j.plan), j.plan \in bundlePlan \cup usedPlans,
                 Take(w, j, Exec(j, "store", j.plan, None, S, {}))
          PROVE  QueueTypeOK'
      <3>1. S \in SUBSET Items
        BY ReadPlannedType
      <3>2. Exec(j, "store", j.plan, None, S, {}) \in Execution
        BY <1>1, <2>3, <3>1, ExecType DEF TypeOK, Steps
      <3> QED
        BY <2>3, <3>2, TypeSplit, TakeType
    <2> QED
      BY <2>1, <2>2, <2>3 DEF PrepareStart
  <1>3. TableTypeOK'
    BY TypeSplit DEF TableTypeOK, PrepareStart, itemVars, bundleVars, storeVars, boundVars
  <1> QED
    BY <1>2, <1>3, TypeSplitNext

LEMMA StepPrepareType ==
    ASSUME TypeOK, NEW w \in Workers, StepPrepare(w)
    PROVE  TypeOK'
  <1> USE TypeSplit
  <1>0. run[w].job \in Job /\ run[w].plan \in Plans \cup {None}
        /\ run[w].items \in SUBSET Items
    BY DEF TypeOK, Execution
  <1>1. CASE PrepareStore(w)
    <2>1. QueueTypeOK'
      BY <1>1, GotoType DEF PrepareStore, Steps
    <2>2. TableTypeOK'
      BY <1>0, <1>1 DEF TableTypeOK, PrepareStore, itemVars, bundleVars, boundVars
    <2> QED
      BY <2>1, <2>2, TypeSplitNext
  <1>2. CASE PrepareLoses(w)
    <2>1. QueueTypeOK'
      BY <1>2, FinishType, ThrowType DEF PrepareLoses
    <2>2. TableTypeOK'
      BY <1>2 DEF TableTypeOK, PrepareLoses, itemVars, bundleVars, storeVars, boundVars
    <2> QED
      BY <2>1, <2>2, TypeSplitNext
  <1>3. CASE PrepareEnqueue(w)
    <2>1. JobFor("post", run[w].plan) \in Job
      BY <1>0, JobForType DEF QueueKinds
    <2>2. QueueTypeOK'
      BY <1>3, <2>1, EnqueueLastType DEF PrepareEnqueue
    <2>3. TableTypeOK'
      BY <1>3 DEF TableTypeOK, PrepareEnqueue, itemVars, bundleVars, storeVars, boundVars
    <2> QED
      BY <2>2, <2>3, TypeSplitNext
  <1>4. ASSUME NEW i \in Items, PrepareMissing(w, i)
        PROVE  TypeOK'
    <2>1. QueueTypeOK'
      BY <1>0, <1>4, EnqueueLastType, ThrowType DEF PrepareMissing
    <2>2. TableTypeOK'
      BY <1>4 DEF TableTypeOK, PrepareMissing, bundleVars, storeVars, boundVars
    <2> QED
      BY <2>1, <2>2, TypeSplitNext
  <1>5. ASSUME NEW b \in Bundles, PrepareSign(w, b)
        PROVE  TypeOK'
    <2>1. QueueTypeOK'
      BY <1>5, GotoType DEF PrepareSign, Steps
    <2>2. run[w].plan \in Plans
      BY <1>5 DEF PrepareSign, TypeOK
    <2>3. TableTypeOK'
      BY <1>5, <2>2 DEF TableTypeOK, PrepareSign, BundleTables, BundleRow, ChainState,
                        itemVars, boundVars
    <2> QED
      BY <2>1, <2>3, TypeSplitNext
  <1> QED
    BY <1>1, <1>2, <1>3, <1>4, <1>5 DEF StepPrepare

LEMMA PostStartType ==
    ASSUME TypeOK, NEW w \in Workers, NEW j \in jobs, PostStart(w, j)
    PROVE  TypeOK'
  <1>1. j \in Job
    BY DEF TypeOK
  <1>2. QueueTypeOK'
    <2>1. CASE DropJob(w, j)
      BY <2>1, TypeSplit, TakeType, IdleType DEF DropJob
    <2>2. CASE ThrowAtStart(w, j)
      BY <2>2, TypeSplit, ThrowAtStartType
    <2>3. ASSUME NEW r \in RowsIn("new", j.plan),
                 Take(w, j, Exec(j, "broadcast", r.plan, r.bundle, {}, {}))
          PROVE  QueueTypeOK'
      <3>1. r \in BundleRow
        BY DEF TypeOK, RowsIn, BundleTables
      <3>2. Exec(j, "broadcast", r.plan, r.bundle, {}, {}) \in Execution
        BY <1>1, <3>1, ExecType DEF BundleRow, Steps
      <3> QED
        BY <2>3, <3>2, TypeSplit, TakeType
    <2> QED
      BY <2>1, <2>2, <2>3 DEF PostStart
  <1>3. TableTypeOK'
    BY TypeSplit DEF TableTypeOK, PostStart, itemVars, bundleVars, storeVars, boundVars
  <1> QED
    BY <1>2, <1>3, TypeSplitNext

LEMMA SeedStartType ==
    ASSUME TypeOK, NEW w \in Workers, NEW j \in jobs, SeedStart(w, j)
    PROVE  TypeOK'
  <1>1. j \in Job
    BY DEF TypeOK
  <1>2. QueueTypeOK'
    <2>1. CASE DropJob(w, j)
      BY <2>1, TypeSplit, TakeType, IdleType DEF DropJob
    <2>2. CASE ThrowAtStart(w, j)
      BY <2>2, TypeSplit, ThrowAtStartType
    <2>3. ASSUME NEW r \in RowsIn("posted", j.plan),
                 Take(w, j, Exec(j, "stage", r.plan, r.bundle, {}, {}))
          PROVE  QueueTypeOK'
      <3>1. r \in BundleRow
        BY DEF TypeOK, RowsIn, BundleTables
      <3>2. Exec(j, "stage", r.plan, r.bundle, {}, {}) \in Execution
        BY <1>1, <3>1, ExecType DEF BundleRow, Steps
      <3> QED
        BY <2>3, <3>2, TypeSplit, TakeType
    <2> QED
      BY <2>1, <2>2, <2>3 DEF SeedStart
  <1>3. TableTypeOK'
    BY TypeSplit DEF TableTypeOK, SeedStart, itemVars, bundleVars, storeVars, boundVars
  <1> QED
    BY <1>2, <1>3, TypeSplitNext

LEMMA PostStepType ==
    ASSUME TypeOK, NEW w \in Workers,
           \/ PostBroadcast(w) \/ PostStatusSeen(w) \/ PostStatusNotSeen(w)
           \/ PostRecord(w) \/ PostEnqueue(w) \/ PostCatches(w)
    PROVE  TypeOK'
  <1> USE TypeSplit
  <1>1. CASE PostBroadcast(w)
    <2>1. QueueTypeOK'
      BY <1>1, GotoType DEF PostBroadcast, Steps
    <2>2. TableTypeOK'
      BY <1>1, CountsAssumption
      DEF TableTypeOK, PostBroadcast, ChainState, itemVars, bundleVars
    <2> QED
      BY <2>1, <2>2, TypeSplitNext
  <1>2. CASE PostStatusSeen(w)
    <2>1. QueueTypeOK'
      BY <1>2, GotoType DEF PostStatusSeen, Steps
    <2>2. TableTypeOK'
      BY <1>2 DEF TableTypeOK, PostStatusSeen, itemVars, bundleVars, storeVars, boundVars
    <2> QED
      BY <2>1, <2>2, TypeSplitNext
  <1>3. CASE PostStatusNotSeen(w)
    <2>1. QueueTypeOK'
      <3>1. CASE Throw(w)
        BY <3>1, ThrowType
      <3>2. ASSUME NEW S \in ReadPlanned(run[w].plan), UNCHANGED queueVars,
                   run' = [run EXCEPT ![w].pc = "repack", ![w].items = S]
            PROVE  QueueTypeOK'
        <4>1. S \in SUBSET Items /\ run[w] \in Execution
          BY ReadPlannedType DEF TypeOK
        <4>2. [run[w] EXCEPT !.pc = "repack", !.items = S] \in Execution
          BY <4>1 DEF Execution, Steps
        <4> QED
          BY <3>2, <4>2 DEF QueueTypeOK, queueVars
      <3> QED
        BY <1>3, <3>1, <3>2 DEF PostStatusNotSeen
    <2>2. TableTypeOK'
      BY <1>3, CountsAssumption
      DEF TableTypeOK, PostStatusNotSeen, itemVars, bundleVars, storeVars
    <2> QED
      BY <2>1, <2>2, TypeSplitNext
  <1>4. CASE PostRecord(w)
    <2>1. QueueTypeOK'
      BY <1>4, GotoType DEF PostRecord, Steps
    <2>2. bundles' \in [BundleTables -> SUBSET BundleRow]
      BY <1>4, MoveRowsType DEF TypeOK, PostRecord, BundleTables
    <2>3. TableTypeOK'
      BY <1>4, <2>2 DEF TableTypeOK, PostRecord, itemVars, storeVars, boundVars
    <2> QED
      BY <2>1, <2>3, TypeSplitNext
  <1>5. CASE PostEnqueue(w)
    <2>1. JobFor("seed", run[w].plan) \in Job
      BY JobForType DEF TypeOK, Execution, QueueKinds
    <2>2. QueueTypeOK'
      BY <1>5, <2>1, EnqueueLastType DEF PostEnqueue
    <2>3. TableTypeOK'
      BY <1>5 DEF TableTypeOK, PostEnqueue, itemVars, bundleVars, storeVars, boundVars
    <2> QED
      BY <2>2, <2>3, TypeSplitNext
  <1>6. CASE PostCatches(w)
    <2>1. QueueTypeOK'
      BY <1>6, GotoType DEF PostCatches, Steps
    <2>2. TableTypeOK'
      BY <1>6, CountsAssumption
      DEF TableTypeOK, PostCatches, itemVars, bundleVars, storeVars
    <2> QED
      BY <2>1, <2>2, TypeSplitNext
  <1> QED
    BY <1>1, <1>2, <1>3, <1>4, <1>5, <1>6

LEMMA SeedStepType ==
    ASSUME TypeOK, NEW w \in Workers, SeedInsert(w) \/ SeedEnqueue(w)
    PROVE  TypeOK'
  <1> USE TypeSplit
  <1>1. CASE SeedInsert(w)
    <2>1. QueueTypeOK'
      BY <1>1, GotoType, ThrowType DEF SeedInsert, Steps
    <2>2. bundles' \in [BundleTables -> SUBSET BundleRow]
      BY <1>1, MoveRowsType DEF TypeOK, SeedInsert, BundleTables
    <2>3. TableTypeOK'
      BY <1>1, <2>2 DEF TableTypeOK, SeedInsert, itemVars, storeVars, boundVars
    <2> QED
      BY <2>1, <2>3, TypeSplitNext
  <1>2. CASE SeedEnqueue(w)
    <2>1. JobFor("verify", None) \in Job
      BY JobForType DEF QueueKinds
    <2>2. QueueTypeOK'
      BY <1>2, <2>1, EnqueueLastType DEF SeedEnqueue
    <2>3. TableTypeOK'
      BY <1>2 DEF TableTypeOK, SeedEnqueue, itemVars, bundleVars, storeVars, boundVars
    <2> QED
      BY <2>2, <2>3, TypeSplitNext
  <1> QED
    BY <1>1, <1>2

LEMMA RepackType ==
    ASSUME TypeOK, NEW rows \in SUBSET planned, Repack(rows)
    PROVE  /\ newItem' \subseteq ItemRow /\ planned' \subseteq PlannedRow
           /\ permanent' \subseteq PermanentRow /\ failed' \subseteq Items
  <1>1. \A r \in rows : /\ r \in PlannedRow /\ r.item \in Items
                        /\ r.up \in Nat /\ r.fails + 1 \in Nat
    BY DEF TypeOK, PlannedRow
  <1>2. ItemsOf(OverLimit(rows)) \subseteq Items
    BY <1>1 DEF ItemsOf, OverLimit
  <1>3. newItem' \subseteq ItemRow
    BY <1>1 DEF TypeOK, Repack, ItemRow
  <1> QED
    BY <1>2, <1>3 DEF TypeOK, Repack

LEMMA RepackStepType ==
    ASSUME TypeOK, NEW w \in Workers, NEW batch \in SUBSET run[w].items,
           RepackHeld(w, batch) \/ RepackFails(w, batch)
    PROVE  TypeOK'
  <1> USE TypeSplit
  <1>1. CASE RepackHeld(w, batch)
    <2>1. QueueTypeOK'
      BY <1>1, NextBatchType DEF RepackHeld, Steps
    <2>2. RowsHeld(batch) \in SUBSET planned
      BY DEF RowsHeld
    <2>3. /\ newItem' \subseteq ItemRow /\ planned' \subseteq PlannedRow
          /\ permanent' \subseteq PermanentRow /\ failed' \subseteq Items
      BY <1>1, <2>2, RepackType DEF RepackHeld
    <2>4. TableTypeOK'
      BY <1>1, <2>3 DEF TableTypeOK, RepackHeld, bundleVars, storeVars, boundVars
    <2> QED
      BY <2>1, <2>4, TypeSplitNext
  <1>2. CASE RepackFails(w, batch)
    <2>1. QueueTypeOK'
      BY <1>2, GiveUpType DEF RepackFails
    <2>2. TableTypeOK'
      BY <1>2 DEF TableTypeOK, RepackFails, itemVars, bundleVars, storeVars, boundVars
    <2> QED
      BY <2>1, <2>2, TypeSplitNext
  <1> QED
    BY <1>1, <1>2

LEMMA DemoteType ==
    ASSUME TypeOK, NEW w \in Workers, Demote(w)
    PROVE  TypeOK'
  <1> DEFINE from == CASE run[w].job.kind = "post" -> "new"
                       [] IsRedrive(w) -> "posted"
                       [] OTHER -> "seeded"
             rows == IF from = "seeded" THEN RowsIn("seeded", run[w].plan)
                     ELSE {r \in bundles[from] : r.bundle = run[w].bundle}
  <1>1. from \in BundleTables
    BY DEF BundleTables, IsRedrive
  <1>2. rows \in SUBSET BundleRow
    BY <1>1 DEF TypeOK, RowsIn
  <1>3. /\ MoveRows(rows, from, "failed")
        /\ redrives' = IF IsRedrive(w) THEN [redrives EXCEPT ![run[w].bundle] = 0]
                       ELSE redrives
        /\ IF IsSweep(w) THEN NextRow(w)
           ELSE IF rows = {} THEN Throw(w) ELSE Finish(w)
    BY DEF Demote
  <1>4. bundles' \in [BundleTables -> SUBSET BundleRow]
    <2> HIDE DEF from, rows
    <2> QED
      BY <1>1, <1>2, <1>3, MoveRowsType DEF TypeOK, BundleTables
  <1>5. redrives' \in [Bundles -> 0..(MaxRedrives + 1)]
    <2>1. 0 \in 0..(MaxRedrives + 1)
      BY CountsAssumption
    <2> QED
      BY <1>3, <2>1, ExceptType DEF TypeOK
  <1>6. QueueTypeOK'
    BY <1>3, TypeSplit, NextRowType, ThrowType, FinishType
  <1>7. TableTypeOK'
    BY <1>4, <1>5, TypeSplit DEF TableTypeOK, Demote, itemVars, storeVars, boundVars
  <1> QED
    BY <1>6, <1>7, TypeSplitNext

LEMMA VerifyStartType ==
    ASSUME TypeOK, NEW w \in Workers, NEW j \in jobs, VerifyStart(w, j)
    PROVE  TypeOK'
  <1>1. j \in Job /\ bundles["seeded"] \in SUBSET BundleRow
    BY DEF TypeOK, BundleTables
  <1>2. Exec(j, "check", None, None, {}, bundles["seeded"]) \in Execution
    BY <1>1, ExecType DEF Steps
  <1>3. QueueTypeOK'
    BY <1>2, TypeSplit, TakeType, IdleType DEF VerifyStart, DropJob
  <1>4. TableTypeOK'
    BY TypeSplit DEF TableTypeOK, VerifyStart, itemVars, bundleVars, storeVars, boundVars
  <1> QED
    BY <1>3, <1>4, TypeSplitNext

LEMMA StepSweepType ==
    ASSUME TypeOK, NEW w \in Workers, StepSweep(w)
    PROVE  TypeOK'
  <1> USE TypeSplit
  <1>0. PICK r \in run[w].todo :
            \/ VerifyDrop(w, r) \/ VerifyConfirmed(w, r) \/ VerifySkip(w, r)
            \/ RedriveSeed(w, r) \/ RedriveDemote(w, r)
    BY DEF StepSweep
  <1>a. run[w].todo \in SUBSET BundleRow /\ run[w].stuck \in BOOLEAN
        /\ run[w] \in Execution
    BY DEF TypeOK, Execution
  <1>1. CASE VerifyDrop(w, r)
    <2>1. QueueTypeOK'
      BY <1>1, SweepType DEF VerifyDrop
    <2>2. TableTypeOK'
      BY <1>1 DEF TableTypeOK, VerifyDrop, itemVars, bundleVars, storeVars, boundVars
    <2> QED
      BY <2>1, <2>2, TypeSplitNext
  <1>2. CASE VerifyConfirmed(w, r)
    <2>1. QueueTypeOK'
      BY <1>2, SweepType DEF VerifyConfirmed
    <2>2. TableTypeOK'
      BY <1>2 DEF TableTypeOK, VerifyConfirmed, itemVars, bundleVars, storeVars, boundVars
    <2> QED
      BY <2>1, <2>2, TypeSplitNext
  <1>3. CASE VerifySkip(w, r)
    <2>1. run[w].todo \ {r} \in SUBSET BundleRow
      BY <1>a
    <2>2. QueueTypeOK'
      BY <1>3, <1>a, <2>1, GoOnType DEF VerifySkip
    <2>3. TableTypeOK'
      BY <1>3 DEF TableTypeOK, VerifySkip, itemVars, bundleVars, storeVars, boundVars
    <2> QED
      BY <2>2, <2>3, TypeSplitNext
  <1>4. CASE RedriveSeed(w, r)
    <2>1. r \in BundleRow
      BY <1>a
    <2>2. JobFor("seed", r.plan) \in Job
      BY <2>1, JobForType DEF BundleRow, QueueKinds
    <2>3. [run[w] EXCEPT !.todo = run[w].todo \ {r}] \in Execution
      BY <1>a DEF Execution
    <2>4. QueueTypeOK'
      BY <1>4, <2>2, <2>3, IdleType DEF QueueTypeOK, RedriveSeed
    <2>5. redrives' \in [Bundles -> 0..(MaxRedrives + 1)]
      <3>1. r.bundle \in Bundles /\ redrives[r.bundle] \in 0..(MaxRedrives + 1)
        BY <2>1 DEF TypeOK, BundleRow
      <3>2. redrives[r.bundle] + 1 \in 0..(MaxRedrives + 1)
        BY <1>4, <3>1, CountsAssumption DEF RedriveSeed
      <3>3. redrives' = [redrives EXCEPT ![r.bundle] = redrives[r.bundle] + 1]
        BY <1>4 DEF RedriveSeed
      <3> QED
        BY <3>2, <3>3, ExceptType DEF TypeOK
    <2>6. TableTypeOK'
      BY <1>4, <2>5, CountsAssumption DEF TableTypeOK, RedriveSeed, itemVars, storeVars
    <2> QED
      BY <2>4, <2>6, TypeSplitNext
  <1>5. CASE RedriveDemote(w, r)
    <2>1. QueueTypeOK'
      BY <1>5, SweepType DEF RedriveDemote
    <2>2. redrives' \in [Bundles -> 0..(MaxRedrives + 1)]
      <3>1. MaxRedrives + 1 \in 0..(MaxRedrives + 1)
        BY CountsAssumption
      <3> QED
        BY <1>5, <3>1, ExceptType DEF TypeOK, RedriveDemote
    <2>3. TableTypeOK'
      BY <1>5, <2>2 DEF TableTypeOK, RedriveDemote, itemVars, storeVars, boundVars
    <2> QED
      BY <2>1, <2>3, TypeSplitNext
  <1> QED
    BY <1>0, <1>1, <1>2, <1>3, <1>4, <1>5

LEMMA PromoteType ==
    ASSUME TypeOK, NEW b \in Bundles, NEW rows \in SUBSET planned, Promote(rows, b)
    PROVE  /\ newItem' \subseteq ItemRow /\ planned' \subseteq PlannedRow
           /\ permanent' \subseteq PermanentRow /\ failed' \subseteq Items
  <1>1. \A r \in rows : r.item \in Items /\ r.up \in Nat
    BY DEF TypeOK, PlannedRow
  <1>2. \A r \in rows : PermanentRowOf(r, b) \in PermanentRow
    BY <1>1 DEF PermanentRowOf, PermanentRow
  <1> QED
    BY <1>1, <1>2 DEF TypeOK, Promote, ItemsOf

LEMMA VerifyPromotionType ==
    ASSUME TypeOK, NEW w \in Workers,
           VerifyPromote(w) \/ VerifyPromoteSome(w) \/ VerifyFinalize(w)
    PROVE  TypeOK'
  <1> USE TypeSplit
  <1>a. run[w] \in Execution /\ RowsToPromote(w) \in SUBSET planned
    BY DEF TypeOK, RowsToPromote
  <1>1. CASE VerifyPromote(w)
    <2>1. run[w].bundle \in Bundles
      BY <1>1, <1>a DEF VerifyPromote, At, Execution
    <2>2. /\ newItem' \subseteq ItemRow /\ planned' \subseteq PlannedRow
          /\ permanent' \subseteq PermanentRow /\ failed' \subseteq Items
      BY <1>1, <1>a, <2>1, PromoteType DEF VerifyPromote
    <2>3. NotInHeader(w) \in SUBSET Items
      BY <1>a DEF NotInHeader, Execution
    <2>4. [run[w] EXCEPT !.pc = "repackRest", !.items = NotInHeader(w)] \in Execution
      BY <1>a, <2>3 DEF Execution, Steps
    <2>5. QueueTypeOK'
      <3>1. CASE Goto(w, "finalize")
        BY <3>1, GotoType DEF Steps
      <3>2. CASE NextRow(w)
        BY <3>2, NextRowType
      <3>3. CASE /\ UNCHANGED queueVars
                 /\ run' = [run EXCEPT ![w].pc = "repackRest",
                                       ![w].items = NotInHeader(w)]
        BY <2>4, <3>3 DEF QueueTypeOK, queueVars
      <3> QED
        BY <1>1, <3>1, <3>2, <3>3 DEF VerifyPromote
    <2>6. TableTypeOK'
      BY <1>1, <2>2 DEF TableTypeOK, VerifyPromote, bundleVars, storeVars, boundVars
    <2> QED
      BY <2>5, <2>6, TypeSplitNext
  <1>2. CASE VerifyPromoteSome(w)
    <2>1. run[w].bundle \in Bundles /\ run[w].todo \in SUBSET BundleRow
      BY <1>2, <1>a DEF VerifyPromoteSome, At, Execution
    <2>2. /\ newItem' \subseteq ItemRow /\ planned' \subseteq PlannedRow
          /\ permanent' \subseteq PermanentRow /\ failed' \subseteq Items
      <3>1. PICK rows \in SUBSET RowsToPromote(w) : Promote(rows, run[w].bundle)
        BY <1>2 DEF VerifyPromoteSome
      <3> QED
        BY <1>a, <2>1, <3>1, PromoteType
    <2>3. QueueTypeOK'
      BY <1>2, <2>1, NextRowType, GoOnType DEF VerifyPromoteSome
    <2>4. TableTypeOK'
      BY <1>2, <2>2, CountsAssumption
      DEF TableTypeOK, VerifyPromoteSome, bundleVars, storeVars
    <2> QED
      BY <2>3, <2>4, TypeSplitNext
  <1>3. CASE VerifyFinalize(w)
    <2>1. QueueTypeOK'
      BY <1>3, NextRowType DEF VerifyFinalize
    <2>2. RowsIn("seeded", run[w].plan) \in SUBSET BundleRow
      BY DEF TypeOK, RowsIn, BundleTables
    <2>3. bundles' \in [BundleTables -> SUBSET BundleRow]
      BY <1>3, <2>2, MoveRowsType DEF TypeOK, VerifyFinalize, BundleTables
    <2>4. TableTypeOK'
      BY <1>3, <2>3 DEF TableTypeOK, VerifyFinalize, itemVars, storeVars, boundVars
    <2> QED
      BY <2>1, <2>4, TypeSplitNext
  <1> QED
    BY <1>1, <1>2, <1>3

LEMMA FaultType ==
    ASSUME TypeOK, NEW w \in Workers, HandlerFails(w) \/ Stall(w)
    PROVE  TypeOK'
  <1> USE TypeSplit
  <1>1. CASE HandlerFails(w)
    <2>1. QueueTypeOK'
      BY <1>1, ThrowType DEF HandlerFails
    <2>2. TableTypeOK'
      BY <1>1, CountsAssumption
      DEF TableTypeOK, HandlerFails, itemVars, bundleVars, storeVars
    <2> QED
      BY <2>1, <2>2, TypeSplitNext
  <1>2. CASE Stall(w)
    <2>1. run[w].job \in Job
      BY DEF TypeOK, Execution
    <2>2. QueueTypeOK'
      BY <1>2, <2>1 DEF QueueTypeOK, Stall
    <2>3. TableTypeOK'
      BY <1>2, CountsAssumption
      DEF TableTypeOK, Stall, itemVars, bundleVars, storeVars
    <2> QED
      BY <2>2, <2>3, TypeSplitNext
  <1> QED
    BY <1>1, <1>2

LEMMA NetworkType ==
    ASSUME TypeOK, Network
    PROVE  TypeOK'
  <1> USE TypeSplit
  <1>1. PICK b \in Bundles : Mine(b) \/ Confirm(b) \/ Deepen(b) \/ Expire(b) \/ Reorg(b)
    BY DEF Network
  <1>2. QueueTypeOK'
    BY <1>1
    DEF Mine, Confirm, Deepen, Expire, Reorg, QueueTypeOK, SetChain, queueVars
  <1>3. chain' \in [Bundles -> ChainState]
    BY <1>1 DEF TypeOK, Mine, Confirm, Deepen, Expire, Reorg, SetChain, ChainState
  <1>4. TableTypeOK'
    BY <1>1, <1>3, CountsAssumption
    DEF TableTypeOK, Mine, Confirm, Deepen, Expire, Reorg, SetChain,
        itemVars, bundleVars, boundVars
  <1> QED
    BY <1>2, <1>4, TypeSplitNext

LEMMA VerifyTickType ==
    ASSUME TypeOK, VerifyTick
    PROVE  TypeOK'
  <1>1. JobFor("verify", None) \in Job
    BY JobForType DEF QueueKinds
  <1>2. QueueTypeOK'
    BY <1>1, TypeSplit DEF QueueTypeOK, VerifyTick
  <1>3. TableTypeOK'
    BY TypeSplit DEF TableTypeOK, VerifyTick, itemVars, bundleVars, storeVars, boundVars
  <1> QED
    BY <1>2, <1>3, TypeSplitNext

LEMMA RedriveStartType ==
    ASSUME TypeOK, NEW w \in Workers, StartRedrive(w)
    PROVE  TypeOK'
  <1>1. PICK T \in SUBSET bundles["posted"] : RedriveStart(w, T)
    BY DEF StartRedrive
  <1>2. T \in SUBSET BundleRow
    BY DEF TypeOK, BundleTables
  <1>3. JobFor("redrive", None) \in Job
    BY JobForType DEF ScheduledKinds
  <1>4. Exec(JobFor("redrive", None), "count", None, None, {}, T) \in Execution
    BY <1>2, <1>3, ExecType DEF Steps
  <1>5. QueueTypeOK'
    BY <1>1, <1>4, TypeSplit DEF QueueTypeOK, RedriveStart, queueVars
  <1>6. TableTypeOK'
    BY <1>1, CountsAssumption, TypeSplit
    DEF TableTypeOK, RedriveStart, itemVars, bundleVars, storeVars
  <1> QED
    BY <1>5, <1>6, TypeSplitNext

LEMMA AdvanceType ==
    ASSUME TypeOK, NEW w \in Workers, Advance(w)
    PROVE  TypeOK'
  BY IngestInsertType, PlanType, RepackStepType, StepPrepareType, PostStepType,
     SeedStepType, DemoteType, StepSweepType, VerifyPromotionType
  DEF Advance

LEMMA StartQueuedType ==
    ASSUME TypeOK, NEW w \in Workers, StartQueued(w)
    PROVE  TypeOK'
  BY IngestReadType, PrepareStartType, PostStartType, SeedStartType, VerifyStartType
  DEF StartQueued

LEMMA StutterType == TypeOK /\ UNCHANGED vars => TypeOK'
  BY DEF TypeOK, vars, itemVars, bundleVars, storeVars, queueVars, boundVars

LEMMA NextType == TypeOK /\ [Next]_vars => TypeOK'
  <1> SUFFICES ASSUME TypeOK, [Next]_vars PROVE TypeOK'
    OBVIOUS
  <1>1. ASSUME NEW i \in Items, Upload(i) \/ UploadRefused(i) PROVE TypeOK'
    BY <1>1, UploadType
  <1>2. ASSUME NEW w \in Workers, StartQueued(w) PROVE TypeOK'
    BY <1>2, StartQueuedType
  <1>3. ASSUME NEW w \in Workers, StartPlan(w) PROVE TypeOK'
    BY <1>3, PlanType DEF StartPlan
  <1>4. ASSUME NEW w \in Workers, StartRedrive(w) PROVE TypeOK'
    BY <1>4, RedriveStartType
  <1>5. ASSUME NEW w \in Workers, Advance(w) PROVE TypeOK'
    BY <1>5, AdvanceType
  <1>6. ASSUME NEW w \in Workers, Fault(w) PROVE TypeOK'
    BY <1>6, FaultType, PostStepType, VerifyPromotionType DEF Fault
  <1>7. CASE VerifyTick
    BY <1>7, VerifyTickType
  <1>8. CASE Network
    BY <1>8, NetworkType
  <1>9. CASE UNCHANGED vars
    BY <1>9, StutterType
  <1> QED
    BY <1>1, <1>2, <1>3, <1>4, <1>5, <1>6, <1>7, <1>8, <1>9 DEF Next

LEMMA SpecSteps == Spec => Init /\ [][Next]_vars
  <1>1. [Next /\ Shows]_allVars => [Next]_vars
    BY DEF allVars
  <1> QED
    BY <1>1, PTL DEF Spec

\* In every behaviour each variable keeps its type: in particular an execution
\* that inserts carries an item, one that moves rows has a plan, one that
\* promotes has a bundle, and a re-drive counter stops one past its limit.
THEOREM TypeCorrect == Spec => []TypeOK
  BY InitType, NextType, SpecSteps, PTL

(***************************************************************************)
(* No accepted item is lost.  The queue steps keep an item that is being   *)
(* ingested where a newDataItem job or execution carries it ...            *)
(***************************************************************************)
InHand(i) == Ingesting(i) \/ i \in spent
IngestKept == \A i \in Items : InHand(i) => InHand(i)'

LEMMA OthersKeepIngest ==
    ASSUME NEW w \in Workers, ~At(w, "insert"),
           jobs \subseteq jobs', spent \subseteq spent',
           \A v \in Workers \ {w} : run'[v] = run[v]
    PROVE  IngestKept
  <1> SUFFICES ASSUME NEW i \in Items, InHand(i) PROVE InHand(i)'
    BY DEF IngestKept
  <1>1. CASE \E j \in jobs : j.kind = "newItem" /\ j.item = i
    BY <1>1 DEF InHand, Ingesting
  <1>2. CASE \E v \in Workers : At(v, "insert") /\ run[v].job.item = i
    BY <1>2 DEF InHand, Ingesting, At
  <1>3. CASE i \in spent
    BY <1>3 DEF InHand
  <1> QED
    BY <1>1, <1>2, <1>3 DEF InHand, Ingesting

LEMMA TakeKeepsIngest ==
    ASSUME TypeOK, NEW w \in Workers, NEW j, NEW e, j.kind # "newItem", Take(w, j, e)
    PROVE  IngestKept
  <1> SUFFICES ASSUME NEW i \in Items, InHand(i) PROVE InHand(i)'
    BY DEF IngestKept
  <1>1. CASE \E k \in jobs : k.kind = "newItem" /\ k.item = i
    BY <1>1 DEF InHand, Ingesting, Take
  <1>2. CASE \E v \in Workers : At(v, "insert") /\ run[v].job.item = i
    <2>1. PICK v \in Workers : At(v, "insert") /\ run[v].job.item = i
      BY <1>2
    <2>2. v # w /\ run'[v] = run[v]
      BY <2>1 DEF Take, Idle, Exec, At, TypeOK
    <2> QED
      BY <2>1, <2>2 DEF InHand, Ingesting, At
  <1>3. CASE i \in spent
    BY <1>3 DEF InHand, Take
  <1> QED
    BY <1>1, <1>2, <1>3 DEF InHand, Ingesting

LEMMA ThrowAtStartKeepsIngest ==
    ASSUME NEW w \in Workers, NEW j, j.kind # "newItem", ThrowAtStart(w, j)
    PROVE  IngestKept
  <1> SUFFICES ASSUME NEW i \in Items, InHand(i) PROVE InHand(i)'
    BY DEF IngestKept
  <1>1. CASE \E k \in jobs : k.kind = "newItem" /\ k.item = i
    BY <1>1 DEF InHand, Ingesting, ThrowAtStart
  <1>2. CASE (\E v \in Workers : At(v, "insert") /\ run[v].job.item = i) \/ i \in spent
    BY <1>2 DEF InHand, Ingesting, ThrowAtStart, At
  <1> QED
    BY <1>1, <1>2 DEF InHand, Ingesting

LEMMA ThrowKeepsIngest ==
    ASSUME TypeOK, NEW w \in Workers, Throw(w)
    PROVE  IngestKept
  <1>1. jobs \subseteq jobs' /\ spent \subseteq spent'
        /\ \A v \in Workers \ {w} : run'[v] = run[v]
    BY DEF Throw, TypeOK
  <1>2. CASE ~At(w, "insert")
    BY <1>1, <1>2, OthersKeepIngest
  <1>3. CASE At(w, "insert")
    <2> DEFINE j == run[w].job
    <2>1. j \in Job /\ j.kind = "newItem"
      BY <1>3 DEF TypeOK, Execution, At
    <2>2. \/ \E k \in Again(j) : k.kind = "newItem" /\ k.item = j.item
          \/ j.item \in Exhausted(j)
      BY <2>1, AgainType
    <2>3. ASSUME NEW i, i = j.item PROVE InHand(i)'
      BY <2>2, <2>3 DEF Throw, InHand, Ingesting
    <2> SUFFICES ASSUME NEW i \in Items, InHand(i) PROVE InHand(i)'
      BY DEF IngestKept
    <2>4. CASE (\E k \in jobs : k.kind = "newItem" /\ k.item = i) \/ i \in spent
      BY <1>1, <2>4 DEF InHand, Ingesting
    <2>5. ASSUME NEW v \in Workers, At(v, "insert"), run[v].job.item = i
          PROVE  InHand(i)'
      <3>1. CASE v = w
        BY <2>3, <2>5, <3>1
      <3>2. CASE v # w
        BY <1>1, <2>5, <3>2 DEF InHand, Ingesting, At
      <3> QED
        BY <3>1, <3>2
    <2> QED
      BY <2>4, <2>5 DEF InHand, Ingesting
  <1> QED
    BY <1>2, <1>3

LEMMA QueueStepKeepsIngest ==
    ASSUME TypeOK, NEW w \in Workers, ~At(w, "insert"),
           \/ Finish(w)
           \/ \E pc \in Steps : Goto(w, pc)
           \/ \E j \in Job : EnqueueLast(w, j)
           \/ \E batch, pc : NextBatch(w, batch, pc)
           \/ \E todo, stuck : GoOn(w, todo, stuck)
           \/ \E r, pc : Sweep(w, r, pc)
           \/ GiveUp(w)
    PROVE  IngestKept
  <1>1. CASE Throw(w)
    BY <1>1, ThrowKeepsIngest
  <1>2. CASE ~Throw(w)
    <2>1. jobs \subseteq jobs' /\ spent \subseteq spent'
          /\ \A v \in Workers \ {w} : run'[v] = run[v]
      BY <1>2 DEF Finish, Goto, EnqueueLast, NextBatch, GoOn, Sweep, GiveUp,
                  queueVars, TypeOK
    <2> QED
      BY <2>1, OthersKeepIngest
  <1> QED
    BY <1>1, <1>2

(***************************************************************************)
(* ... and the steps on the item tables keep a recorded item recorded.     *)
(***************************************************************************)
RecordKept == \A i \in Items : Recorded(i) => Recorded(i)'

LEMMA InItemsOf ==
    ASSUME NEW rows, NEW i
    PROVE  i \in ItemsOf(rows) <=> \E r \in rows : r.item = i
  BY DEF ItemsOf

LEMMA SameTablesKeepRecord ==
    ASSUME UNCHANGED itemVars
    PROVE  RecordKept
  BY DEF RecordKept, Recorded, ExistingItems, itemVars

LEMMA PlanMoveKeepsRecord ==
    ASSUME NEW w \in Workers, NEW batch, PlanMove(w, batch)
    PROVE  RecordKept
  <1> DEFINE rows  == {r \in newItem : r.item \in batch}
             M(r)  == [item |-> r.item, up |-> r.up, fails |-> r.fails,
                       plan |-> run[w].plan]
             moved == {M(r) : r \in rows}
  <1>1. newItem' = newItem \ rows /\ planned' = planned \cup moved
        /\ permanent' = permanent /\ failed' = failed
    BY DEF PlanMove
  <1>2. \A r \in rows : M(r) \in moved /\ M(r).item = r.item
    OBVIOUS
  <1>3. ItemsOf(newItem) \cup ItemsOf(planned) \subseteq ItemsOf(newItem') \cup ItemsOf(planned')
    <2> HIDE DEF rows, M, moved
    <2>1. ItemsOf(newItem) \subseteq ItemsOf(newItem') \cup ItemsOf(planned')
      BY <1>1, <1>2, InItemsOf
    <2>2. ItemsOf(planned) \subseteq ItemsOf(planned')
      BY <1>1, InItemsOf
    <2> QED
      BY <2>1, <2>2
  <1> QED
    BY <1>1, <1>3 DEF RecordKept, Recorded, ExistingItems

LEMMA RepackKeepsRecord ==
    ASSUME NEW rows, Repack(rows)
    PROVE  RecordKept
  <1> DEFINE kept  == rows \ OverLimit(rows)
             M(r)  == [item |-> r.item, up |-> r.up, fails |-> r.fails + 1]
             moved == {M(r) : r \in kept}
  <1>1. /\ planned' = planned \ rows /\ newItem' = newItem \cup moved
        /\ failed' = failed \cup ItemsOf(OverLimit(rows)) /\ permanent' = permanent
    BY DEF Repack
  <1>2. \A r \in kept : M(r) \in moved /\ M(r).item = r.item
    OBVIOUS
  <1>3. ItemsOf(rows) \subseteq ItemsOf(kept) \cup ItemsOf(OverLimit(rows))
    BY InItemsOf
  <1>4. ItemsOf(planned) \subseteq ItemsOf(planned') \cup ItemsOf(newItem') \cup failed'
    <2> HIDE DEF kept, M, moved
    <2> QED
      BY <1>1, <1>2, <1>3, InItemsOf
  <1>5. ItemsOf(newItem) \subseteq ItemsOf(newItem')
    BY <1>1, InItemsOf
  <1> QED
    BY <1>1, <1>4, <1>5 DEF RecordKept, Recorded, ExistingItems

LEMMA PromoteKeepsRecord ==
    ASSUME NEW rows, NEW b, Promote(rows, b)
    PROVE  RecordKept
  <1> DEFINE bad   == {r \in rows : Poison(r)}
             good  == rows \ bad
             M(r)  == PermanentRowOf(r, b)
             moved == {M(r) : r \in good}
  <1>1. /\ planned' = planned \ rows /\ permanent' = permanent \cup moved
        /\ failed' = failed \cup ItemsOf(bad) /\ newItem' = newItem
    BY DEF Promote
  <1>2. \A r \in good : M(r) \in moved /\ M(r).item = r.item
    BY DEF PermanentRowOf
  <1>3. ItemsOf(rows) \subseteq ItemsOf(good) \cup ItemsOf(bad)
    BY InItemsOf
  <1>4. ItemsOf(planned) \subseteq ItemsOf(planned') \cup ItemsOf(permanent') \cup failed'
    <2> HIDE DEF bad, good, M, moved
    <2> QED
      BY <1>1, <1>2, <1>3, InItemsOf
  <1>5. ItemsOf(permanent) \subseteq ItemsOf(permanent')
    BY <1>1, InItemsOf
  <1> QED
    BY <1>1, <1>4, <1>5 DEF RecordKept, Recorded, ExistingItems

LEMMA MissingKeepsRecord ==
    ASSUME NEW w \in Workers, NEW i \in Items, PrepareMissing(w, i)
    PROVE  RecordKept
  <1>1. newItem' = newItem /\ permanent' = permanent /\ failed \subseteq failed'
    BY DEF PrepareMissing
  <1>2. ItemsOf(planned) \subseteq ItemsOf(planned') \cup failed'
    <2>1. CASE planned' = planned
      BY <2>1
    <2>2. CASE planned' = planned \ {r \in planned : r.item = i} /\ failed' = failed \cup {i}
      BY <2>2, InItemsOf
    <2> QED
      BY <2>1, <2>2 DEF PrepareMissing
  <1> QED
    BY <1>1, <1>2 DEF RecordKept, Recorded, ExistingItems

(***************************************************************************)
(* Hence every step but an upload or an ingest keeps every item safe.      *)
(***************************************************************************)
LEMMA KeptIsSafe ==
    ASSUME NoItemLost, IngestKept, RecordKept, uploads' = uploads
    PROVE  NoItemLost'
  BY DEF NoItemLost, IngestKept, RecordKept, InHand

LEMMA GrowingQueuesKeepIngest ==
    ASSUME jobs \subseteq jobs', spent \subseteq spent', UNCHANGED run
    PROVE  IngestKept
  BY DEF IngestKept, InHand, Ingesting, At

LEMMA UploadKeepsItems ==
    ASSUME TypeOK, NoItemLost, NEW i \in Items, Upload(i)
    PROVE  NoItemLost'
  <1>1. ASSUME NEW k \in Items \ {i}, InHand(k) PROVE InHand(k)'
    BY <1>1 DEF Upload, InHand, Ingesting, At
  <1>2. Ingesting(i)'
    <2> DEFINE j == NewItemJob(i, uploads[i] + 1)
    <2>1. j.kind = "newItem" /\ j.item = i
      BY DEF NewItemJob
    <2>2. jobs' = jobs \cup {j}
      BY DEF Upload
    <2> HIDE DEF j
    <2> QED
      BY <2>1, <2>2 DEF Ingesting
  <1>3. \A k \in Items \ {i} : uploads'[k] = uploads[k] /\ (Recorded(k) => Recorded(k)')
    BY DEF Upload, Recorded, ExistingItems, TypeOK
  <1> QED
    BY <1>1, <1>2, <1>3 DEF NoItemLost, InHand

LEMMA IngestReadKeepsItems ==
    ASSUME TypeOK, NoItemLost, NEW w \in Workers, NEW j \in jobs, IngestRead(w, j)
    PROVE  NoItemLost'
  <1> DEFINE k == j.item
  <1>0. j \in Job /\ k \in Items /\ j.kind = "newItem"
    BY DEF TypeOK, Job, IngestRead
  <1>1. uploads' = uploads /\ ExistingItems' = ExistingItems /\ failed \ {k} \subseteq failed'
    BY DEF IngestRead, ExistingItems, boundVars
  <1>2. Recorded(k)' \/ Ingesting(k)'
    <2>1. CASE k \in ExistingItems
      BY <1>1, <2>1 DEF Recorded
    <2>2. CASE k \in failed /\ UNCHANGED failed
      BY <2>2 DEF Recorded
    <2>3. CASE Take(w, j, Exec(j, "insert", None, None, {}, {}))
      <3>1. run'[w].pc = "insert" /\ run'[w].job = j
        BY <2>3 DEF Take, Exec, TypeOK
      <3> QED
        BY <3>1 DEF Ingesting, At
    <2> QED
      BY <2>1, <2>2, <2>3 DEF IngestRead
  <1>3. ASSUME NEW i \in Items \ {k}, InHand(i) PROVE InHand(i)'
    <2>1. run[w] = Idle /\ jobs' = jobs \ {j} /\ spent' = spent
          /\ \A v \in Workers \ {w} : run'[v] = run[v]
      BY DEF IngestRead, DropJob, Take, TypeOK
    <2>2. ~At(w, "insert")
      BY <2>1 DEF At, Idle, Exec
    <2>3. CASE (\E q \in jobs : q.kind = "newItem" /\ q.item = i) \/ i \in spent
      BY <2>1, <2>3 DEF InHand, Ingesting
    <2>4. CASE \E v \in Workers : At(v, "insert") /\ run[v].job.item = i
      BY <2>1, <2>2, <2>4 DEF InHand, Ingesting, At
    <2> QED
      BY <1>3, <2>3, <2>4 DEF InHand, Ingesting
  <1>4. \A i \in Items \ {k} : Recorded(i) => Recorded(i)'
    BY <1>1 DEF Recorded
  <1> QED
    BY <1>1, <1>2, <1>3, <1>4 DEF NoItemLost, InHand

LEMMA IngestInsertKeepsItems ==
    ASSUME TypeOK, NoItemLost, NEW w \in Workers, IngestInsert(w)
    PROVE  NoItemLost'
  <1>0. PICK k \in Items : k = run[w].job.item
    BY DEF IngestInsert, TypeOK, Execution, Job, At
  <1>1. uploads' = uploads /\ jobs' = jobs /\ spent' = spent
        /\ \A v \in Workers \ {w} : run'[v] = run[v]
    BY DEF IngestInsert, Finish, queueVars, boundVars, TypeOK
  <1>2. newItem \subseteq newItem' /\ planned' = planned
        /\ permanent' = permanent /\ failed' = failed
    BY DEF IngestInsert
  <1>3. RecordKept
    BY <1>2, InItemsOf DEF RecordKept, Recorded, ExistingItems
  <1>4. Recorded(k)'
    <2>1. k \in ItemsOf(newItem')
      <3> DEFINE r == [item |-> k, up |-> run[w].job.up, fails |-> 0]
      <3>1. r.item = k
        OBVIOUS
      <3>2. newItem' = IF k \in ItemsOf(newItem) THEN newItem ELSE newItem \cup {r}
        BY <1>0 DEF IngestInsert
      <3> HIDE DEF r
      <3> QED
        BY <3>1, <3>2, InItemsOf
    <2> QED
      BY <2>1 DEF Recorded, ExistingItems
  <1>5. ASSUME NEW i \in Items \ {k}, InHand(i) PROVE InHand(i)'
    BY <1>0, <1>1, <1>5 DEF InHand, Ingesting, At
  <1> QED
    BY <1>1, <1>3, <1>4, <1>5 DEF NoItemLost, RecordKept, InHand

LEMMA StartKeepsItems ==
    ASSUME TypeOK, NoItemLost, NEW w \in Workers,
           StartQueued(w) \/ StartPlan(w) \/ StartRedrive(w)
    PROVE  NoItemLost'
  <1>1. ASSUME NEW j \in jobs, IngestRead(w, j) PROVE NoItemLost'
    BY <1>1, IngestReadKeepsItems
  <1>2. ASSUME NEW j \in jobs,
               PrepareStart(w, j) \/ PostStart(w, j) \/ SeedStart(w, j) \/ VerifyStart(w, j)
        PROVE  NoItemLost'
    <2>1. j.kind # "newItem" /\ UNCHANGED <<itemVars, boundVars>>
      BY <1>2 DEF PrepareStart, PostStart, SeedStart, VerifyStart
    <2>2. ThrowAtStart(w, j) \/ \E e : Take(w, j, e)
      BY <1>2 DEF PrepareStart, PostStart, SeedStart, VerifyStart, DropJob
    <2>3. IngestKept
      BY <2>1, <2>2, TakeKeepsIngest, ThrowAtStartKeepsIngest
    <2> QED
      BY <2>1, <2>3, SameTablesKeepRecord, KeptIsSafe DEF boundVars
  <1>3. CASE StartPlan(w) \/ StartRedrive(w)
    <2>1. run[w] = Idle /\ UNCHANGED <<itemVars, queueVars, uploads>>
          /\ \A v \in Workers \ {w} : run'[v] = run[v]
      BY <1>3 DEF StartPlan, StartRedrive, PlanStart, RedriveStart, MayStart, boundVars, TypeOK
    <2>2. IngestKept
      BY <2>1, OthersKeepIngest DEF At, Idle, Exec, queueVars
    <2> QED
      BY <2>1, <2>2, SameTablesKeepRecord, KeptIsSafe
  <1> QED
    BY <1>1, <1>2, <1>3 DEF StartQueued

LEMMA ItemStepKeepsItems ==
    ASSUME TypeOK, NoItemLost, NEW w \in Workers,
           \/ \E batch : PlanMove(w, batch)
           \/ \E batch : RepackHeld(w, batch)
           \/ \E i \in Items : PrepareMissing(w, i)
           \/ VerifyPromote(w) \/ VerifyPromoteSome(w)
    PROVE  NoItemLost'
  <1>1. uploads' = uploads
    BY DEF PlanMove, RepackHeld, PrepareMissing, VerifyPromote, VerifyPromoteSome, boundVars
  <1>2. RecordKept
    <2>1. CASE \E batch : PlanMove(w, batch)
      BY <2>1, PlanMoveKeepsRecord
    <2>2. CASE \E batch : RepackHeld(w, batch)
      BY <2>2, RepackKeepsRecord DEF RepackHeld
    <2>3. CASE \E i \in Items : PrepareMissing(w, i)
      BY <2>3, MissingKeepsRecord
    <2>4. CASE VerifyPromote(w) \/ VerifyPromoteSome(w)
      BY <2>4, PromoteKeepsRecord DEF VerifyPromote, VerifyPromoteSome
    <2> QED
      BY <2>1, <2>2, <2>3, <2>4
  <1>3. ~At(w, "insert") /\ run[w].job \in Job
    BY DEF PlanMove, RepackHeld, PrepareMissing, VerifyPromote, VerifyPromoteSome,
           At, TypeOK, Execution
  <1>4. IngestKept
    <2>1. CASE \E batch : PlanMove(w, batch) \/ RepackHeld(w, batch)
      BY <1>3, <2>1, QueueStepKeepsIngest DEF PlanMove, RepackHeld
    <2>2. CASE \E i \in Items : PrepareMissing(w, i)
      BY <1>3, <2>2, QueueStepKeepsIngest, ThrowKeepsIngest DEF PrepareMissing
    <2>3. CASE VerifyPromoteSome(w)
      BY <1>3, <2>3, QueueStepKeepsIngest DEF VerifyPromoteSome, NextRow
    <2>4. CASE VerifyPromote(w)
      <3>1. CASE Goto(w, "finalize") \/ NextRow(w)
        BY <1>3, <3>1, QueueStepKeepsIngest DEF NextRow, Steps
      <3>2. CASE /\ UNCHANGED queueVars
                 /\ run' = [run EXCEPT ![w].pc = "repackRest",
                                       ![w].items = NotInHeader(w)]
        BY <1>3, <3>2, OthersKeepIngest DEF queueVars, TypeOK
      <3> QED
        BY <2>4, <3>1, <3>2 DEF VerifyPromote
    <2> QED
      BY <2>1, <2>2, <2>3, <2>4
  <1> QED
    BY <1>1, <1>2, <1>4, KeptIsSafe

LEMMA RowStepKeepsItems ==
    ASSUME TypeOK, NoItemLost, NEW w \in Workers,
           \/ PlanFails(w) \/ PlanEnqueue(w)
           \/ \E batch : RepackFails(w, batch)
           \/ PrepareStore(w) \/ PrepareLoses(w) \/ PrepareEnqueue(w)
           \/ \E b \in Bundles : PrepareSign(w, b)
           \/ PostBroadcast(w) \/ PostStatusSeen(w) \/ PostStatusNotSeen(w)
           \/ PostRecord(w) \/ PostEnqueue(w) \/ PostCatches(w)
           \/ SeedInsert(w) \/ SeedEnqueue(w)
           \/ Demote(w) \/ StepSweep(w) \/ VerifyFinalize(w)
    PROVE  NoItemLost'
  <1>1. UNCHANGED <<itemVars, uploads>>
    BY DEF PlanFails, PlanEnqueue, RepackFails, PrepareStore, PrepareLoses,
           PrepareEnqueue, PrepareSign, PostBroadcast, PostStatusSeen,
           PostStatusNotSeen, PostRecord, PostEnqueue, PostCatches, SeedInsert,
           SeedEnqueue, Demote, StepSweep, VerifyDrop, VerifyConfirmed, VerifySkip,
           RedriveSeed, RedriveDemote, VerifyFinalize, boundVars
  <1>2. ~At(w, "insert")
    BY DEF PlanFails, PlanEnqueue, RepackFails, PrepareStore, PrepareLoses,
           PrepareEnqueue, PrepareSign, PostBroadcast, PostStatusSeen,
           PostStatusNotSeen, PostRecord, PostEnqueue, PostCatches, SeedInsert,
           SeedEnqueue, Demote, StepSweep, VerifyDrop, VerifyConfirmed, VerifySkip,
           RedriveSeed, RedriveDemote, VerifyFinalize, At
  <1>3. CASE Throw(w)
    BY <1>1, <1>3, ThrowKeepsIngest, SameTablesKeepRecord, KeptIsSafe
  <1>4. CASE ~Throw(w)
    <2>1. jobs \subseteq jobs' /\ spent \subseteq spent'
          /\ \A v \in Workers \ {w} : run'[v] = run[v]
      BY <1>4
      DEF PlanFails, PlanEnqueue, RepackFails, PrepareStore, PrepareLoses,
          PrepareEnqueue, PrepareSign, PostBroadcast, PostStatusSeen,
          PostStatusNotSeen, PostRecord, PostEnqueue, PostCatches, SeedInsert,
          SeedEnqueue, Demote, StepSweep, VerifyDrop, VerifyConfirmed, VerifySkip,
          RedriveSeed, RedriveDemote, VerifyFinalize, Finish, Goto, EnqueueLast,
          NextRow, GoOn, GiveUp, Sweep, queueVars, TypeOK
    <2> QED
      BY <1>1, <1>2, <2>1, OthersKeepIngest, SameTablesKeepRecord, KeptIsSafe
  <1> QED
    BY <1>3, <1>4

LEMMA FailureKeepsItems ==
    ASSUME TypeOK, NoItemLost, NEW w \in Workers, HandlerFails(w) \/ Stall(w)
    PROVE  NoItemLost'
  <1>1. UNCHANGED <<itemVars, uploads>>
    BY DEF HandlerFails, Stall
  <1>2. IngestKept
    BY ThrowKeepsIngest, GrowingQueuesKeepIngest DEF HandlerFails, Stall
  <1> QED
    BY <1>1, <1>2, SameTablesKeepRecord, KeptIsSafe

LEMMA OutsideKeepsItems ==
    ASSUME NoItemLost, VerifyTick \/ Network \/ UNCHANGED vars
    PROVE  NoItemLost'
  <1>1. UNCHANGED <<itemVars, uploads>>
    BY DEF VerifyTick, Network, Mine, Confirm, Deepen, Expire, Reorg, SetChain,
           vars, boundVars
  <1>2. jobs \subseteq jobs' /\ spent \subseteq spent' /\ UNCHANGED run
    BY DEF VerifyTick, Network, Mine, Confirm, Deepen, Expire, Reorg, SetChain,
           vars, queueVars
  <1> QED
    BY <1>1, <1>2, GrowingQueuesKeepIngest, SameTablesKeepRecord, KeptIsSafe

LEMMA AdvanceKeepsItems ==
    ASSUME TypeOK, NoItemLost, NEW w \in Workers, Advance(w) \/ Fault(w)
    PROVE  NoItemLost'
  BY IngestInsertKeepsItems, ItemStepKeepsItems, RowStepKeepsItems, FailureKeepsItems
  DEF Advance, StepPrepare, Fault

LEMMA NextKeepsItems ==
    ASSUME ~MayRefuse
    PROVE  TypeOK /\ NoItemLost /\ [Next]_vars => NoItemLost'
  <1> SUFFICES ASSUME TypeOK, NoItemLost, [Next]_vars PROVE NoItemLost'
    OBVIOUS
  <1>1. ASSUME NEW i \in Items, Upload(i) \/ UploadRefused(i) PROVE NoItemLost'
    BY <1>1, UploadKeepsItems DEF UploadRefused
  <1>2. ASSUME NEW w \in Workers, StartQueued(w) \/ StartPlan(w) \/ StartRedrive(w)
        PROVE  NoItemLost'
    BY <1>2, StartKeepsItems
  <1>3. ASSUME NEW w \in Workers, Advance(w) \/ Fault(w) PROVE NoItemLost'
    BY <1>3, AdvanceKeepsItems
  <1>4. CASE VerifyTick \/ Network \/ UNCHANGED vars
    BY <1>4, OutsideKeepsItems
  <1> QED
    BY <1>1, <1>2, <1>3, <1>4 DEF Next

LEMMA InitHasItems == Init => NoItemLost
  BY DEF Init, NoItemLost

\* When no upload is refused after its duplicate check, an accepted data item is
\* never lost unless a newDataItem job of it failed as often as it may, for any number
\* of items, plans, workers, attempts, crashes, stalls, redeliveries and re-drives, and
\* whatever the replica and the gateway answer.
THEOREM ItemsNeverLost ==
    ASSUME ~MayRefuse
    PROVE  Spec => []NoItemLost
  <1>1. Init => TypeOK /\ NoItemLost
    BY InitType, InitHasItems
  <1>2. TypeOK /\ NoItemLost /\ [Next]_vars => TypeOK' /\ NoItemLost'
    BY NextType, NextKeepsItems
  <1> QED
    BY <1>1, <1>2, SpecSteps, PTL

(***************************************************************************)
(* A bundle's row is in one table at a time.  The invariant is inductive   *)
(* only together with what keeps new ids new: a plan with a row was used,  *)
(* and a transaction with a row was signed.                                *)
(***************************************************************************)
RowsAreKnown ==
    /\ bundlePlan \subseteq usedPlans
    /\ \A t \in BundleTables : \A r \in bundles[t] :
          r.plan \in usedPlans /\ chain[r.bundle] # "none"

BundleInv == TypeOK /\ OneBundleTable /\ RowsAreKnown

LEMMA MovedRows ==
    ASSUME BundleInv, NEW from \in BundleTables, NEW to \in BundleTables,
           NEW rows \in SUBSET bundles[from], MoveRows(rows, from, to),
           UNCHANGED <<bundlePlan, usedPlans, chain>>
    PROVE  OneBundleTable' /\ RowsAreKnown'
  <1>1. \A t \in BundleTables :
           bundles'[t] = (IF t = to THEN bundles[to] \cup rows ELSE bundles[t])
                            \ (IF t = from /\ from # to THEN rows ELSE {})
    <2> TAKE t \in BundleTables
    <2>1. CASE from = to
      BY <2>1 DEF MoveRows, BundleInv, TypeOK
    <2>2. CASE from # to
      BY <2>2 DEF MoveRows, BundleInv, TypeOK
    <2> QED
      BY <2>1, <2>2
  <1>2. \A t \in BundleTables : \A r \in bundles'[t] :
           \/ r \in bundles[t] /\ (t = from => from = to \/ r \notin rows)
           \/ t = to /\ r \in rows
    BY <1>1
  <1>3. RowsAreKnown'
    BY <1>2 DEF BundleInv, RowsAreKnown
  <1>4. \A p \in bundlePlan' : ~KnownIn(BundleTables, p)'
    BY <1>2 DEF BundleInv, OneBundleTable, KnownIn, RowsIn
  <1>5. ASSUME NEW t \in BundleTables, NEW u \in BundleTables,
               NEW r \in bundles'[t], NEW q \in bundles'[u],
               r.plan = q.plan \/ r.bundle = q.bundle
        PROVE  t = u /\ r = q
    BY <1>2, <1>5 DEF BundleInv, OneBundleTable
  <1> QED
    BY <1>3, <1>4, <1>5 DEF OneBundleTable

LEMMA KeptRows ==
    ASSUME BundleInv, UNCHANGED <<bundlePlan, usedPlans, bundles>>,
           \A b \in Bundles : chain[b] # "none" => chain'[b] # "none"
    PROVE  OneBundleTable' /\ RowsAreKnown'
  <1>1. OneBundleTable'
    BY DEF BundleInv, OneBundleTable, KnownIn, RowsIn
  <1>2. \A t \in BundleTables : \A r \in bundles[t] : r.bundle \in Bundles
    BY DEF BundleInv, TypeOK, BundleRow
  <1> QED
    BY <1>1, <1>2 DEF BundleInv, RowsAreKnown

LEMMA PlannedRows ==
    ASSUME BundleInv, NEW w \in Workers, NEW S, NEW p \in Plans, PlanStart(w, S, p)
    PROVE  OneBundleTable' /\ RowsAreKnown'
  <1>1. /\ p \notin usedPlans /\ usedPlans' = usedPlans \cup {p}
        /\ bundlePlan' = bundlePlan \cup {p} /\ UNCHANGED <<bundles, chain>>
    BY DEF PlanStart, storeVars
  <1>2. RowsAreKnown'
    BY <1>1 DEF BundleInv, RowsAreKnown
  <1>3. ~KnownIn(BundleTables, p)
    BY <1>1 DEF BundleInv, RowsAreKnown, KnownIn, RowsIn
  <1>4. OneBundleTable'
    BY <1>1, <1>3 DEF BundleInv, OneBundleTable, KnownIn, RowsIn
  <1> QED
    BY <1>2, <1>4

LEMMA SignedRows ==
    ASSUME BundleInv, NEW w \in Workers, NEW b \in Bundles, PrepareSign(w, b)
    PROVE  OneBundleTable' /\ RowsAreKnown'
  <1> DEFINE p   == run[w].plan
             row == [plan |-> p, bundle |-> b]
  <1>1. /\ p \in bundlePlan /\ chain[b] = "none" /\ bundlePlan' = bundlePlan \ {p}
        /\ usedPlans' = usedPlans
        /\ bundles' = [bundles EXCEPT !["new"] = @ \cup {row}]
        /\ chain' = [chain EXCEPT ![b] = "unposted"]
    BY DEF PrepareSign
  <1>2. "new" \in BundleTables
    BY DEF BundleTables
  <1>3. PICK r \in BundleRow : r = row /\ r.plan = p /\ r.bundle = b
    <2>1. row \in BundleRow /\ row.plan = p /\ row.bundle = b
      BY <1>1 DEF BundleInv, TypeOK, BundleRow
    <2> HIDE DEF row, p
    <2> QED
      BY <2>1
  <1>4. \A t \in BundleTables : \A q \in bundles'[t] :
           q \in bundles[t] \/ (t = "new" /\ q = r)
    BY <1>1, <1>2, <1>3 DEF BundleInv, TypeOK
  <1>5. \A t \in BundleTables : \A q \in bundles[t] : q.plan # r.plan /\ q.bundle # r.bundle
    BY <1>1, <1>3 DEF BundleInv, OneBundleTable, RowsAreKnown, KnownIn, RowsIn
  <1>6. chain'[b] # "none" /\ \A c \in Bundles : chain[c] # "none" => chain'[c] # "none"
    BY <1>1 DEF BundleInv, TypeOK
  <1>7. RowsAreKnown'
    <2>1. bundlePlan' \subseteq usedPlans' /\ r.plan \in usedPlans
      BY <1>1, <1>3 DEF BundleInv, RowsAreKnown
    <2>2. \A t \in BundleTables : \A q \in bundles[t] :
             q.plan \in usedPlans /\ chain'[q.bundle] # "none"
      BY <1>6 DEF BundleInv, RowsAreKnown, TypeOK, BundleRow
    <2> QED
      BY <1>1, <1>3, <1>4, <1>6, <2>1, <2>2 DEF RowsAreKnown
  <1>8. \A q \in bundlePlan' : ~KnownIn(BundleTables, q)'
    <2>1. \A q \in bundlePlan' : q \in bundlePlan /\ q # r.plan
      BY <1>1, <1>3
    <2> QED
      BY <1>4, <2>1 DEF BundleInv, OneBundleTable, KnownIn, RowsIn
  <1>9. ASSUME NEW t \in BundleTables, NEW u \in BundleTables,
               NEW x \in bundles'[t], NEW q \in bundles'[u],
               x.plan = q.plan \/ x.bundle = q.bundle
        PROVE  t = u /\ x = q
    BY <1>4, <1>5, <1>9 DEF BundleInv, OneBundleTable
  <1> QED
    BY <1>7, <1>8, <1>9 DEF OneBundleTable

LEMMA MoveStepRows ==
    ASSUME BundleInv, NEW w \in Workers,
           PostRecord(w) \/ SeedInsert(w) \/ Demote(w) \/ VerifyFinalize(w)
    PROVE  OneBundleTable' /\ RowsAreKnown'
  <1>1. UNCHANGED <<bundlePlan, usedPlans, chain>>
    BY DEF PostRecord, SeedInsert, Demote, VerifyFinalize, storeVars
  <1>2. \E from, to \in BundleTables : \E rows \in SUBSET bundles[from] :
           MoveRows(rows, from, to)
    <2>1. CASE PostRecord(w)
      BY <2>1 DEF PostRecord, BundleTables
    <2>2. CASE SeedInsert(w)
      BY <2>2 DEF SeedInsert, BundleTables
    <2>3. CASE VerifyFinalize(w)
      BY <2>3 DEF VerifyFinalize, BundleTables, RowsIn
    <2>4. CASE Demote(w)
      <3> DEFINE from == CASE run[w].job.kind = "post" -> "new"
                           [] IsRedrive(w) -> "posted"
                           [] OTHER -> "seeded"
                 rows == IF from = "seeded" THEN RowsIn("seeded", run[w].plan)
                         ELSE {r \in bundles[from] : r.bundle = run[w].bundle}
      <3>1. from \in BundleTables /\ "failed" \in BundleTables
        BY DEF BundleTables, IsRedrive
      <3>2. rows \in SUBSET bundles[from]
        BY DEF RowsIn
      <3>3. MoveRows(rows, from, "failed")
        BY <2>4 DEF Demote
      <3> HIDE DEF from, rows
      <3> QED
        BY <3>1, <3>2, <3>3
    <2> QED
      BY <2>1, <2>2, <2>3, <2>4
  <1> QED
    BY <1>1, <1>2, MovedRows

LEMMA WorkerStepRows ==
    ASSUME BundleInv, NEW w \in Workers,
           \/ StartQueued(w) \/ StartRedrive(w) \/ Fault(w)
           \/ IngestInsert(w) \/ PlanFails(w) \/ PlanEnqueue(w)
           \/ \E batch : PlanMove(w, batch) \/ RepackHeld(w, batch) \/ RepackFails(w, batch)
           \/ PostStatusSeen(w) \/ PostStatusNotSeen(w) \/ PostEnqueue(w)
           \/ SeedEnqueue(w) \/ StepSweep(w) \/ VerifyPromote(w)
    PROVE  OneBundleTable' /\ RowsAreKnown'
  <1>1. CASE StartQueued(w) \/ StartRedrive(w) \/ Fault(w) \/ StepSweep(w)
    <2>1. UNCHANGED <<bundlePlan, usedPlans, bundles, chain>>
      BY <1>1 DEF StartQueued, IngestRead, PrepareStart, PostStart, SeedStart,
                  VerifyStart, StartRedrive, RedriveStart, Fault, HandlerFails, Stall,
                  PostCatches, VerifyPromoteSome, StepSweep, VerifyDrop,
                  VerifyConfirmed, VerifySkip, RedriveSeed, RedriveDemote,
                  bundleVars, storeVars
    <2> QED
      BY <2>1, KeptRows
  <1>2. CASE ~(StartQueued(w) \/ StartRedrive(w) \/ Fault(w) \/ StepSweep(w))
    <2>1. UNCHANGED <<bundlePlan, usedPlans, bundles, chain>>
      BY <1>2 DEF IngestInsert, PlanFails, PlanEnqueue, PlanMove, RepackHeld,
                  RepackFails, PostStatusSeen, PostStatusNotSeen, PostEnqueue,
                  SeedEnqueue, VerifyPromote, bundleVars, storeVars
    <2> QED
      BY <2>1, KeptRows
  <1> QED
    BY <1>1, <1>2

LEMMA BroadcastRows ==
    ASSUME BundleInv, NEW w \in Workers, PostBroadcast(w)
    PROVE  OneBundleTable' /\ RowsAreKnown'
  <1>1. UNCHANGED <<bundlePlan, usedPlans, bundles>>
    BY DEF PostBroadcast, bundleVars
  <1>2. \A b \in Bundles : chain[b] # "none" => chain'[b] # "none"
    BY DEF PostBroadcast, BundleInv, TypeOK
  <1> QED
    BY <1>1, <1>2, KeptRows

LEMMA OutsideRows ==
    ASSUME BundleInv,
           \/ \E i \in Items : Upload(i) \/ UploadRefused(i)
           \/ VerifyTick \/ Network \/ UNCHANGED vars
    PROVE  OneBundleTable' /\ RowsAreKnown'
  <1>1. UNCHANGED <<bundlePlan, usedPlans, bundles>>
    BY DEF Upload, UploadRefused, VerifyTick, Network, Mine, Confirm, Deepen, Expire,
           Reorg, SetChain, vars, bundleVars
  <1>2. CASE Network
    <2>1. \A b \in Bundles : chain[b] # "none" => chain'[b] # "none"
      BY <1>2 DEF Network, Mine, Confirm, Deepen, Expire, Reorg, SetChain, BundleInv, TypeOK
    <2> QED
      BY <1>1, <2>1, KeptRows
  <1>3. CASE ~Network
    <2>1. UNCHANGED chain
      BY <1>3 DEF Upload, UploadRefused, VerifyTick, vars, storeVars
    <2> QED
      BY <1>1, <2>1, KeptRows
  <1> QED
    BY <1>2, <1>3

LEMMA PrepareStepRows ==
    ASSUME BundleInv, NEW w \in Workers, StepPrepare(w)
    PROVE  OneBundleTable' /\ RowsAreKnown'
  <1>1. CASE \E b \in Bundles : PrepareSign(w, b)
    BY <1>1, SignedRows
  <1>2. CASE ~(\E b \in Bundles : PrepareSign(w, b))
    <2>1. UNCHANGED <<bundlePlan, usedPlans, bundles, chain>>
      BY <1>2 DEF StepPrepare, PrepareStore, PrepareLoses, PrepareEnqueue,
                  PrepareMissing, bundleVars, storeVars
    <2> QED
      BY <2>1, KeptRows
  <1> QED
    BY <1>1, <1>2

LEMMA NextKeepsRows == BundleInv /\ [Next]_vars => BundleInv'
  <1> SUFFICES ASSUME BundleInv, [Next]_vars PROVE BundleInv'
    OBVIOUS
  <1>1. TypeOK'
    BY NextType DEF BundleInv
  <1>2. OneBundleTable' /\ RowsAreKnown'
    <2>1. ASSUME NEW w \in Workers,
                 StartQueued(w) \/ StartPlan(w) \/ StartRedrive(w) \/ Advance(w) \/ Fault(w)
          PROVE  OneBundleTable' /\ RowsAreKnown'
      BY <2>1, PlannedRows, PrepareStepRows, MoveStepRows, WorkerStepRows, BroadcastRows
      DEF StartPlan, Advance
    <2> QED
      BY <2>1, OutsideRows DEF Next
  <1> QED
    BY <1>1, <1>2 DEF BundleInv

LEMMA InitRows == Init => BundleInv
  BY InitType DEF Init, BundleInv, OneBundleTable, RowsAreKnown, KnownIn, RowsIn

\* A plan is never in two of the bundle tables, nor bundled twice, and no two rows
\* share a transaction, whatever runs concurrently or twice, and for any bounds.
THEOREM BundleInOneTable == Spec => []OneBundleTable
  BY InitRows, NextKeepsRows, SpecSteps, PTL DEF BundleInv

(***************************************************************************)
(* No planned item is left behind: who may still move items into a plan,   *)
(* who works on a bundle, and what such an execution knows of the items    *)
(* that are still planned for it.                                          *)
(***************************************************************************)
\* The steps of a plan run between its bundle_plan row and its prepare job.
Moving == {"move", "enqueuePrepare"}

\* The steps of an execution that works on one row of the bundle tables.
OnBundle == {"broadcast", "status", "record", "enqueueSeed", "recordLate",
             "enqueueSeedLate", "stage", "enqueueVerify", "repack", "demote",
             "promote", "repackRest", "finalize"}

HasRow(p, b) == \E t \in BundleTables : \E r \in bundles[t] : r.plan = p /\ r.bundle = b

Prepares(p) ==
    \/ \E j \in jobs : j.kind = "prepare" /\ j.plan = p
    \/ \E v \in Workers : run[v].job.kind = "prepare" /\ run[v].job.plan = p

\* A plan has at most one plan run that moves items into it, and no prepare job
\* until that run is through: it cannot be bundled while it still grows.
PlansGrowAlone ==
    /\ \A p \in Plans : Prepares(p) => p \in usedPlans
    /\ \A w \in Workers : run[w].pc \in {"store", "sign"} =>
          run[w].job.kind = "prepare" /\ run[w].job.plan = run[w].plan
    /\ \A w \in Workers : run[w].pc \in Moving =>
          /\ run[w].plan \in bundlePlan
          /\ ~Prepares(run[w].plan)
          /\ \A v \in Workers \ {w} : run[v].pc \in Moving => run[v].plan # run[w].plan

\* An execution on a bundle works on a row that was written, wherever it is now,
\* and before it demotes or finalizes the row it holds all that is still planned.
Informed(w) ==
    /\ run[w].pc \in OnBundle => HasRow(run[w].plan, run[w].bundle)
    /\ \A r \in run[w].todo : HasRow(r.plan, r.bundle)
    /\ run[w].pc \in {"repack", "promote", "repackRest"} =>
          ItemsOf(PlannedFor(run[w].plan)) \subseteq run[w].items
    /\ run[w].pc \in {"demote", "finalize"} => PlannedFor(run[w].plan) = {}

Handled == NoStrandedItems /\ PlansGrowAlone /\ \A w \in Workers : Informed(w)
StrandedInv == BundleInv /\ Handled

(***************************************************************************)
(* What every step of an execution leaves alone.  Quiet: it starts no plan *)
(* run, and every prepare job after it was a prepare job before it.        *)
(***************************************************************************)
Quiet(w) ==
    /\ \A v \in Workers \ {w} : run'[v] = run[v]
    /\ \A j \in jobs' : j.kind = "prepare" => Prepares(j.plan)
    /\ run'[w].job.kind = "prepare" => Prepares(run'[w].job.plan)
    /\ run'[w].pc \in Moving => run[w].pc \in Moving /\ run'[w].plan = run[w].plan
    /\ run'[w].pc \in {"store", "sign"} =>
          run'[w].job.kind = "prepare" /\ run'[w].job.plan = run'[w].plan

RowsStay    == \A p, b : HasRow(p, b) => HasRow(p, b)'
PlansShrink == \A p, b : HasRow(p, b) => PlannedFor(p)' \subseteq PlannedFor(p)

LEMMA QuietKeepsPlans ==
    ASSUME PlansGrowAlone, usedPlans' = usedPlans,
           \A p \in bundlePlan \ bundlePlan' : Prepares(p),
           \A v \in Workers : run'[v] = run[v] \/ Quiet(v),
           \A j \in jobs' : j.kind = "prepare" => Prepares(j.plan)
    PROVE  PlansGrowAlone'
  <1>1. ASSUME NEW p, Prepares(p)' PROVE Prepares(p)
    <2>1. CASE \E j \in jobs' : j.kind = "prepare" /\ j.plan = p
      BY <2>1 DEF Quiet
    <2>2. ASSUME NEW v \in Workers, run'[v].job.kind = "prepare", run'[v].job.plan = p
          PROVE  Prepares(p)
      BY <2>2 DEF Quiet, Prepares
    <2> QED
      BY <1>1, <2>1, <2>2 DEF Prepares
  <1>2. \A v \in Workers : run'[v].pc \in Moving =>
           run[v].pc \in Moving /\ run'[v].plan = run[v].plan
    BY DEF Quiet
  <1>3. \A p \in Plans : Prepares(p)' => p \in usedPlans'
    BY <1>1 DEF PlansGrowAlone
  <1>4. \A v \in Workers : run'[v].pc \in {"store", "sign"} =>
           run'[v].job.kind = "prepare" /\ run'[v].job.plan = run'[v].plan
    BY DEF Quiet, PlansGrowAlone
  <1>5. ASSUME NEW v \in Workers, run'[v].pc \in Moving
        PROVE  /\ run'[v].plan \in bundlePlan' /\ ~Prepares(run[v].plan)'
               /\ \A u \in Workers \ {v} : run'[u].pc \in Moving =>
                     run'[u].plan # run'[v].plan
    <2>1. run[v].plan \in bundlePlan /\ ~Prepares(run[v].plan)
          /\ run'[v].plan = run[v].plan
      BY <1>2, <1>5 DEF PlansGrowAlone
    <2>2. run'[v].plan \in bundlePlan'
      BY <2>1
    <2>3. ~Prepares(run[v].plan)'
      <3> DEFINE p == run[v].plan
      <3>1. ~Prepares(p)' /\ p' = p
        BY <1>1, <2>1
      <3> QED
        BY <3>1
    <2>4. \A u \in Workers \ {v} : run'[u].pc \in Moving => run'[u].plan # run'[v].plan
      BY <1>2, <1>5 DEF PlansGrowAlone
    <2> QED
      BY <2>2, <2>3, <2>4
  <1> QED
    BY <1>3, <1>4, <1>5 DEF PlansGrowAlone, Prepares

LEMMA OthersInformed ==
    ASSUME RowsStay, PlansShrink, NEW v \in Workers, Informed(v), run'[v] = run[v]
    PROVE  Informed(v)'
  <1>1. run[v].pc \in OnBundle => HasRow(run[v].plan, run[v].bundle)
    BY DEF Informed
  <1>2. run[v].pc \in OnBundle =>
           PlannedFor(run[v].plan)' \subseteq PlannedFor(run[v].plan)
    BY <1>1 DEF PlansShrink
  <1>3. /\ run'[v].pc \in OnBundle => HasRow(run[v].plan, run[v].bundle)'
        /\ \A r \in run'[v].todo : HasRow(r.plan, r.bundle)'
    BY DEF Informed, RowsStay
  <1>4. run'[v].pc \in {"repack", "promote", "repackRest"} =>
           ItemsOf(PlannedFor(run[v].plan)') \subseteq run'[v].items
    BY <1>2 DEF Informed, OnBundle, ItemsOf
  <1>5. run'[v].pc \in {"demote", "finalize"} => PlannedFor(run[v].plan)' = {}
    BY <1>2 DEF Informed, OnBundle
  <1> QED
    BY <1>3, <1>4, <1>5 DEF Informed, HasRow, PlannedFor, ItemsOf
(***************************************************************************)
(* How the BullMQ steps leave the execution that takes them.               *)
(***************************************************************************)
LEMMA IdleFacts ==
    /\ Idle.pc = "idle" /\ Idle.todo = {} /\ Idle.job.kind = "plan"
  BY DEF Idle, Exec, JobFor

LEMMA IdleInformed ==
    ASSUME NEW w \in Workers, run'[w] = Idle
    PROVE  Informed(w)'
  <1>1. run'[w].pc = "idle" /\ run'[w].todo = {}
    BY IdleFacts
  <1> QED
    BY <1>1 DEF Informed, OnBundle

LEMMA StopLocal ==
    ASSUME TypeOK, NEW w \in Workers, run' = [run EXCEPT ![w] = Idle],
           \A j \in jobs' : j.kind = "prepare" => Prepares(j.plan)
    PROVE  Quiet(w) /\ Informed(w)'
  <1>1. run'[w] = Idle /\ \A v \in Workers \ {w} : run'[v] = run[v]
    BY DEF TypeOK
  <1>2. Informed(w)'
    BY <1>1, IdleInformed
  <1> QED
    BY <1>1, <1>2, IdleFacts DEF Quiet, Moving

LEMMA ThrowLocal ==
    ASSUME TypeOK, NEW w \in Workers, Throw(w)
    PROVE  Quiet(w) /\ Informed(w)'
  <1>1. run[w].job \in Job
    BY DEF TypeOK, Execution
  <1>2. \A j \in Again(run[w].job) : j.kind = run[w].job.kind /\ j.plan = run[w].job.plan
    BY <1>1, AgainType
  <1>3. \A j \in jobs' : j.kind = "prepare" => Prepares(j.plan)
    BY <1>2 DEF Throw, Prepares
  <1> QED
    BY <1>3, StopLocal DEF Throw

LEMMA FinishLocal ==
    ASSUME TypeOK, NEW w \in Workers, Finish(w)
    PROVE  Quiet(w) /\ Informed(w)'
  BY StopLocal DEF Finish, queueVars, Prepares

LEMMA EnqueueLastLocal ==
    ASSUME TypeOK, NEW w \in Workers, NEW j, EnqueueLast(w, j),
           j.kind = "prepare" => Prepares(j.plan)
    PROVE  Quiet(w) /\ Informed(w)'
  BY StopLocal DEF EnqueueLast, Prepares

\* A step that replaces the execution by e, which keeps its job.
LEMMA StepQuiet ==
    ASSUME TypeOK, NEW w \in Workers, NEW e, run' = [run EXCEPT ![w] = e],
           UNCHANGED jobs, e.job = run[w].job, e.pc \notin Moving \cup {"store", "sign"}
    PROVE  Quiet(w) /\ run'[w] = e
  BY DEF Quiet, TypeOK, Prepares

LEMMA StartQuiet ==
    ASSUME TypeOK, NEW w \in Workers, NEW j \in jobs, NEW e, Take(w, j, e), e.job = j,
           e.pc \notin Moving,
           e.pc \in {"store", "sign"} => j.kind = "prepare" /\ j.plan = e.plan
    PROVE  Quiet(w) /\ run'[w] = e
  BY DEF Quiet, TypeOK, Take, Prepares

LEMMA DropJobLocal ==
    ASSUME TypeOK, NEW w \in Workers, NEW j, DropJob(w, j)
    PROVE  Quiet(w) /\ Informed(w)'
  BY StopLocal DEF DropJob, Take, Prepares

LEMMA GoOnLocal ==
    ASSUME TypeOK, NEW w \in Workers, Informed(w), RowsStay,
           NEW todo \in SUBSET run[w].todo, NEW stuck, GoOn(w, todo, stuck)
    PROVE  Quiet(w) /\ Informed(w)'
  <1>1. CASE todo = {}
    BY <1>1, ThrowLocal, FinishLocal DEF GoOn
  <1>2. CASE todo # {}
    <2> DEFINE pc == IF IsRedrive(w) THEN "count" ELSE "check"
               e  == [Exec(run[w].job, pc, None, None, {}, todo) EXCEPT !.stuck = stuck]
    <2>1. run' = [run EXCEPT ![w] = e] /\ UNCHANGED jobs
      BY <1>2 DEF GoOn, queueVars
    <2>2. e.job = run[w].job /\ e.pc = pc /\ e.todo = todo /\ e.plan = None
      BY DEF Exec
    <2>3. pc \notin OnBundle /\ pc \notin Moving \cup {"store", "sign"}
      BY DEF OnBundle, Moving
    <2> HIDE DEF e, pc
    <2>4. Quiet(w) /\ run'[w] = e
      BY <2>1, <2>2, <2>3, StepQuiet
    <2>5. Informed(w)'
      BY <2>2, <2>3, <2>4 DEF Informed, RowsStay, OnBundle
    <2> QED
      BY <2>4, <2>5
  <1> QED
    BY <1>1, <1>2

LEMMA GiveUpLocal ==
    ASSUME TypeOK, NEW w \in Workers, Informed(w), RowsStay, NextRow(w) \/ GiveUp(w)
    PROVE  Quiet(w) /\ Informed(w)'
  BY GoOnLocal, ThrowLocal DEF NextRow, GiveUp
(***************************************************************************)
(* A handler that starts, and one that touches no table.                   *)
(***************************************************************************)
Still == UNCHANGED <<planned, bundles>>

LEMMA StillStays ==
    ASSUME Still
    PROVE  RowsStay /\ PlansShrink
  BY DEF Still, RowsStay, PlansShrink, HasRow, PlannedFor

\* An execution before it holds the planned items of its plan.
LEMMA AheadInformed ==
    ASSUME NEW w \in Workers, NEW e, run'[w] = e,
           e.pc \notin {"repack", "promote", "repackRest", "demote", "finalize"},
           e.pc \in OnBundle => HasRow(e.plan, e.bundle),
           \A r \in e.todo : HasRow(r.plan, r.bundle), RowsStay
    PROVE  Informed(w)'
  <1>1. e.pc \in OnBundle => HasRow(run[w].plan, run[w].bundle)'
    <2>1. HasRow(e.plan, e.bundle) =>
             \E t \in BundleTables : \E r \in bundles'[t] :
                r.plan = e.plan /\ r.bundle = e.bundle
      BY DEF RowsStay, HasRow
    <2> QED
      BY <2>1 DEF HasRow
  <1>2. \A r \in run'[w].todo : HasRow(r.plan, r.bundle)'
    BY DEF RowsStay
  <1> QED
    BY <1>1, <1>2 DEF Informed

LEMMA GotoLocal ==
    ASSUME TypeOK, NEW w \in Workers, Informed(w), RowsStay, run[w].pc \in OnBundle,
           NEW pc \in OnBundle \ {"repack", "promote", "repackRest", "demote", "finalize"},
           Goto(w, pc)
    PROVE  Quiet(w) /\ Informed(w)'
  <1> DEFINE e == [run[w] EXCEPT !.pc = pc]
  <1>1. /\ run' = [run EXCEPT ![w] = e] /\ UNCHANGED jobs
        /\ e.job = run[w].job /\ e.pc = pc /\ e.plan = run[w].plan
        /\ e.bundle = run[w].bundle /\ e.todo = run[w].todo
    BY DEF Goto, queueVars, TypeOK, Execution
  <1>2. pc \notin Moving \cup {"store", "sign"}
    BY DEF OnBundle, Moving
  <1> HIDE DEF e
  <1>3. Quiet(w) /\ run'[w] = e
    BY <1>1, <1>2, StepQuiet
  <1>4. Informed(w)'
    BY <1>1, <1>3, AheadInformed DEF Informed
  <1> QED
    BY <1>3, <1>4

LEMMA ThrowAtStartLocal ==
    ASSUME TypeOK, Still, NEW w \in Workers, Informed(w), NEW j \in jobs, ThrowAtStart(w, j)
    PROVE  Quiet(w) /\ Informed(w)'
  <1>1. \A a \in Again(j) : a.kind = j.kind /\ a.plan = j.plan
    BY AgainType DEF TypeOK
  <1>2. \A a \in jobs' : a.kind = "prepare" => Prepares(a.plan)
    BY <1>1 DEF ThrowAtStart, Prepares
  <1>3. run' = run /\ run[w] = Idle
    BY DEF ThrowAtStart
  <1>4. Quiet(w)
    BY <1>2, <1>3, IdleFacts DEF Quiet, Moving
  <1> QED
    BY <1>3, <1>4, IdleInformed

LEMMA StartLocal ==
    ASSUME TypeOK, Still, NEW w \in Workers, Informed(w), StartQueued(w) \/ StartRedrive(w)
    PROVE  Quiet(w) /\ Informed(w)'
  <1>1. RowsStay
    BY StillStays
  <1>2. ASSUME NEW j \in jobs, NEW pc, NEW p, NEW b, NEW S, NEW T,
               Take(w, j, Exec(j, pc, p, b, S, T)),
               \/ pc = "insert" /\ T = {}
               \/ pc = "store" /\ T = {} /\ j.kind = "prepare" /\ j.plan = p
               \/ pc \in {"broadcast", "stage"} /\ T = {} /\ HasRow(p, b)
               \/ pc = "check" /\ \A r \in T : HasRow(r.plan, r.bundle)
        PROVE  Quiet(w) /\ Informed(w)'
    <2> DEFINE e == Exec(j, pc, p, b, S, T)
    <2>1. e.job = j /\ e.pc = pc /\ e.plan = p /\ e.bundle = b /\ e.todo = T
      BY DEF Exec
    <2>2. Take(w, j, e)
      BY <1>2
    <2> HIDE DEF e
    <2>3. Quiet(w) /\ run'[w] = e
      BY <1>2, <2>1, <2>2, StartQuiet DEF Moving
    <2>4. Informed(w)'
      BY <1>1, <1>2, <2>1, <2>3, AheadInformed DEF OnBundle
    <2> QED
      BY <2>3, <2>4
  <1>3. ASSUME NEW j \in jobs, DropJob(w, j) \/ ThrowAtStart(w, j)
        PROVE  Quiet(w) /\ Informed(w)'
    BY <1>3, DropJobLocal, ThrowAtStartLocal
  <1>4. \A t \in BundleTables : \A r \in bundles[t] : HasRow(r.plan, r.bundle)
    BY DEF HasRow
  <1>5. ASSUME NEW j \in jobs, IngestRead(w, j) \/ PrepareStart(w, j)
        PROVE  Quiet(w) /\ Informed(w)'
    BY <1>2, <1>3, <1>5 DEF IngestRead, PrepareStart
  <1>6. ASSUME NEW j \in jobs, PostStart(w, j) \/ SeedStart(w, j) \/ VerifyStart(w, j)
        PROVE  Quiet(w) /\ Informed(w)'
    BY <1>2, <1>3, <1>4, <1>6 DEF PostStart, SeedStart, VerifyStart, RowsIn, BundleTables
  <1>7. CASE StartRedrive(w)
    <2>1. PICK T \in SUBSET bundles["posted"] : RedriveStart(w, T)
      BY <1>7 DEF StartRedrive
    <2> DEFINE e == Exec(JobFor("redrive", None), "count", None, None, {}, T)
    <2>2. run' = [run EXCEPT ![w] = e] /\ UNCHANGED jobs
      BY <2>1 DEF RedriveStart, queueVars
    <2>3. e.job.kind = "redrive" /\ e.pc = "count" /\ e.todo = T
      BY DEF Exec, JobFor
    <2>4. \A r \in T : HasRow(r.plan, r.bundle)
      BY <1>4 DEF BundleTables
    <2> HIDE DEF e
    <2>5. run'[w] = e /\ Quiet(w)
      BY <2>2, <2>3 DEF TypeOK, Quiet, Prepares, Moving
    <2>6. Informed(w)'
      BY <1>1, <2>3, <2>4, <2>5, AheadInformed DEF OnBundle
    <2> QED
      BY <2>5, <2>6
  <1> QED
    BY <1>5, <1>6, <1>7 DEF StartQueued
\* What a SELECT of the planned items of plan p returned is all of them.
LEMMA HeldInformed ==
    ASSUME ~ReplicaLag, Still, NEW w \in Workers, NEW e, run'[w] = e,
           e.pc \in {"repack", "promote"}, e.items \in ReadPlanned(e.plan),
           HasRow(e.plan, e.bundle), \A r \in e.todo : HasRow(r.plan, r.bundle)
    PROVE  Informed(w)'
  <1>1. HasRow(run[w].plan, run[w].bundle)' /\ \A r \in run'[w].todo : HasRow(r.plan, r.bundle)'
    BY DEF Still, HasRow
  <1>2. (ItemsOf(PlannedFor(run[w].plan)) \subseteq run[w].items)'
    BY DEF Still, ReadPlanned, ItemsOf, PlannedFor
  <1> QED
    BY <1>1, <1>2 DEF Informed

LEMMA SweepLocal ==
    ASSUME ~ReplicaLag, TypeOK, Still, NEW w \in Workers, Informed(w),
           NEW r, NEW pc \in {"repack", "promote"}, Sweep(w, r, pc)
    PROVE  Quiet(w) /\ Informed(w)'
  <1>1. PICK S \in ReadPlanned(r.plan) :
           run' = [run EXCEPT ![w] =
              [run[w] EXCEPT !.pc = pc, !.plan = r.plan, !.bundle = r.bundle,
                             !.items = S, !.todo = run[w].todo \ {r}]]
    BY DEF Sweep
  <1> DEFINE e == [run[w] EXCEPT !.pc = pc, !.plan = r.plan, !.bundle = r.bundle,
                                 !.items = S, !.todo = run[w].todo \ {r}]
  <1>2. /\ e.job = run[w].job /\ e.pc = pc /\ e.plan = r.plan /\ e.bundle = r.bundle
        /\ e.items = S /\ e.todo = run[w].todo \ {r}
    BY DEF TypeOK, Execution
  <1>3. run' = [run EXCEPT ![w] = e] /\ UNCHANGED jobs /\ r \in run[w].todo
    BY <1>1 DEF Sweep, queueVars
  <1> HIDE DEF e
  <1>4. Quiet(w) /\ run'[w] = e
    BY <1>2, <1>3, StepQuiet DEF Moving
  <1>5. Informed(w)'
    BY <1>2, <1>3, <1>4, HeldInformed DEF Informed
  <1> QED
    BY <1>4, <1>5

LEMMA StepSweepLocal ==
    ASSUME ~ReplicaLag, TypeOK, Still, NEW w \in Workers, Informed(w), StepSweep(w)
    PROVE  Quiet(w) /\ Informed(w)'
  <1>0. RowsStay
    BY StillStays
  <1>1. PICK r \in run[w].todo :
           VerifyDrop(w, r) \/ VerifyConfirmed(w, r) \/ VerifySkip(w, r)
              \/ RedriveSeed(w, r) \/ RedriveDemote(w, r)
    BY DEF StepSweep
  <1>2. CASE VerifyDrop(w, r) \/ VerifyConfirmed(w, r) \/ RedriveDemote(w, r)
    BY <1>2, SweepLocal DEF VerifyDrop, VerifyConfirmed, RedriveDemote
  <1>3. CASE VerifySkip(w, r)
    BY <1>0, <1>3, GoOnLocal DEF VerifySkip
  <1>4. CASE RedriveSeed(w, r)
    <2> DEFINE e == [run[w] EXCEPT !.todo = run[w].todo \ {r}]
    <2>1. /\ e.job = run[w].job /\ e.pc = "count" /\ e.todo = run[w].todo \ {r}
      BY <1>4 DEF TypeOK, Execution, RedriveSeed, At
    <2>2. \A j \in jobs' : j.kind = "prepare" => Prepares(j.plan)
      BY <1>4 DEF RedriveSeed, JobFor, Prepares
    <2>3. CASE run' = [run EXCEPT ![w] = Idle]
      BY <2>2, <2>3, StopLocal
    <2>4. CASE run' = [run EXCEPT ![w] = e]
      <3> HIDE DEF e
      <3>1. run'[w] = e /\ \A v \in Workers \ {w} : run'[v] = run[v]
        BY <2>4 DEF TypeOK
      <3>2. Quiet(w)
        BY <2>1, <2>2, <3>1 DEF Quiet, Prepares, Moving
      <3>3. Informed(w)'
        BY <1>0, <2>1, <3>1, AheadInformed DEF Informed, OnBundle
      <3> QED
        BY <3>2, <3>3
    <2> QED
      BY <1>4, <2>3, <2>4 DEF RedriveSeed
  <1> QED
    BY <1>1, <1>2, <1>3, <1>4

LEMMA PostLocal ==
    ASSUME ~ReplicaLag, TypeOK, Still, NEW w \in Workers, Informed(w),
           \/ PostBroadcast(w) \/ PostStatusSeen(w) \/ PostStatusNotSeen(w)
           \/ PostEnqueue(w) \/ PostCatches(w) \/ SeedEnqueue(w)
    PROVE  Quiet(w) /\ Informed(w)'
  <1>0. RowsStay
    BY StillStays
  <1>1. CASE PostBroadcast(w) \/ PostStatusSeen(w) \/ PostCatches(w)
    <2>1. run[w].pc \in OnBundle /\ \E pc \in {"record", "status", "recordLate"} : Goto(w, pc)
      BY <1>1 DEF PostBroadcast, PostStatusSeen, PostCatches, At, OnBundle
    <2> QED
      BY <1>0, <2>1, GotoLocal DEF OnBundle
  <1>2. CASE PostEnqueue(w) \/ SeedEnqueue(w)
    BY <1>2, EnqueueLastLocal DEF PostEnqueue, SeedEnqueue, JobFor
  <1>3. CASE PostStatusNotSeen(w)
    <2>1. CASE Throw(w)
      BY <2>1, ThrowLocal
    <2>2. ASSUME NEW S \in ReadPlanned(run[w].plan), UNCHANGED queueVars,
                 run' = [run EXCEPT ![w].pc = "repack", ![w].items = S]
          PROVE  Quiet(w) /\ Informed(w)'
      <3> DEFINE e == [run[w] EXCEPT !.pc = "repack", !.items = S]
      <3>1. /\ e.job = run[w].job /\ e.pc = "repack" /\ e.plan = run[w].plan
            /\ e.bundle = run[w].bundle /\ e.items = S /\ e.todo = run[w].todo
        BY DEF TypeOK, Execution
      <3>2. run' = [run EXCEPT ![w] = e] /\ UNCHANGED jobs
        BY <2>2 DEF TypeOK, queueVars
      <3> HIDE DEF e
      <3>3. Quiet(w) /\ run'[w] = e
        BY <3>1, <3>2, StepQuiet DEF Moving
      <3>4. HasRow(run[w].plan, run[w].bundle)
        BY <1>3 DEF PostStatusNotSeen, At, Informed, OnBundle
      <3>5. Informed(w)'
        BY <3>1, <3>3, <3>4, HeldInformed DEF Informed
      <3> QED
        BY <3>3, <3>5
    <2> QED
      BY <1>3, <2>1, <2>2 DEF PostStatusNotSeen
  <1> QED
    BY <1>1, <1>2, <1>3

LEMMA PrepareLocal ==
    ASSUME TypeOK, PlansGrowAlone, Still, NEW w \in Workers, Informed(w),
           PrepareStore(w) \/ PrepareLoses(w) \/ PrepareEnqueue(w)
    PROVE  Quiet(w) /\ Informed(w)'
  <1>0. RowsStay
    BY StillStays
  <1>1. CASE PrepareLoses(w) \/ PrepareEnqueue(w)
    BY <1>1, FinishLocal, ThrowLocal, EnqueueLastLocal DEF PrepareLoses, PrepareEnqueue, JobFor
  <1>2. CASE PrepareStore(w)
    <2> DEFINE e == [run[w] EXCEPT !.pc = "sign"]
    <2>1. /\ e.job = run[w].job /\ e.pc = "sign" /\ e.plan = run[w].plan
          /\ e.todo = run[w].todo
      BY DEF TypeOK, Execution
    <2>2. run' = [run EXCEPT ![w] = e] /\ UNCHANGED jobs /\ run[w].pc = "store"
      BY <1>2 DEF PrepareStore, Goto, queueVars, At
    <2> HIDE DEF e
    <2>3. run'[w] = e /\ \A v \in Workers \ {w} : run'[v] = run[v]
      BY <2>2 DEF TypeOK
    <2>4. Quiet(w)
      BY <2>1, <2>2, <2>3 DEF Quiet, Prepares, PlansGrowAlone, Moving
    <2>5. Informed(w)'
      BY <1>0, <2>1, <2>3, AheadInformed DEF Informed, OnBundle
    <2> QED
      BY <2>4, <2>5
  <1> QED
    BY <1>1, <1>2
(***************************************************************************)
(* Steps that leave the planned items and the bundle tables as they are.   *)
(***************************************************************************)
LEMMA QuietKeepsHandled ==
    ASSUME StrandedInv, NEW w \in Workers, Quiet(w), Informed(w)', RowsStay, PlansShrink,
           usedPlans' = usedPlans, \A p \in bundlePlan \ bundlePlan' : Prepares(p),
           NoStrandedItems'
    PROVE  Handled'
  <1>1. PlansGrowAlone'
    BY QuietKeepsPlans DEF Quiet, StrandedInv, Handled
  <1>2. \A v \in Workers : Informed(v)'
    BY OthersInformed DEF Quiet, StrandedInv, Handled
  <1> QED
    BY <1>1, <1>2 DEF Handled

LEMMA StillKeepsHandled ==
    ASSUME StrandedInv, NEW w \in Workers, Still, UNCHANGED <<bundlePlan, usedPlans>>,
           Quiet(w), Informed(w)'
    PROVE  Handled'
  <1>1. NoStrandedItems'
    BY DEF Still, NoStrandedItems, KnownIn, RowsIn, StrandedInv, Handled
  <1> QED
    BY <1>1, StillStays, QuietKeepsHandled

LEMMA StillStepHandled ==
    ASSUME ~ReplicaLag, StrandedInv, NEW w \in Workers,
           \/ StartQueued(w) \/ StartRedrive(w) \/ IngestInsert(w) \/ PlanFails(w)
           \/ \E batch : RepackFails(w, batch)
           \/ PrepareStore(w) \/ PrepareLoses(w) \/ PrepareEnqueue(w)
           \/ PostBroadcast(w) \/ PostStatusSeen(w) \/ PostStatusNotSeen(w)
           \/ PostEnqueue(w) \/ PostCatches(w) \/ SeedEnqueue(w)
           \/ StepSweep(w) \/ HandlerFails(w)
    PROVE  Handled'
  <1> USE DEF StrandedInv, BundleInv, Handled
  <1>1. Still /\ UNCHANGED <<bundlePlan, usedPlans>>
    <2>1. CASE StartQueued(w) \/ StartRedrive(w)
      BY <2>1 DEF StartQueued, StartRedrive, IngestRead, PrepareStart, PostStart,
                  SeedStart, VerifyStart, RedriveStart, Still, itemVars, bundleVars
    <2>2. CASE StepSweep(w)
      BY <2>2 DEF StepSweep, VerifyDrop, VerifyConfirmed, VerifySkip, RedriveSeed,
                  RedriveDemote, Still, itemVars, bundleVars
    <2>3. CASE ~(StartQueued(w) \/ StartRedrive(w) \/ StepSweep(w))
      BY <2>3 DEF IngestInsert, PlanFails, RepackFails, PrepareStore, PrepareLoses,
                  PrepareEnqueue, PostBroadcast, PostStatusSeen, PostStatusNotSeen,
                  PostEnqueue, PostCatches, SeedEnqueue, HandlerFails, Still,
                  itemVars, bundleVars
    <2> QED
      BY <2>1, <2>2, <2>3
  <1>2. RowsStay /\ Informed(w)
    BY <1>1, StillStays
  <1>3. Quiet(w) /\ Informed(w)'
    <2>1. CASE StartQueued(w) \/ StartRedrive(w)
      BY <1>1, <2>1, StartLocal
    <2>2. CASE StepSweep(w)
      BY <1>1, <2>2, StepSweepLocal
    <2>3. CASE IngestInsert(w) \/ PlanFails(w) \/ HandlerFails(w)
      BY <2>3, FinishLocal, ThrowLocal DEF IngestInsert, PlanFails, HandlerFails
    <2>4. CASE \E batch : RepackFails(w, batch)
      BY <1>2, <2>4, GiveUpLocal DEF RepackFails
    <2>5. CASE PrepareStore(w) \/ PrepareLoses(w) \/ PrepareEnqueue(w)
      BY <1>1, <2>5, PrepareLocal
    <2>6. CASE \/ PostBroadcast(w) \/ PostStatusSeen(w) \/ PostStatusNotSeen(w)
               \/ PostEnqueue(w) \/ PostCatches(w) \/ SeedEnqueue(w)
      BY <1>1, <2>6, PostLocal
    <2> QED
      BY <2>1, <2>2, <2>3, <2>4, <2>5, <2>6
  <1> QED
    BY <1>1, <1>3, StillKeepsHandled

LEMMA OutsideHandled ==
    ASSUME StrandedInv,
           \/ \E i \in Items : Upload(i) \/ UploadRefused(i)
           \/ \E w \in Workers : Stall(w)
           \/ VerifyTick \/ Network \/ UNCHANGED vars
    PROVE  Handled'
  <1>1. Still /\ UNCHANGED <<bundlePlan, usedPlans, run>>
    BY DEF Upload, UploadRefused, Stall, VerifyTick, Network, Mine, Confirm, Deepen,
           Expire, Reorg, SetChain, vars, Still, itemVars, bundleVars
  <1>2. \A j \in jobs' : j.kind = "prepare" => Prepares(j.plan)
    <2>1. CASE \E i \in Items : Upload(i)
      BY <2>1 DEF Upload, NewItemJob, Prepares
    <2>2. CASE \E w \in Workers : Stall(w)
      BY <2>2 DEF Stall, Prepares
    <2>3. CASE VerifyTick
      BY <2>3 DEF VerifyTick, JobFor, Prepares
    <2>4. CASE jobs' = jobs
      BY <2>4 DEF Prepares
    <2> QED
      BY <2>1, <2>2, <2>3, <2>4
      DEF UploadRefused, Network, Mine, Confirm, Deepen, Expire, Reorg, SetChain, vars,
          queueVars
  <1>3. NoStrandedItems'
    BY <1>1 DEF Still, NoStrandedItems, KnownIn, RowsIn, StrandedInv, Handled
  <1>4. PlansGrowAlone'
    BY <1>1, <1>2, QuietKeepsPlans DEF StrandedInv, Handled
  <1>5. \A v \in Workers : Informed(v)'
    BY <1>1, StillStays, OthersInformed DEF StrandedInv, Handled
  <1> QED
    BY <1>3, <1>4, <1>5 DEF Handled
(***************************************************************************)
(* Steps on the planned items.  Only a plan run adds any, and to a plan    *)
(* that is still in bundle_plan; every other step takes some away.         *)
(***************************************************************************)
LEMMA ShrinkingPlanned ==
    ASSUME StrandedInv, planned' \subseteq planned, UNCHANGED bundleVars
    PROVE  RowsStay /\ PlansShrink /\ NoStrandedItems'
  <1>1. RowsStay /\ PlansShrink
    BY DEF RowsStay, PlansShrink, HasRow, PlannedFor, bundleVars
  <1>2. NoStrandedItems'
    BY DEF NoStrandedItems, KnownIn, RowsIn, bundleVars, StrandedInv, Handled
  <1> QED
    BY <1>1, <1>2

LEMMA HeldItemsNext ==
    ASSUME NEW w \in Workers
    PROVE  (ItemsOf(PlannedFor(run[w].plan)) \subseteq run[w].items)' <=>
              \A r \in planned' : r.plan = run'[w].plan => r.item \in run'[w].items
  BY DEF ItemsOf, PlannedFor

\* NextBatch, as a step that replaces the execution.
LEMMA BatchStep ==
    ASSUME TypeOK, NEW w \in Workers, NEW batch, NEW pc, NextBatch(w, batch, pc)
    PROVE  /\ UNCHANGED jobs
           /\ \A v \in Workers \ {w} : run'[v] = run[v]
           /\ run'[w].job = run[w].job /\ run'[w].plan = run[w].plan
           /\ run'[w].bundle = run[w].bundle /\ run'[w].todo = run[w].todo
           /\ run'[w].items = run[w].items \ batch
           /\ run'[w].pc = IF run[w].items \subseteq batch THEN pc ELSE run[w].pc
  BY DEF NextBatch, queueVars, TypeOK, Execution

LEMMA PlanMoveHandled ==
    ASSUME StrandedInv, NEW w \in Workers, NEW batch, PlanMove(w, batch)
    PROVE  Handled'
  <1> USE DEF StrandedInv, BundleInv, Handled
  <1>1. UNCHANGED <<bundlePlan, bundles, usedPlans>> /\ run[w].pc = "move"
        /\ NextBatch(w, batch, "enqueuePrepare")
    BY DEF PlanMove, bundleVars, At
  <1>2. run[w].plan \in bundlePlan
    BY <1>1 DEF PlansGrowAlone, Moving
  <1>3. \A r \in planned' : r \in planned \/ r.plan = run[w].plan
    BY DEF PlanMove
  <1>4. RowsStay
    BY <1>1 DEF RowsStay, HasRow
  <1>5. PlansShrink
    <2> SUFFICES ASSUME NEW p, NEW b, HasRow(p, b)
                 PROVE  PlannedFor(p)' \subseteq PlannedFor(p)
      BY DEF PlansShrink
    <2>1. p # run[w].plan
      BY <1>2 DEF HasRow, OneBundleTable, KnownIn, RowsIn
    <2> QED
      BY <1>3, <2>1 DEF PlannedFor
  <1>6. NoStrandedItems'
    BY <1>1, <1>2, <1>3 DEF NoStrandedItems, KnownIn, RowsIn
  <1>7. Quiet(w)
    BY <1>1, BatchStep DEF Quiet, Prepares, Moving
  <1>8. run'[w].pc \in {"move", "enqueuePrepare"} /\ run'[w].todo = run[w].todo
    BY <1>1, BatchStep
  <1>9. Informed(w)'
    BY <1>4, <1>8, AheadInformed DEF Informed, OnBundle
  <1> QED
    BY <1>1, <1>4, <1>5, <1>6, <1>7, <1>9, QuietKeepsHandled

LEMMA RepackHeldHandled ==
    ASSUME StrandedInv, NEW w \in Workers, NEW batch, RepackHeld(w, batch)
    PROVE  Handled'
  <1> USE DEF StrandedInv, BundleInv, Handled
  <1>1. PICK pc \in {"demote", "finalize"} : NextBatch(w, batch, pc)
    BY DEF RepackHeld
  <1>2. run[w].pc \in {"repack", "repackRest"} /\ UNCHANGED bundleVars
        /\ planned' = planned \ RowsHeld(batch)
    BY DEF RepackHeld, Repack, At
  <1>3. RowsStay /\ PlansShrink /\ NoStrandedItems'
    BY <1>2, ShrinkingPlanned
  <1>4. Quiet(w)
    BY <1>1, <1>2, BatchStep DEF Quiet, Prepares, Moving
  <1>5. /\ HasRow(run[w].plan, run[w].bundle)
        /\ \A r \in run[w].todo : HasRow(r.plan, r.bundle)
        /\ ItemsOf(PlannedFor(run[w].plan)) \subseteq run[w].items
    BY <1>2 DEF Informed, OnBundle
  <1>6. HasRow(run[w].plan, run[w].bundle)' /\ \A r \in run'[w].todo : HasRow(r.plan, r.bundle)'
    <2>1. run'[w].plan = run[w].plan /\ run'[w].bundle = run[w].bundle
          /\ run'[w].todo = run[w].todo
      BY <1>1, BatchStep
    <2>2. UNCHANGED bundles
      BY <1>2 DEF bundleVars
    <2> QED
      BY <1>5, <2>1, <2>2 DEF HasRow
  <1>7. \A r \in planned' : r \in planned /\ r.item \notin batch
    BY <1>2 DEF RowsHeld
  <1>8. (ItemsOf(PlannedFor(run[w].plan)) \subseteq run[w].items)'
    <2>1. \A r \in planned : r.plan = run[w].plan => r.item \in run[w].items
      BY <1>5 DEF ItemsOf, PlannedFor
    <2>2. \A r \in planned' : r.plan = run'[w].plan => r.item \in run'[w].items
      BY <1>1, <1>7, <2>1, BatchStep
    <2> QED
      BY <2>2, HeldItemsNext
  <1>9. run'[w].pc \in {"demote", "finalize"} => run'[w].items = {}
    BY <1>1, <1>2, BatchStep
  <1>10. run'[w].pc \in {"demote", "finalize"} => PlannedFor(run[w].plan)' = {}
    BY <1>8, <1>9 DEF ItemsOf
  <1>11. Informed(w)'
    BY <1>6, <1>8, <1>10 DEF Informed
  <1> QED
    BY <1>2, <1>3, <1>4, <1>11, QuietKeepsHandled DEF bundleVars

LEMMA MissingHandled ==
    ASSUME StrandedInv, NEW w \in Workers, NEW i, PrepareMissing(w, i)
    PROVE  Handled'
  <1> USE DEF StrandedInv, BundleInv, Handled
  <1>1. planned' \subseteq planned /\ UNCHANGED bundleVars
    BY DEF PrepareMissing
  <1>2. RowsStay /\ PlansShrink /\ NoStrandedItems'
    BY <1>1, ShrinkingPlanned
  <1>3. Quiet(w) /\ Informed(w)'
    BY EnqueueLastLocal, ThrowLocal DEF PrepareMissing, Prepares
  <1> QED
    BY <1>1, <1>2, <1>3, QuietKeepsHandled DEF bundleVars

LEMMA PromoteHandled ==
    ASSUME StrandedInv, NEW w \in Workers, VerifyPromote(w) \/ VerifyPromoteSome(w)
    PROVE  Handled'
  <1> USE DEF StrandedInv, BundleInv, Handled
  <1>1. planned' \subseteq planned /\ UNCHANGED bundleVars /\ run[w].pc = "promote"
    BY DEF VerifyPromote, VerifyPromoteSome, Promote, At
  <1>2. RowsStay /\ PlansShrink /\ NoStrandedItems'
    BY <1>1, ShrinkingPlanned
  <1>3. /\ HasRow(run[w].plan, run[w].bundle)
        /\ \A r \in run[w].todo : HasRow(r.plan, r.bundle)
        /\ ItemsOf(PlannedFor(run[w].plan)) \subseteq run[w].items
    BY <1>1 DEF Informed, OnBundle
  <1>4. Quiet(w) /\ Informed(w)'
    <2>1. CASE NextRow(w)
      BY <1>2, <2>1, GiveUpLocal
    <2>2. CASE GoOn(w, run[w].todo, TRUE)
      BY <1>2, <2>2, GoOnLocal
    <2>3. ASSUME VerifyPromote(w), NEW e, run' = [run EXCEPT ![w] = e], UNCHANGED jobs,
                 e.job = run[w].job, e.plan = run[w].plan, e.bundle = run[w].bundle,
                 e.todo = run[w].todo, e.pc \in {"finalize", "repackRest"},
                 e.pc = "finalize" => NotInHeader(w) = {},
                 e.pc = "repackRest" => e.items = NotInHeader(w)
          PROVE  Quiet(w) /\ Informed(w)'
      <3>1. Quiet(w) /\ run'[w] = e
        BY <2>3, StepQuiet DEF Moving
      <3>2. \A r \in planned' : r \in planned /\ r.item \notin InHeader(w)
        BY <2>3 DEF VerifyPromote, Promote, RowsToPromote
      <3>3. \A r \in planned' : r.plan = run[w].plan => r.item \in NotInHeader(w)
        <4>1. \A r \in planned : r.plan = run[w].plan => r.item \in run[w].items
          BY <1>3 DEF ItemsOf, PlannedFor
        <4> QED
          BY <3>2, <4>1 DEF InHeader, NotInHeader
      <3>4. HasRow(run[w].plan, run[w].bundle)' /\ \A r \in run'[w].todo : HasRow(r.plan, r.bundle)'
        <4>1. UNCHANGED bundles
          BY <1>1 DEF bundleVars
        <4> QED
          BY <1>3, <2>3, <3>1, <4>1 DEF HasRow
      <3>5. e.pc = "repackRest" => (ItemsOf(PlannedFor(run[w].plan)) \subseteq run[w].items)'
        BY <2>3, <3>1, <3>3, HeldItemsNext
      <3>6. e.pc = "finalize" => (PlannedFor(run[w].plan) = {})'
        BY <2>3, <3>1, <3>3 DEF PlannedFor
      <3>7. Informed(w)'
        BY <2>3, <3>1, <3>4, <3>5, <3>6 DEF Informed
      <3> QED
        BY <3>1, <3>7
    <2>4. CASE VerifyPromote(w) /\ NotInHeader(w) = {}
      <3> DEFINE e == [run[w] EXCEPT !.pc = "finalize"]
      <3>1. run' = [run EXCEPT ![w] = e] /\ UNCHANGED jobs
        BY <2>4 DEF VerifyPromote, Goto, queueVars
      <3>2. /\ e.job = run[w].job /\ e.plan = run[w].plan /\ e.bundle = run[w].bundle
            /\ e.todo = run[w].todo /\ e.pc = "finalize"
        BY DEF TypeOK, Execution
      <3> HIDE DEF e
      <3> QED
        BY <2>3, <2>4, <3>1, <3>2
    <2>5. CASE VerifyPromote(w) /\ NotInHeader(w) # {} /\ ~NextRow(w)
      <3> DEFINE e == [run[w] EXCEPT !.pc = "repackRest", !.items = NotInHeader(w)]
      <3>1. run' = [run EXCEPT ![w] = e] /\ UNCHANGED jobs
        BY <2>5 DEF VerifyPromote, queueVars, TypeOK
      <3>2. /\ e.job = run[w].job /\ e.plan = run[w].plan /\ e.bundle = run[w].bundle
            /\ e.todo = run[w].todo /\ e.pc = "repackRest" /\ e.items = NotInHeader(w)
        BY DEF TypeOK, Execution
      <3> HIDE DEF e
      <3> QED
        BY <2>3, <2>5, <3>1, <3>2
    <2> QED
      BY <2>1, <2>2, <2>4, <2>5 DEF VerifyPromoteSome
  <1> QED
    BY <1>1, <1>2, <1>4, QuietKeepsHandled DEF bundleVars
(***************************************************************************)
(* Steps on the bundle rows.  A row leaves the tables a planned item may   *)
(* wait in only when the execution that moves it knows of no such item.    *)
(***************************************************************************)
Live == {"new", "posted", "seeded"}

LEMMA MovedStay ==
    ASSUME TypeOK, NEW from \in BundleTables, NEW to \in BundleTables,
           NEW rows \in SUBSET bundles[from], MoveRows(rows, from, to)
    PROVE  /\ RowsStay
           /\ \A t \in BundleTables : \A r \in bundles[t] :
                 r \in bundles'[t] \/ (r \in rows /\ r \in bundles'[to])
  <1>1. \A t \in BundleTables :
           bundles'[t] = (IF t = to THEN bundles[to] \cup rows ELSE bundles[t])
                            \ (IF t = from /\ from # to THEN rows ELSE {})
    <2> TAKE t \in BundleTables
    <2>1. CASE from = to
      BY <2>1 DEF MoveRows, TypeOK
    <2>2. CASE from # to
      BY <2>2 DEF MoveRows, TypeOK
    <2> QED
      BY <2>1, <2>2
  <1>2. \A t \in BundleTables : \A r \in bundles[t] :
           r \in bundles'[t] \/ (r \in rows /\ r \in bundles'[to])
    BY <1>1
  <1>3. RowsStay
    BY <1>2 DEF RowsStay, HasRow
  <1> QED
    BY <1>2, <1>3

LEMMA MovedHandled ==
    ASSUME StrandedInv, NEW w \in Workers, NEW from \in BundleTables,
           NEW to \in BundleTables, NEW rows \in SUBSET bundles[from],
           MoveRows(rows, from, to), UNCHANGED <<planned, bundlePlan, usedPlans>>,
           to \in Live \/ \A r \in rows : PlannedFor(r.plan) = {},
           RowsStay => Quiet(w) /\ Informed(w)'
    PROVE  Handled'
  <1>1. /\ RowsStay
        /\ \A t \in BundleTables : \A r \in bundles[t] :
              r \in bundles'[t] \/ (r \in rows /\ r \in bundles'[to])
    BY MovedStay DEF StrandedInv, BundleInv
  <1>2. PlansShrink
    BY DEF PlansShrink, PlannedFor
  <1>3. NoStrandedItems'
    <2> SUFFICES ASSUME NEW r \in planned, r.plan \notin bundlePlan
                 PROVE  \E t \in Live : \E q \in bundles'[t] : q.plan = r.plan
      BY DEF NoStrandedItems, KnownIn, RowsIn, Live
    <2>1. PICK t \in Live : \E q \in bundles[t] : q.plan = r.plan
      BY DEF NoStrandedItems, KnownIn, RowsIn, Live, StrandedInv, Handled
    <2>2. PICK q \in bundles[t] : q.plan = r.plan
      BY <2>1
    <2>3. q \in rows => to \in Live
      BY <2>2 DEF PlannedFor
    <2>4. q \in bundles'[t] \/ (to \in Live /\ q \in bundles'[to])
      BY <1>1, <2>3 DEF Live, BundleTables
    <2> QED
      BY <2>2, <2>4
  <1> QED
    BY <1>1, <1>2, <1>3, QuietKeepsHandled

LEMMA RecordHandled ==
    ASSUME StrandedInv, NEW w \in Workers, PostRecord(w) \/ SeedInsert(w)
    PROVE  Handled'
  <1> USE DEF StrandedInv, BundleInv, Handled
  <1>1. CASE PostRecord(w)
    <2>1. /\ MoveRows({r \in bundles["new"] : r.bundle = run[w].bundle}, "new", "posted")
          /\ UNCHANGED <<planned, bundlePlan, usedPlans>> /\ run[w].pc \in OnBundle
          /\ \E pc \in {"enqueueSeed", "enqueueSeedLate"} : Goto(w, pc)
      BY <1>1 DEF PostRecord, itemVars, At, OnBundle
    <2>2. RowsStay => Quiet(w) /\ Informed(w)'
      BY <2>1, GotoLocal DEF OnBundle
    <2> QED
      BY <2>1, <2>2, MovedHandled DEF BundleTables, Live
  <1>2. CASE SeedInsert(w)
    <2>1. /\ MoveRows({r \in bundles["posted"] : r.bundle = run[w].bundle}, "posted", "seeded")
          /\ UNCHANGED <<planned, bundlePlan, usedPlans>> /\ run[w].pc \in OnBundle
          /\ Goto(w, "enqueueVerify") \/ Throw(w)
      BY <1>2 DEF SeedInsert, itemVars, At, OnBundle
    <2>2. RowsStay => Quiet(w) /\ Informed(w)'
      BY <2>1, GotoLocal, ThrowLocal DEF OnBundle
    <2> QED
      BY <2>1, <2>2, MovedHandled DEF BundleTables, Live
  <1> QED
    BY <1>1, <1>2

LEMMA LeaveHandled ==
    ASSUME StrandedInv, NEW w \in Workers, Demote(w) \/ VerifyFinalize(w)
    PROVE  Handled'
  <1> USE DEF StrandedInv, BundleInv, Handled
  <1>1. /\ UNCHANGED <<planned, bundlePlan, usedPlans>>
        /\ run[w].pc \in {"demote", "finalize"}
        /\ NextRow(w) \/ Throw(w) \/ Finish(w)
    BY DEF Demote, VerifyFinalize, itemVars, At
  <1>2. PlannedFor(run[w].plan) = {} /\ HasRow(run[w].plan, run[w].bundle)
    BY <1>1 DEF Informed, OnBundle
  <1>3. RowsStay => Quiet(w) /\ Informed(w)'
    BY <1>1, GiveUpLocal, ThrowLocal, FinishLocal
  <1>4. CASE VerifyFinalize(w)
    <2>1. MoveRows(RowsIn("seeded", run[w].plan), "seeded", "permanent")
      BY <1>4 DEF VerifyFinalize
    <2>2. \A r \in RowsIn("seeded", run[w].plan) : r \in bundles["seeded"] /\ PlannedFor(r.plan) = {}
      BY <1>2 DEF RowsIn
    <2> QED
      BY <1>1, <1>3, <2>1, <2>2, MovedHandled DEF BundleTables
  <1>5. CASE Demote(w)
    <2> DEFINE from == CASE run[w].job.kind = "post" -> "new"
                         [] IsRedrive(w) -> "posted"
                         [] OTHER -> "seeded"
               rows == IF from = "seeded" THEN RowsIn("seeded", run[w].plan)
                       ELSE {r \in bundles[from] : r.bundle = run[w].bundle}
    <2>1. from \in BundleTables /\ "failed" \in BundleTables
      BY DEF BundleTables, IsRedrive
    <2>2. rows \in SUBSET bundles[from]
      BY DEF RowsIn
    <2>3. MoveRows(rows, from, "failed")
      BY <1>5 DEF Demote
    <2>4. \A r \in rows : r.plan = run[w].plan \/ r.bundle = run[w].bundle
      BY DEF RowsIn
    <2> HIDE DEF from, rows
    <2>5. \A r \in rows : r.plan = run[w].plan
      BY <1>2, <2>1, <2>2, <2>4 DEF HasRow, OneBundleTable
    <2>6. \A r \in rows : PlannedFor(r.plan) = {}
      BY <1>2, <2>5
    <2> QED
      BY <1>1, <1>3, <2>1, <2>2, <2>3, <2>6, MovedHandled
  <1> QED
    BY <1>4, <1>5

LEMMA SignHandled ==
    ASSUME StrandedInv, NEW w \in Workers, NEW b \in Bundles, PrepareSign(w, b)
    PROVE  Handled'
  <1> USE DEF StrandedInv, BundleInv, Handled
  <1> DEFINE p   == run[w].plan
             row == [plan |-> p, bundle |-> b]
             e   == [run[w] EXCEPT !.pc = "enqueuePost"]
  <1>1. /\ run[w].pc = "sign" /\ bundlePlan' = bundlePlan \ {p} /\ usedPlans' = usedPlans
        /\ bundles' = [bundles EXCEPT !["new"] = @ \cup {row}]
        /\ planned' = planned /\ run' = [run EXCEPT ![w] = e] /\ UNCHANGED jobs
    BY DEF PrepareSign, At, Goto, itemVars, queueVars
  <1>2. row.plan = p /\ e.job = run[w].job /\ e.pc = "enqueuePost" /\ e.todo = run[w].todo
    BY DEF TypeOK, Execution
  <1>3. Prepares(p)
    BY <1>1 DEF PlansGrowAlone, Prepares
  <1>4. row \in bundles'["new"] /\ \A t \in BundleTables : bundles[t] \subseteq bundles'[t]
    BY <1>1 DEF TypeOK, BundleTables
  <1> HIDE DEF p, row, e
  <1>5. RowsStay /\ PlansShrink
    BY <1>1, <1>4 DEF RowsStay, PlansShrink, HasRow, PlannedFor
  <1>6. Quiet(w) /\ run'[w] = e
    BY <1>1, <1>2, StepQuiet DEF Moving
  <1>7. Informed(w)'
    BY <1>2, <1>5, <1>6, AheadInformed DEF Informed, OnBundle
  <1>8. NoStrandedItems'
    <2> SUFFICES ASSUME NEW r \in planned, r.plan \notin bundlePlan'
                 PROVE  \E t \in Live : \E q \in bundles'[t] : q.plan = r.plan
      BY <1>1 DEF NoStrandedItems, KnownIn, RowsIn, Live
    <2>1. CASE r.plan = p
      BY <1>2, <1>4, <2>1 DEF Live
    <2>2. CASE r.plan # p
      <3>1. \E t \in Live : \E q \in bundles[t] : q.plan = r.plan
        BY <1>1, <2>2 DEF NoStrandedItems, KnownIn, RowsIn, Live
      <3> QED
        BY <1>4, <3>1 DEF Live, BundleTables
    <2> QED
      BY <2>1, <2>2
  <1> QED
    BY <1>1, <1>3, <1>5, <1>6, <1>7, <1>8, QuietKeepsHandled
(***************************************************************************)
(* A plan run begins with a plan id nobody used, and ends with the first   *)
(* prepare job of its plan.                                                *)
(***************************************************************************)
LEMMA PlanStartHandled ==
    ASSUME StrandedInv, NEW w \in Workers, NEW S, NEW p \in Plans, PlanStart(w, S, p)
    PROVE  Handled'
  <1> USE DEF StrandedInv, BundleInv, Handled
  <1> DEFINE e == Exec(JobFor("plan", None), "move", p, None, S, {})
  <1>1. /\ p \notin usedPlans /\ usedPlans' = usedPlans \cup {p}
        /\ bundlePlan' = bundlePlan \cup {p} /\ Still /\ UNCHANGED jobs
        /\ run' = [run EXCEPT ![w] = e]
    BY DEF PlanStart, Still, itemVars, queueVars
  <1>2. e.job.kind = "plan" /\ e.pc = "move" /\ e.plan = p /\ e.todo = {}
    BY DEF Exec, JobFor
  <1> HIDE DEF e
  <1>3. run'[w] = e /\ \A v \in Workers \ {w} : run'[v] = run[v]
    BY <1>1 DEF TypeOK
  <1>4. p \notin bundlePlan /\ ~Prepares(p)
    BY <1>1 DEF RowsAreKnown, PlansGrowAlone
  <1>5. ASSUME NEW q, Prepares(q)' PROVE Prepares(q)
    BY <1>1, <1>2, <1>3, <1>5 DEF Prepares
  <1>6. NoStrandedItems'
    BY <1>1 DEF Still, NoStrandedItems, KnownIn, RowsIn
  <1>7. Informed(w)'
    BY <1>1, <1>2, <1>3, StillStays, AheadInformed DEF OnBundle
  <1>8. \A v \in Workers : Informed(v)'
    BY <1>1, <1>3, <1>7, StillStays, OthersInformed
  <1>9. \A q \in Plans : Prepares(q)' => q \in usedPlans'
    BY <1>1, <1>5 DEF PlansGrowAlone
  <1>10. \A v \in Workers : run'[v].pc \in {"store", "sign"} =>
            run'[v].job.kind = "prepare" /\ run'[v].job.plan = run'[v].plan
    BY <1>2, <1>3 DEF PlansGrowAlone
  <1>11. ASSUME NEW v \in Workers, run'[v].pc \in Moving
         PROVE  /\ run'[v].plan \in bundlePlan' /\ ~Prepares(run[v].plan)'
                /\ \A u \in Workers \ {v} : run'[u].pc \in Moving =>
                      run'[u].plan # run'[v].plan
    <2>1. \A u \in Workers \ {w} : run'[u].pc \in Moving =>
             run'[u].plan \in bundlePlan /\ ~Prepares(run'[u].plan)
      BY <1>3 DEF PlansGrowAlone
    <2>2. run'[v].plan \in bundlePlan' /\ ~Prepares(run'[v].plan)
      BY <1>1, <1>2, <1>3, <1>4, <1>11, <2>1
    <2>3. ~Prepares(run[v].plan)'
      BY <1>1, <1>2, <1>3, <2>2 DEF Prepares
    <2>4. \A u \in Workers \ {v} : run'[u].pc \in Moving => run'[u].plan # run'[v].plan
      BY <1>2, <1>3, <1>4, <1>11, <2>1 DEF PlansGrowAlone
    <2> QED
      BY <2>2, <2>3, <2>4
  <1>12. PlansGrowAlone'
    BY <1>9, <1>10, <1>11 DEF PlansGrowAlone, Prepares
  <1> QED
    BY <1>6, <1>8, <1>12

LEMMA PlanEnqueueHandled ==
    ASSUME StrandedInv, NEW w \in Workers, PlanEnqueue(w)
    PROVE  Handled'
  <1> USE DEF StrandedInv, BundleInv, Handled
  <1> DEFINE p == run[w].plan
             j == JobFor("prepare", p)
  <1>1. /\ Still /\ UNCHANGED <<bundlePlan, usedPlans>> /\ jobs' = jobs \cup {j}
        /\ run' = [run EXCEPT ![w] = Idle] /\ run[w].pc \in Moving
    BY DEF PlanEnqueue, EnqueueLast, At, Still, Moving, itemVars, bundleVars
  <1>2. j.plan = p
    BY DEF JobFor
  <1>3. run'[w] = Idle /\ \A v \in Workers \ {w} : run'[v] = run[v]
    BY <1>1 DEF TypeOK
  <1>4. p \in bundlePlan /\ p \in usedPlans
    BY <1>1 DEF PlansGrowAlone, RowsAreKnown
  <1> HIDE DEF p, j
  <1>5. ASSUME NEW q, Prepares(q)' PROVE q = p \/ Prepares(q)
    BY <1>1, <1>2, <1>3, <1>5, IdleFacts DEF Prepares
  <1>6. NoStrandedItems'
    BY <1>1 DEF Still, NoStrandedItems, KnownIn, RowsIn
  <1>7. \A v \in Workers : Informed(v)'
    BY <1>1, <1>3, StillStays, IdleInformed, OthersInformed
  <1>8. \A q \in Plans : Prepares(q)' => q \in usedPlans'
    BY <1>1, <1>4, <1>5 DEF PlansGrowAlone
  <1>9. \A v \in Workers : run'[v].pc \in {"store", "sign"} =>
           run'[v].job.kind = "prepare" /\ run'[v].job.plan = run'[v].plan
    BY <1>3, IdleFacts DEF PlansGrowAlone
  <1>10. ASSUME NEW v \in Workers, run'[v].pc \in Moving
         PROVE  /\ run'[v].plan \in bundlePlan' /\ ~Prepares(run[v].plan)'
                /\ \A u \in Workers \ {v} : run'[u].pc \in Moving =>
                      run'[u].plan # run'[v].plan
    <2>1. v # w /\ run'[v] = run[v]
      BY <1>3, <1>10, IdleFacts DEF Moving
    <2>2. run[v].plan \in bundlePlan /\ ~Prepares(run[v].plan) /\ run[v].plan # p
      BY <1>1, <1>10, <2>1 DEF PlansGrowAlone, p
    <2>3. ~Prepares(run[v].plan)'
      <3> DEFINE q == run[v].plan
      <3>1. ~Prepares(q)' /\ q' = q
        BY <1>5, <2>1, <2>2
      <3> QED
        BY <3>1
    <2>4. \A u \in Workers \ {v} : run'[u].pc \in Moving => run'[u].plan # run'[v].plan
      BY <1>3, <1>10, <2>1, IdleFacts DEF PlansGrowAlone, Moving
    <2> QED
      BY <1>1, <2>1, <2>2, <2>3, <2>4
  <1>11. PlansGrowAlone'
    BY <1>8, <1>9, <1>10 DEF PlansGrowAlone, Prepares
  <1> QED
    BY <1>6, <1>7, <1>11

(***************************************************************************)
(* The invariant is inductive when every read sees the rows that are there.*)
(***************************************************************************)
LEMMA NextHandled ==
    ASSUME ~ReplicaLag
    PROVE  StrandedInv /\ [Next]_vars => StrandedInv'
  <1> SUFFICES ASSUME StrandedInv, [Next]_vars PROVE StrandedInv'
    OBVIOUS
  <1>1. BundleInv'
    BY NextKeepsRows DEF StrandedInv
  <1>2. ASSUME NEW w \in Workers, StartQueued(w) \/ StartPlan(w) \/ StartRedrive(w)
        PROVE  Handled'
    BY <1>2, StillStepHandled, PlanStartHandled DEF StartPlan
  <1>3. ASSUME NEW w \in Workers, StepPrepare(w)
        PROVE  Handled'
    BY <1>3, StillStepHandled, MissingHandled, SignHandled DEF StepPrepare
  <1>4. ASSUME NEW w \in Workers, Advance(w)
        PROVE  Handled'
    <2>1. CASE \E batch \in SUBSET run[w].items :
                  PlanMove(w, batch) \/ RepackHeld(w, batch) \/ RepackFails(w, batch)
      BY <2>1, PlanMoveHandled, RepackHeldHandled, StillStepHandled
    <2>2. CASE \/ IngestInsert(w) \/ PlanFails(w) \/ PostBroadcast(w) \/ PostStatusSeen(w)
               \/ PostStatusNotSeen(w) \/ PostEnqueue(w) \/ SeedEnqueue(w) \/ StepSweep(w)
      BY <2>2, StillStepHandled
    <2>3. CASE \/ PlanEnqueue(w) \/ PostRecord(w) \/ SeedInsert(w) \/ Demote(w)
               \/ VerifyPromote(w) \/ VerifyFinalize(w)
      BY <2>3, PlanEnqueueHandled, RecordHandled, LeaveHandled, PromoteHandled
    <2> QED
      BY <1>3, <1>4, <2>1, <2>2, <2>3 DEF Advance
  <1>5. ASSUME NEW w \in Workers, Fault(w)
        PROVE  Handled'
    BY <1>5, StillStepHandled, OutsideHandled, PromoteHandled DEF Fault
  <1> QED
    BY <1>1, <1>2, <1>4, <1>5, OutsideHandled DEF Next, StrandedInv

LEMMA InitHandled == Init => StrandedInv
  <1> SUFFICES ASSUME Init PROVE StrandedInv
    OBVIOUS
  <1>1. jobs = {} /\ planned = {} /\ \A w \in Workers : run[w] = Idle
    BY DEF Init
  <1>2. PlansGrowAlone
    BY <1>1, IdleFacts DEF PlansGrowAlone, Prepares, Moving
  <1>3. \A w \in Workers : Informed(w)
    BY <1>1, IdleFacts DEF Informed, OnBundle
  <1> QED
    BY <1>1, <1>2, <1>3, InitRows DEF StrandedInv, Handled, NoStrandedItems

\* When the reader pool does not lag, no planned item is ever left behind by a
\* bundle that is finalized or demoted, for any number of items, plans, workers,
\* attempts, failures, redeliveries, re-drives and overlapping scheduled handlers.
THEOREM NothingStranded ==
    ASSUME ~ReplicaLag
    PROVE  Spec => []NoStrandedItems
  <1>1. Init => StrandedInv
    BY InitHandled
  <1>2. StrandedInv /\ [Next]_vars => StrandedInv'
    BY NextHandled
  <1>3. StrandedInv => NoStrandedItems
    BY DEF StrandedInv, Handled
  <1> QED
    BY <1>1, <1>2, <1>3, SpecSteps, PTL

(***************************************************************************)
(* An item is in one item table at a time, as long as it is uploaded once  *)
(* and no job is handed out while its handler still runs.  Then one job or *)
(* execution at most carries it, and none once it has a row.               *)
(***************************************************************************)
OneRowEach(rows) == \A r, q \in rows : r.item = q.item => r = q
Separate == OneItemTable /\ OneRowEach(newItem) /\ OneRowEach(planned)

Waits(j, i) == j \in jobs /\ j.kind = "newItem" /\ j.item = i
Inserts(w, i) == At(w, "insert") /\ run[w].job.item = i
UnderWay(i) == (\E j : Waits(j, i)) \/ (\E w \in Workers : Inserts(w, i))

\* An item is carried by one job or one execution, and only an insert step has the job.
CarriedOnce ==
    /\ \A i \in Items : \A j, k : Waits(j, i) /\ Waits(k, i) => j = k
    /\ \A i \in Items : \A j : \A w \in Workers : ~(Waits(j, i) /\ Inserts(w, i))
    /\ \A i \in Items : \A v, w \in Workers : Inserts(v, i) /\ Inserts(w, i) => v = w
    /\ \A w \in Workers : run[w].job.kind = "newItem" => At(w, "insert")
\* What has a row, or is carried, was uploaded, and nothing carried has a row.
CarriedIsNew ==
    \A i \in Items : /\ UnderWay(i) => i \notin ExistingItems /\ uploads[i] > 0
                     /\ i \in ExistingItems => uploads[i] > 0

UploadedOnce == stalls = 0 /\ \A i \in Items : uploads[i] <= 1
OnceInv == Separate /\ CarriedOnce /\ CarriedIsNew

\* A step of an execution that carries no item, or stops carrying one.
LetsGo(w) ==
    /\ \A v \in Workers \ {w} : run'[v] = run[v]
    /\ run'[w].job.kind # "newItem"
    /\ \A j \in jobs' : j.kind = "newItem" => j \in jobs \/ j \in Again(run[w].job)

LEMMA IdleCarriesNothing == Idle.job.kind = "plan" /\ Idle.pc = "idle"
BY DEF Idle, Exec, JobFor

LEMMA AgainIsOne ==
    ASSUME NEW j \in Job
    PROVE  \A a, b \in Again(j) : a = b /\ a.kind = j.kind /\ a.item = j.item
<1>1. \A a, b \in Again(j) : a = b
  BY DEF Again
<1> QED
  BY <1>1, AgainType

LEMMA LettingGo ==
    ASSUME TypeOK, CarriedOnce, NEW w \in Workers, LetsGo(w), run' \in [Workers -> Execution],
           jobs' \subseteq Job
    PROVE  CarriedOnce' /\ \A i \in Items : UnderWay(i)' => UnderWay(i)
<1>1. run[w].job \in Job /\ run \in [Workers -> Execution] /\ jobs \subseteq Job
  BY DEF TypeOK, Execution
<1>2. ~At(w, "insert")'
  BY DEF At, LetsGo, Execution
<1>3. ASSUME NEW v \in Workers, NEW i, Inserts(v, i)' PROVE Inserts(v, i) /\ v # w
  BY <1>2, <1>3 DEF Inserts, At, LetsGo
<1>4. ASSUME NEW j, NEW i, Waits(j, i)'
      PROVE  Waits(j, i) \/ (j \in Again(run[w].job) /\ Inserts(w, i))
  <2>1. CASE j \in jobs
    BY <1>4, <2>1 DEF Waits
  <2>2. CASE j \in Again(run[w].job)
    <3>1. run[w].job.kind = "newItem" /\ run[w].job.item = i
      BY <1>1, <1>4, <2>2, AgainIsOne DEF Waits
    <3> QED
      BY <2>2, <3>1 DEF CarriedOnce, Inserts
  <2> QED
    BY <1>4, <2>1, <2>2 DEF Waits, LetsGo
<1>5. \A i \in Items : UnderWay(i)' => UnderWay(i)
  BY <1>3, <1>4 DEF UnderWay
<1>6. \A i \in Items : \A j, k : Waits(j, i)' /\ Waits(k, i)' => j = k
  BY <1>1, <1>4, AgainIsOne DEF CarriedOnce
<1>7. \A i \in Items : \A j : \A v \in Workers : ~(Waits(j, i)' /\ Inserts(v, i)')
  BY <1>3, <1>4 DEF CarriedOnce
<1>8. \A i \in Items : \A u, v \in Workers : Inserts(u, i)' /\ Inserts(v, i)' => u = v
  BY <1>3 DEF CarriedOnce
<1>9. \A v \in Workers : run'[v].job.kind = "newItem" => At(v, "insert")'
  BY DEF CarriedOnce, LetsGo, At
<1> QED
  BY <1>5, <1>6, <1>7, <1>8, <1>9 DEF CarriedOnce

\* Executions and jobs of the other kinds, by what they do with the queues.
LEMMA QueueLetsGo ==
    ASSUME TypeOK, NEW w \in Workers, run[w].job.kind # "newItem",
           \/ \E pc : Goto(w, pc)
           \/ Finish(w)
           \/ Throw(w)
           \/ \E batch, pc : NextBatch(w, batch, pc)
           \/ \E todo, stuck : GoOn(w, todo, stuck)
           \/ \E r, pc : Sweep(w, r, pc)
           \/ \E j : j.kind # "newItem" /\ EnqueueLast(w, j)
           \/ \E j, e : j.kind # "newItem" /\ e.job = j /\ Take(w, j, e)
           \/ \E j : j.kind # "newItem" /\ DropJob(w, j)
    PROVE  LetsGo(w)
<1>1. run \in [Workers -> Execution]
  BY DEF TypeOK
<1>2. \A x, pc, p, b, S, T : Exec(x, pc, p, b, S, T).job = x
  BY DEF Exec
<1>3. CASE \E pc : Goto(w, pc)
  BY <1>1, <1>3 DEF Goto, queueVars, LetsGo, Execution
<1>4. CASE Finish(w)
  BY <1>1, <1>4, IdleCarriesNothing DEF Finish, queueVars, LetsGo
<1>5. CASE Throw(w)
  BY <1>1, <1>5, IdleCarriesNothing DEF Throw, LetsGo
<1>6. CASE \E batch, pc : NextBatch(w, batch, pc)
  BY <1>1, <1>6 DEF NextBatch, queueVars, LetsGo, Execution
<1>7. CASE \E todo, stuck : GoOn(w, todo, stuck)
  BY <1>1, <1>2, <1>7, IdleCarriesNothing DEF GoOn, Throw, Finish, queueVars, LetsGo, Exec
<1>8. CASE \E r, pc : Sweep(w, r, pc)
  BY <1>1, <1>8 DEF Sweep, queueVars, LetsGo, Execution
<1>9. CASE \E j : j.kind # "newItem" /\ EnqueueLast(w, j)
  BY <1>1, <1>9, IdleCarriesNothing DEF EnqueueLast, LetsGo
<1>10. CASE \E j, e : j.kind # "newItem" /\ e.job = j /\ Take(w, j, e)
  BY <1>1, <1>10 DEF Take, LetsGo
<1>11. CASE \E j : j.kind # "newItem" /\ DropJob(w, j)
  BY <1>1, <1>11, IdleCarriesNothing DEF DropJob, Take, LetsGo
<1> QED
  BY <1>3, <1>4, <1>5, <1>6, <1>7, <1>8, <1>9, <1>10, <1>11

LEMMA StartsLetGo ==
    ASSUME TypeOK, CarriedOnce, NEW w \in Workers,
           \/ \E j \in jobs : PrepareStart(w, j) \/ PostStart(w, j) \/ SeedStart(w, j)
                                 \/ VerifyStart(w, j)
           \/ StartPlan(w) \/ StartRedrive(w)
    PROVE  LetsGo(w)
<1>1. run \in [Workers -> Execution] /\ jobs \subseteq Job
  BY DEF TypeOK
<1>2. \A x, pc, p, b, S, T : Exec(x, pc, p, b, S, T).job = x
  BY DEF Exec
<1>3. run[w] = Idle => run[w].job.kind # "newItem"
  BY IdleCarriesNothing
<1>4. ASSUME NEW j \in jobs, j.kind # "newItem", ThrowAtStart(w, j) PROVE LetsGo(w)
  BY <1>1, <1>3, <1>4, AgainType DEF ThrowAtStart, LetsGo
<1>5. ASSUME NEW j \in jobs, j.kind # "newItem",
             \/ \E e : e.job = j /\ Take(w, j, e)
             \/ DropJob(w, j) \/ ThrowAtStart(w, j)
      PROVE  LetsGo(w)
  <2>1. run[w] = Idle
    BY <1>5 DEF Take, DropJob, ThrowAtStart
  <2> QED
    BY <1>3, <1>4, <1>5, <2>1, QueueLetsGo
<1>6. ASSUME NEW j \in jobs, PrepareStart(w, j) PROVE LetsGo(w)
  BY <1>2, <1>5, <1>6 DEF PrepareStart
<1>7. ASSUME NEW j \in jobs, PostStart(w, j) PROVE LetsGo(w)
  BY <1>2, <1>5, <1>7 DEF PostStart
<1>8. ASSUME NEW j \in jobs, SeedStart(w, j) PROVE LetsGo(w)
  BY <1>2, <1>5, <1>8 DEF SeedStart
<1>9. ASSUME NEW j \in jobs, VerifyStart(w, j) PROVE LetsGo(w)
  BY <1>2, <1>5, <1>9 DEF VerifyStart
<1>10. CASE StartPlan(w) \/ StartRedrive(w)
  BY <1>1, <1>2, <1>10 DEF StartPlan, StartRedrive, PlanStart, RedriveStart, JobFor, LetsGo, queueVars
<1> QED
  BY <1>6, <1>7, <1>8, <1>9, <1>10

\* What executions do at their other steps.
LEMMA StepsLetGo ==
    ASSUME TypeOK, CarriedOnce, NEW w \in Workers, ~At(w, "insert"),
           Advance(w) \/ HandlerFails(w) \/ PostCatches(w) \/ VerifyPromoteSome(w)
    PROVE  LetsGo(w)
<1>1. run[w].job.kind # "newItem"
  BY DEF CarriedOnce
<1>2. \A k, p : JobFor(k, p).kind = k
  BY DEF JobFor
<1>3. CASE HandlerFails(w) \/ PostCatches(w) \/ VerifyPromoteSome(w)
  BY <1>1, <1>3, QueueLetsGo DEF HandlerFails, PostCatches, VerifyPromoteSome, NextRow
<1>4. CASE IngestInsert(w) \/ PlanFails(w) \/ PlanEnqueue(w)
  BY <1>1, <1>2, <1>4, QueueLetsGo DEF IngestInsert, PlanFails, PlanEnqueue
<1>5. ASSUME NEW batch \in SUBSET run[w].items,
             PlanMove(w, batch) \/ RepackHeld(w, batch) \/ RepackFails(w, batch)
      PROVE  LetsGo(w)
  BY <1>1, <1>5, QueueLetsGo DEF PlanMove, RepackHeld, RepackFails, GiveUp
<1>6. CASE StepPrepare(w)
  BY <1>1, <1>2, <1>6, QueueLetsGo DEF StepPrepare, PrepareStore, PrepareLoses, PrepareEnqueue,
     PrepareMissing, PrepareSign
<1>7. CASE PostBroadcast(w) \/ PostStatusSeen(w) \/ PostRecord(w) \/ PostEnqueue(w)
           \/ SeedInsert(w) \/ SeedEnqueue(w)
  BY <1>1, <1>2, <1>7, QueueLetsGo DEF PostBroadcast, PostStatusSeen, PostRecord, PostEnqueue,
     SeedInsert, SeedEnqueue
<1>8. CASE PostStatusNotSeen(w)
  <2>1. CASE Throw(w)
    BY <1>1, <2>1, QueueLetsGo
  <2>2. CASE ~Throw(w)
    <3>1. run \in [Workers -> Execution]
      BY DEF TypeOK
    <3> QED
      BY <1>1, <1>8, <2>2, <3>1 DEF PostStatusNotSeen, LetsGo, queueVars, Execution
  <2> QED
    BY <2>1, <2>2
<1>9. CASE Demote(w) \/ VerifyFinalize(w)
  BY <1>1, <1>9, QueueLetsGo DEF Demote, VerifyFinalize, NextRow
<1>10. CASE VerifyPromote(w)
  <2>1. run \in [Workers -> Execution]
    BY DEF TypeOK
  <2>2. CASE \/ Goto(w, "finalize") \/ NextRow(w)
    BY <1>1, <2>2, QueueLetsGo DEF NextRow
  <2>3. CASE ~(Goto(w, "finalize") \/ NextRow(w))
    BY <1>1, <1>10, <2>1, <2>3 DEF VerifyPromote, LetsGo, queueVars, Execution
  <2> QED
    BY <2>2, <2>3
<1>11. CASE StepSweep(w)
  <2>1. run \in [Workers -> Execution]
    BY DEF TypeOK
  <2>2. PICK r \in run[w].todo : VerifyDrop(w, r) \/ VerifyConfirmed(w, r) \/ VerifySkip(w, r)
                                    \/ RedriveSeed(w, r) \/ RedriveDemote(w, r)
    BY <1>11 DEF StepSweep
  <2>3. CASE RedriveSeed(w, r)
    BY <1>1, <1>2, <2>1, <2>3, IdleCarriesNothing DEF RedriveSeed, LetsGo, Execution
  <2> QED
    BY <1>1, <2>2, <2>3, QueueLetsGo DEF VerifyDrop, VerifyConfirmed, VerifySkip, RedriveDemote
<1> QED
  BY <1>3, <1>4, <1>5, <1>6, <1>7, <1>8, <1>9, <1>10, <1>11 DEF Advance

LEMMA InsertsLetGo ==
    ASSUME TypeOK, CarriedOnce, NEW w \in Workers, At(w, "insert"),
           Advance(w) \/ HandlerFails(w) \/ PostCatches(w) \/ VerifyPromoteSome(w)
    PROVE  LetsGo(w) /\ (IngestInsert(w) \/ (HandlerFails(w) /\ UNCHANGED itemVars))
<1>1. IngestInsert(w) \/ (HandlerFails(w) /\ UNCHANGED itemVars)
  BY DEF At, Advance, PlanFails, PlanEnqueue, PlanMove, RepackHeld, RepackFails, StepPrepare,
     PrepareStore, PrepareLoses, PrepareEnqueue, PrepareMissing, PrepareSign, PostBroadcast,
     PostStatusSeen, PostStatusNotSeen, PostRecord, PostEnqueue, SeedInsert, SeedEnqueue, Demote,
     StepSweep, VerifyDrop, VerifyConfirmed, VerifySkip, RedriveSeed, RedriveDemote,
     VerifyPromote, VerifyFinalize, HandlerFails, PostCatches, VerifyPromoteSome
<1>2. run \in [Workers -> Execution]
  BY DEF TypeOK
<1>3. CASE IngestInsert(w)
  BY <1>2, <1>3, IdleCarriesNothing DEF IngestInsert, Finish, queueVars, LetsGo
<1>4. CASE HandlerFails(w)
  BY <1>2, <1>4, IdleCarriesNothing DEF HandlerFails, Throw, LetsGo
<1> QED
  BY <1>1, <1>3, <1>4

\* The two ways a job or an execution comes to carry an item, and what others do beside.
LEMMA ReadCarries ==
    ASSUME TypeOK, TypeOK', CarriedOnce, NEW w \in Workers, NEW j \in jobs, IngestRead(w, j)
    PROVE  CarriedOnce' /\ \A i \in Items : UnderWay(i)' => UnderWay(i)
<1>1. run \in [Workers -> Execution] /\ run[w] = Idle /\ j.kind = "newItem"
  BY DEF TypeOK, IngestRead, Take, DropJob
<1>2. CASE DropJob(w, j)
  <2>1. LetsGo(w)
    BY <1>1, <1>2, IdleCarriesNothing DEF DropJob, Take, LetsGo
  <2> QED
    BY <2>1, LettingGo DEF TypeOK
<1>3. CASE Take(w, j, Exec(j, "insert", None, None, {}, {}))
  <2> DEFINE e == Exec(j, "insert", None, None, {}, {})
  <2>1. e.job = j /\ e.pc = "insert"
    BY DEF Exec
  <2>2. /\ jobs' = jobs \ {j} /\ run'[w].job = j /\ run'[w].pc = "insert"
        /\ \A v \in Workers \ {w} : run'[v] = run[v]
    BY <1>1, <1>3, <2>1 DEF Take
  <2>3. ~At(w, "insert")
    BY <1>1, IdleCarriesNothing DEF At
  <2>4. ASSUME NEW k, NEW i, Waits(k, i)' PROVE Waits(k, i) /\ k # j
    BY <2>2, <2>4 DEF Waits
  <2>5. ASSUME NEW v \in Workers, NEW i, Inserts(v, i)'
        PROVE  (v # w /\ Inserts(v, i)) \/ (v = w /\ i = j.item)
    BY <2>2, <2>5 DEF Inserts, At
  <2>6. j.item \in Items /\ Waits(j, j.item)
    BY <1>1 DEF TypeOK, Job, Waits
  <2>7. \A v \in Workers : run'[v].job.kind = "newItem" => At(v, "insert")'
    BY <2>2 DEF CarriedOnce, At
  <2>8. \A i \in Items : UnderWay(i)' => UnderWay(i)
    BY <2>4, <2>5, <2>6 DEF UnderWay
  <2>9. \A i \in Items : \A k, l : Waits(k, i)' /\ Waits(l, i)' => k = l
    BY <2>4 DEF CarriedOnce
  <2>10. \A i \in Items : \A k : \A v \in Workers : ~(Waits(k, i)' /\ Inserts(v, i)')
    BY <2>4, <2>5, <2>6 DEF CarriedOnce
  <2>11. \A i \in Items : \A u, v \in Workers : Inserts(u, i)' /\ Inserts(v, i)' => u = v
    BY <2>5, <2>6 DEF CarriedOnce
  <2> QED
    BY <2>7, <2>8, <2>9, <2>10, <2>11 DEF CarriedOnce
<1> QED
  BY <1>2, <1>3 DEF IngestRead

LEMMA UploadCarries ==
    ASSUME TypeOK, CarriedOnce, NEW i \in Items, Upload(i), ~UnderWay(i)
    PROVE  CarriedOnce' /\ \A k \in Items : UnderWay(k)' => UnderWay(k) \/ k = i
<1>1. /\ jobs' = jobs \cup {NewItemJob(i, uploads[i] + 1)} /\ run' = run
      /\ NewItemJob(i, uploads[i] + 1).item = i
  BY DEF Upload, NewItemJob
<1>2. ASSUME NEW j, NEW k, Waits(j, k)'
      PROVE  Waits(j, k) \/ (j = NewItemJob(i, uploads[i] + 1) /\ k = i)
  BY <1>1, <1>2 DEF Waits
<1>3. \A v \in Workers : \A k : Inserts(v, k)' <=> Inserts(v, k)
  BY <1>1 DEF Inserts, At
<1>4. (\A j : ~Waits(j, i)) /\ \A v \in Workers : ~Inserts(v, i)
  BY DEF UnderWay
<1>5. \A v \in Workers : run'[v].job.kind = "newItem" => At(v, "insert")'
  BY <1>1 DEF CarriedOnce, At
<1> QED
  BY <1>2, <1>3, <1>4, <1>5 DEF CarriedOnce, UnderWay

LEMMA OthersCarry ==
    ASSUME CarriedOnce, run' = run, \A j \in jobs' : j.kind = "newItem" => j \in jobs
    PROVE  CarriedOnce' /\ \A i \in Items : UnderWay(i)' => UnderWay(i)
<1>1. \A j, i : Waits(j, i)' => Waits(j, i)
  BY DEF Waits
<1>2. \A v \in Workers : \A i : Inserts(v, i)' <=> Inserts(v, i)
  BY DEF Inserts, At
<1> QED
  BY <1>1, <1>2 DEF CarriedOnce, UnderWay, At

(***************************************************************************)
(* Rows are moved whole: an item's one row from a table to another.        *)
(***************************************************************************)
LEMMA SameRows ==
    ASSUME Separate, UNCHANGED <<newItem, planned, permanent>>
    PROVE  Separate' /\ ExistingItems' = ExistingItems
BY DEF Separate, OneItemTable, OneRowEach, ExistingItems, ItemsOf

LEMMA PlanMovesRows ==
    ASSUME TypeOK, Separate, NEW w \in Workers, NEW batch, PlanMove(w, batch)
    PROVE  Separate' /\ ExistingItems' \subseteq ExistingItems
<1> DEFINE Planned(r) == [item |-> r.item, up |-> r.up, fails |-> r.fails, plan |-> run[w].plan]
           rows == {r \in newItem : r.item \in batch}
<1>1. /\ newItem' = newItem \ rows /\ planned' = planned \cup {Planned(r) : r \in rows}
      /\ permanent' = permanent
  BY DEF PlanMove
<1>2. \A r : Planned(r).item = r.item
  OBVIOUS
<1> HIDE DEF Planned
<1>3. \A q \in planned' : q \in planned \/ \E r \in rows : q = Planned(r) /\ q.item = r.item
  BY <1>1, <1>2
<1>4. OneRowEach(newItem') /\ OneRowEach(planned')
  <2>1. OneRowEach(newItem')
    BY <1>1 DEF Separate, OneRowEach
  <2>2. \A q \in planned, r \in rows : q.item # r.item
    BY DEF Separate, OneItemTable, ItemsOf
  <2> QED
    BY <1>3, <2>1, <2>2 DEF Separate, OneRowEach
<1>5. ItemsOf(newItem') \cap ItemsOf(planned') = {}
  BY <1>1, <1>3 DEF Separate, OneItemTable, OneRowEach, ItemsOf
<1>6. ItemsOf(newItem') \subseteq ItemsOf(newItem)
      /\ ItemsOf(planned') \subseteq ItemsOf(newItem) \cup ItemsOf(planned)
  BY <1>1, <1>3 DEF ItemsOf
<1>7. OneItemTable'
  <2>1. ItemsOf(permanent)' = ItemsOf(permanent)
    BY <1>1 DEF ItemsOf
  <2> QED
    BY <1>5, <1>6, <2>1 DEF Separate, OneItemTable
<1> QED
  BY <1>1, <1>4, <1>6, <1>7 DEF Separate, ExistingItems

LEMMA RepackMovesRows ==
    ASSUME TypeOK, Separate, NEW batch, Repack(RowsHeld(batch))
    PROVE  Separate' /\ ExistingItems' \subseteq ExistingItems
<1> DEFINE New(r) == [item |-> r.item, up |-> r.up, fails |-> r.fails + 1]
           rows == RowsHeld(batch)
           back == rows \ OverLimit(rows)
<1>1. /\ planned' = planned \ rows /\ newItem' = newItem \cup {New(r) : r \in back}
      /\ permanent' = permanent /\ rows = {r \in planned : r.item \in batch}
      /\ back \subseteq rows
  BY DEF Repack, RowsHeld
<1>2. \A r : New(r).item = r.item
  OBVIOUS
<1> HIDE DEF New, back
<1>3. \A q \in newItem' : q \in newItem \/ \E r \in rows : q = New(r) /\ q.item = r.item
  BY <1>1, <1>2
<1>4. OneRowEach(newItem') /\ OneRowEach(planned')
  <2>1. OneRowEach(planned')
    BY <1>1 DEF Separate, OneRowEach
  <2>2. \A q \in newItem, r \in rows : q.item # r.item
    BY <1>1 DEF Separate, OneItemTable, ItemsOf
  <2>3. \A q, r \in rows : q.item = r.item => q = r
    BY <1>1 DEF Separate, OneRowEach
  <2> HIDE DEF rows
  <2> QED
    BY <1>3, <2>1, <2>2, <2>3 DEF Separate, OneRowEach
<1>5. ItemsOf(newItem') \cap ItemsOf(planned') = {}
  BY <1>1, <1>3 DEF Separate, OneItemTable, OneRowEach, ItemsOf
<1>6. ItemsOf(planned') \subseteq ItemsOf(planned)
      /\ ItemsOf(newItem') \subseteq ItemsOf(newItem) \cup ItemsOf(planned)
  BY <1>1, <1>3 DEF ItemsOf
<1>7. OneItemTable'
  <2>1. ItemsOf(permanent)' = ItemsOf(permanent)
    BY <1>1 DEF ItemsOf
  <2> QED
    BY <1>5, <1>6, <2>1 DEF Separate, OneItemTable
<1> QED
  BY <1>1, <1>4, <1>6, <1>7 DEF Separate, ExistingItems

LEMMA PromoteMovesRows ==
    ASSUME TypeOK, Separate, NEW rows \in SUBSET planned, NEW b, Promote(rows, b)
    PROVE  Separate' /\ ExistingItems' \subseteq ExistingItems
<1> DEFINE bad == {r \in rows : Poison(r)}
<1>1. /\ planned' = planned \ rows /\ newItem' = newItem
      /\ permanent' = permanent \cup {PermanentRowOf(r, b) : r \in rows \ bad}
  BY DEF Promote
<1>2. \A r : PermanentRowOf(r, b).item = r.item
  BY DEF PermanentRowOf
<1> HIDE DEF bad
<1>3. \A q \in permanent' : q \in permanent \/ \E r \in rows : q.item = r.item
  BY <1>1, <1>2
<1>4. OneRowEach(newItem') /\ OneRowEach(planned')
  BY <1>1 DEF Separate, OneRowEach
<1>5. ItemsOf(planned') \cap ItemsOf(permanent') = {}
  BY <1>1, <1>3 DEF Separate, OneItemTable, OneRowEach, ItemsOf
<1>6. ItemsOf(planned') \subseteq ItemsOf(planned)
      /\ ItemsOf(permanent') \subseteq ItemsOf(permanent) \cup ItemsOf(planned)
  BY <1>1, <1>3 DEF ItemsOf
<1>7. OneItemTable'
  BY <1>1, <1>5, <1>6 DEF Separate, OneItemTable, ItemsOf
<1> QED
  BY <1>1, <1>4, <1>6, <1>7 DEF Separate, ExistingItems

LEMMA MissingLeaves ==
    ASSUME Separate, NEW w \in Workers, NEW i, PrepareMissing(w, i)
    PROVE  Separate' /\ ExistingItems' \subseteq ExistingItems
<1>1. planned' \subseteq planned /\ UNCHANGED <<newItem, permanent>>
  BY DEF PrepareMissing
<1> QED
  BY <1>1 DEF Separate, OneItemTable, OneRowEach, ExistingItems, ItemsOf

LEMMA InsertAddsRow ==
    ASSUME TypeOK, Separate, NEW w \in Workers, IngestInsert(w), run[w].job.item \notin ExistingItems
    PROVE  Separate' /\ ExistingItems' \subseteq ExistingItems \cup {run[w].job.item}
<1> DEFINE i == run[w].job.item
           row == [item |-> i, up |-> run[w].job.up, fails |-> 0]
<1>1. newItem' = newItem \cup {row} /\ UNCHANGED <<planned, permanent>> /\ row.item = i
  BY DEF IngestInsert, ExistingItems
<1> HIDE DEF row
<1> QED
  BY <1>1 DEF Separate, OneItemTable, OneRowEach, ExistingItems, ItemsOf

LEMMA StepMovesRows ==
    ASSUME TypeOK, Separate, NEW w \in Workers, ~IngestInsert(w),
           Advance(w) \/ PostCatches(w) \/ VerifyPromoteSome(w)
    PROVE  Separate' /\ ExistingItems' \subseteq ExistingItems
<1>1. CASE \E batch \in SUBSET run[w].items : PlanMove(w, batch)
  BY <1>1, PlanMovesRows
<1>2. CASE \E batch \in SUBSET run[w].items : RepackHeld(w, batch)
  BY <1>2, RepackMovesRows DEF RepackHeld
<1>3. CASE \E i \in Items : PrepareMissing(w, i)
  BY <1>3, MissingLeaves
<1>4. CASE VerifyPromote(w) \/ VerifyPromoteSome(w)
  <2>1. RowsToPromote(w) \subseteq planned
    BY DEF RowsToPromote
  <2> QED
    BY <1>4, <2>1, PromoteMovesRows DEF VerifyPromote, VerifyPromoteSome
<1>5. CASE ~(\/ \E batch \in SUBSET run[w].items : PlanMove(w, batch) \/ RepackHeld(w, batch)
             \/ \E i \in Items : PrepareMissing(w, i)
             \/ VerifyPromote(w) \/ VerifyPromoteSome(w))
  <2>1. UNCHANGED <<newItem, planned, permanent>>
    BY <1>5 DEF Advance, PlanFails, PlanEnqueue, RepackFails, StepPrepare,
     PrepareStore, PrepareLoses, PrepareEnqueue, PrepareSign, PostBroadcast,
     PostStatusSeen, PostStatusNotSeen, PostRecord, PostEnqueue, SeedInsert, SeedEnqueue, Demote,
     StepSweep, VerifyDrop, VerifyConfirmed, VerifySkip, RedriveSeed, RedriveDemote,
     VerifyFinalize, PostCatches, itemVars
  <2> QED
    BY <2>1, SameRows
<1> QED
  BY <1>1, <1>2, <1>3, <1>4, <1>5

(***************************************************************************)
(* Every step.                                                             *)
(***************************************************************************)

\* What carries an item, or gives it a row, took it over from what carried it.
LEMMA StaysNew ==
    ASSUME CarriedIsNew, UNCHANGED uploads, ExistingItems' \subseteq ExistingItems,
           \A i \in Items : UnderWay(i)' => UnderWay(i)
    PROVE  CarriedIsNew'
BY DEF CarriedIsNew

LEMMA WorkerBounds ==
    ASSUME NEW w \in Workers,
           StartQueued(w) \/ StartPlan(w) \/ StartRedrive(w) \/ Advance(w) \/ HandlerFails(w)
              \/ PostCatches(w) \/ VerifyPromoteSome(w)
    PROVE  UNCHANGED <<uploads, stalls>>
<1>1. CASE StartQueued(w) \/ StartPlan(w) \/ StartRedrive(w)
  BY <1>1 DEF StartQueued, IngestRead, PrepareStart, PostStart, SeedStart, VerifyStart, StartPlan,
     PlanStart, StartRedrive, RedriveStart, boundVars
<1>2. CASE HandlerFails(w) \/ PostCatches(w) \/ VerifyPromoteSome(w)
  BY <1>2 DEF HandlerFails, PostCatches, VerifyPromoteSome
<1>3. CASE Advance(w)
  BY <1>3 DEF boundVars, Advance, IngestInsert, PlanFails,
     PlanEnqueue, PlanMove, RepackHeld, RepackFails, StepPrepare,
     PrepareStore, PrepareLoses, PrepareEnqueue, PrepareMissing, PrepareSign, PostBroadcast,
     PostStatusSeen, PostStatusNotSeen, PostRecord, PostEnqueue, SeedInsert, SeedEnqueue, Demote,
     StepSweep, VerifyDrop, VerifyConfirmed, VerifySkip, RedriveSeed, RedriveDemote,
     VerifyPromote, VerifyFinalize
<1> QED
  BY <1>1, <1>2, <1>3

LEMMA WorkerKeepsOnce ==
    ASSUME TypeOK, TypeOK', OnceInv, NEW w \in Workers,
           StartQueued(w) \/ StartPlan(w) \/ StartRedrive(w) \/ Advance(w) \/ HandlerFails(w)
              \/ PostCatches(w) \/ VerifyPromoteSome(w)
    PROVE  OnceInv'
<1>1. UNCHANGED uploads
  BY WorkerBounds
<1>2. CASE StartQueued(w) \/ StartPlan(w) \/ StartRedrive(w)
  <2>1. UNCHANGED <<newItem, planned, permanent>>
    BY <1>2 DEF StartQueued, IngestRead, PrepareStart, PostStart, SeedStart, VerifyStart, StartPlan,
       PlanStart, StartRedrive, RedriveStart, itemVars
  <2>2. CASE \E j \in jobs : IngestRead(w, j)
    BY <1>1, <2>1, <2>2, ReadCarries, SameRows, StaysNew DEF OnceInv
  <2>3. CASE ~\E j \in jobs : IngestRead(w, j)
    <3>1. LetsGo(w)
      BY <1>2, <2>3, StartsLetGo DEF StartQueued, OnceInv
    <3> QED
      BY <1>1, <2>1, <3>1, LettingGo, SameRows, StaysNew DEF OnceInv, TypeOK
  <2> QED
    BY <2>2, <2>3
<1>3. CASE IngestInsert(w)
  <2>1. PICK i \in Items : i = run[w].job.item /\ Inserts(w, i)
    BY <1>3 DEF IngestInsert, TypeOK, Execution, Job, At, Inserts
  <2>2. LetsGo(w)
    BY <1>3, InsertsLetGo DEF OnceInv, Advance, IngestInsert
  <2>3. CarriedOnce' /\ \A k \in Items : UnderWay(k)' => UnderWay(k)
    BY <2>2, LettingGo DEF OnceInv, TypeOK
  <2>4. i \notin ExistingItems /\ uploads[i] > 0
    BY <2>1 DEF OnceInv, CarriedIsNew, UnderWay
  <2>5. Separate' /\ ExistingItems' \subseteq ExistingItems \cup {i}
    BY <1>3, <2>1, <2>4, InsertAddsRow DEF OnceInv
  <2>6. ~UnderWay(i)'
    <3>1. (\A j : ~Waits(j, i)) /\ \A v \in Workers : Inserts(v, i) => v = w
      BY <2>1 DEF OnceInv, CarriedOnce
    <3>2. \A v \in Workers : ~Inserts(v, i)'
      <4>1. run' = [run EXCEPT ![w] = Idle]
        BY <1>3 DEF IngestInsert, Finish
      <4> QED
        BY <3>1, <4>1, IdleCarriesNothing DEF TypeOK, Inserts, At
    <3>3. \A j : ~Waits(j, i)'
      BY <1>3, <3>1 DEF IngestInsert, Finish, queueVars, Waits
    <3> QED
      BY <3>2, <3>3 DEF UnderWay
  <2> QED
    BY <1>1, <2>1, <2>3, <2>4, <2>5, <2>6 DEF OnceInv, CarriedIsNew
<1>4. CASE ~IngestInsert(w) /\ (Advance(w) \/ HandlerFails(w) \/ PostCatches(w) \/ VerifyPromoteSome(w))
  <2>1. LetsGo(w)
    BY <1>4, StepsLetGo, InsertsLetGo DEF OnceInv
  <2>2. Separate' /\ ExistingItems' \subseteq ExistingItems
    <3>1. CASE HandlerFails(w)
      BY <3>1, SameRows DEF HandlerFails, itemVars, OnceInv
    <3> QED
      BY <1>4, <3>1, StepMovesRows DEF OnceInv
  <2> QED
    BY <1>1, <2>1, <2>2, LettingGo, StaysNew DEF OnceInv, TypeOK
<1> QED
  BY <1>2, <1>3, <1>4

LEMMA UploadKeepsOnce ==
    ASSUME TypeOK, OnceInv, NEW i \in Items, Upload(i), uploads'[i] <= 1
    PROVE  OnceInv'
<1>1. uploads' = [uploads EXCEPT ![i] = @ + 1] /\ uploads[i] = 0
  BY DEF Upload, TypeOK
<1>2. ~UnderWay(i) /\ i \notin ExistingItems
  BY <1>1 DEF OnceInv, CarriedIsNew
<1>3. UNCHANGED <<newItem, planned, permanent>>
  BY DEF Upload
<1>4. CarriedOnce' /\ \A k \in Items : UnderWay(k)' => UnderWay(k) \/ k = i
  BY <1>2, UploadCarries DEF OnceInv
<1>5. Separate' /\ ExistingItems' = ExistingItems
  BY <1>3, SameRows DEF OnceInv
<1>6. \A k \in Items : uploads[k] > 0 => uploads'[k] > 0
  BY <1>1 DEF TypeOK
<1>7. uploads'[i] > 0
  BY <1>1 DEF TypeOK
<1> QED
  BY <1>2, <1>4, <1>5, <1>6, <1>7 DEF OnceInv, CarriedIsNew

LEMMA OutsideKeepsOnce ==
    ASSUME OnceInv,
           \/ \E i \in Items : UploadRefused(i)
           \/ VerifyTick \/ Network \/ UNCHANGED vars
    PROVE  OnceInv'
<1>1. UNCHANGED <<newItem, planned, permanent, uploads, run>>
  BY DEF UploadRefused, VerifyTick, Network, Mine, Confirm, Deepen, Expire, Reorg, SetChain,
     vars, itemVars, boundVars
<1>2. \A j \in jobs' : j.kind = "newItem" => j \in jobs
  BY DEF UploadRefused, VerifyTick, JobFor, Network, Mine, Confirm, Deepen, Expire, Reorg, SetChain,
     vars, queueVars
<1> QED
  BY <1>1, <1>2, SameRows, OthersCarry, StaysNew DEF OnceInv

LEMMA NextKeepsOnce ==
    TypeOK /\ (UploadedOnce => OnceInv) /\ [Next]_vars => (UploadedOnce => OnceInv)'
<1> SUFFICES ASSUME TypeOK, UploadedOnce => OnceInv, [Next]_vars, UploadedOnce' PROVE OnceInv'
  OBVIOUS
<1>1. TypeOK'
  BY NextType
<1>2. stalls' = 0 /\ \A i \in Items : uploads'[i] <= 1
  BY DEF UploadedOnce
<1>3. CASE \E i \in Items : Upload(i)
  <2>1. PICK i \in Items : Upload(i)
    BY <1>3
  <2>2. UploadedOnce
    BY <1>2, <2>1 DEF UploadedOnce, Upload, TypeOK
  <2> QED
    BY <1>2, <2>1, <2>2, UploadKeepsOnce
<1>4. CASE \E w \in Workers : Stall(w)
  BY <1>2, <1>4 DEF Stall, TypeOK
<1>5. CASE \E w \in Workers : StartQueued(w) \/ StartPlan(w) \/ StartRedrive(w) \/ Advance(w)
              \/ HandlerFails(w) \/ PostCatches(w) \/ VerifyPromoteSome(w)
  <2>1. UNCHANGED <<uploads, stalls>>
    BY <1>5, WorkerBounds
  <2> QED
    BY <1>1, <1>2, <1>5, <2>1, WorkerKeepsOnce DEF UploadedOnce
<1>6. CASE (\E i \in Items : UploadRefused(i)) \/ VerifyTick \/ Network \/ UNCHANGED vars
  <2>1. UNCHANGED <<uploads, stalls>>
    BY <1>6 DEF UploadRefused, VerifyTick, Network, Mine, Confirm, Deepen, Expire, Reorg, SetChain,
       vars, boundVars
  <2> QED
    BY <1>2, <1>6, <2>1, OutsideKeepsOnce DEF UploadedOnce
<1> QED
  BY <1>3, <1>4, <1>5, <1>6 DEF Next, Fault

LEMMA InitOnce == Init => OnceInv
<1> SUFFICES ASSUME Init PROVE OnceInv
  OBVIOUS
<1>1. \A w \in Workers : run[w].job.kind = "plan" /\ ~At(w, "insert")
  BY IdleCarriesNothing DEF Init, At
<1> QED
  BY <1>1 DEF Init, OnceInv, Separate, OneItemTable, OneRowEach, ItemsOf, ExistingItems,
     CarriedOnce, CarriedIsNew, UnderWay, Waits, Inserts

\* As long as an item is uploaded once and no job runs beside itself, it is in one of
\* new_data_item, planned_data_item and permanent_data_items: the handlers' transactions move
\* its one row, and a second newDataItem run finds it, whatever fails and is tried again.
THEOREM OneItemTableAlways == Spec => [](UploadedOnce => OneItemTable)
<1>1. Init => TypeOK /\ (UploadedOnce => OnceInv)
  BY InitType, InitOnce
<1>2. TypeOK /\ (UploadedOnce => OnceInv) /\ [Next]_vars => (TypeOK /\ (UploadedOnce => OnceInv))'
  BY NextType, NextKeepsOnce
<1>3. (UploadedOnce => OnceInv) => (UploadedOnce => OneItemTable)
  BY DEF OnceInv, Separate
<1> QED
  BY <1>1, <1>2, <1>3, SpecSteps, PTL
=============================================================================
