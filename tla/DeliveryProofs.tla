--------------------------- MODULE DeliveryProofs ---------------------------
(***************************************************************************)
(* That what permanent_data_items says is on chain, and that BundlePipeline*)
(* keeps what Delivery promises: for all values of its constants, when the *)
(* reader pool does not lag.                                               *)
(***************************************************************************)
EXTENDS BundlePipelineProofs, BundlePromise

(***************************************************************************)
(* What permanent_data_items says is on chain.  A payload is written with  *)
(* all the items planned then, and a plan no longer grows when it has a    *)
(* prepare job: so what is planned for it stays within the payload that is *)
(* signed, and what a verify run promotes within the data on chain.        *)
(***************************************************************************)
Confirmed == {"final", "deep"}

Covered(w) ==
    /\ run[w].pc \in {"store", "sign"} => run[w].plan \in Plans
    /\ run[w].pc = "store" => ItemsOf(PlannedFor(run[w].plan)) \subseteq run[w].items
    /\ run[w].pc = "sign" => ItemsOf(PlannedFor(run[w].plan)) \subseteq payload[run[w].plan]
    /\ run[w].pc = "promote" => /\ run[w].items \subseteq content[run[w].bundle]
                                /\ chain[run[w].bundle] \in Confirmed

RowsCovered == \A t \in BundleTables : \A r \in bundles[t] :
                  ItemsOf(PlannedFor(r.plan)) \subseteq content[r.bundle]

OnChainInv == /\ StrandedInv /\ PermanentOnChain /\ RowsCovered
              /\ \A w \in Workers : Covered(w)
\* The steps at which the invariants say something, and how they are entered.
Covering == {"store", "sign", "promote", "repackRest", "finalize"}

Entered(v) ==
    \/ run'[v] = run[v]
    \/ run'[v].pc \notin Covering
    \/ \E j \in jobs : PrepareStart(v, j) /\ run'[v].pc = "store"
    \/ PrepareStore(v)
    \/ \E r \in run[v].todo : VerifyConfirmed(v, r)
    \/ /\ VerifyPromote(v) /\ run'[v].pc \in {"repackRest", "finalize"}
       /\ run'[v].bundle = run[v].bundle
    \/ \E batch : RepackHeld(v, batch)

LEMMA QueueStepPc ==
    ASSUME TypeOK, NEW w \in Workers,
           \/ Throw(w) \/ Finish(w) \/ NextRow(w) \/ GiveUp(w)
           \/ \E todo, stuck : GoOn(w, todo, stuck)
           \/ \E j : EnqueueLast(w, j)
           \/ \E pc \in Steps \ Covering : Goto(w, pc)
           \/ \E r : Sweep(w, r, "repack")
           \/ run[w].pc \notin Covering
              /\ \E batch : \E pc \in Steps \ Covering : NextBatch(w, batch, pc)
    PROVE  /\ run'[w].pc \notin Covering
           /\ \A v \in Workers \ {w} : run'[v] = run[v]
  <1>1. CASE Throw(w) \/ Finish(w) \/ \E j : EnqueueLast(w, j)
    BY <1>1, IdleFacts DEF Throw, Finish, EnqueueLast, TypeOK, Covering
  <1>2. CASE NextRow(w) \/ GiveUp(w) \/ \E todo, stuck : GoOn(w, todo, stuck)
    <2>1. Throw(w) \/ \E todo, stuck : GoOn(w, todo, stuck)
      BY <1>2 DEF NextRow, GiveUp
    <2>2. ASSUME NEW todo, NEW stuck, GoOn(w, todo, stuck), todo # {}
          PROVE  run'[w].pc \in {"count", "check"} /\ \A v \in Workers \ {w} : run'[v] = run[v]
      <3> DEFINE e == [Exec(run[w].job, IF IsRedrive(w) THEN "count" ELSE "check",
                            None, None, {}, todo) EXCEPT !.stuck = stuck]
      <3>1. run' = [run EXCEPT ![w] = e]
        BY <2>2 DEF GoOn
      <3>2. e.pc \in {"count", "check"}
        BY DEF Exec
      <3> HIDE DEF e
      <3> QED
        BY <3>1, <3>2 DEF TypeOK
    <2>3. ASSUME NEW todo, NEW stuck, GoOn(w, todo, stuck), todo = {}
          PROVE  Throw(w) \/ Finish(w)
      BY <2>3 DEF GoOn
    <2> QED
      BY <1>1, <2>1, <2>2, <2>3 DEF Covering
  <1>3. CASE \E pc \in Steps \ Covering : Goto(w, pc)
    BY <1>3 DEF Goto, TypeOK, Execution
  <1>4. CASE \E r : Sweep(w, r, "repack")
    <2>1. PICK r, S :
             run' = [run EXCEPT ![w] =
                [run[w] EXCEPT !.pc = "repack", !.plan = r.plan, !.bundle = r.bundle,
                               !.items = S, !.todo = run[w].todo \ {r}]]
      BY <1>4 DEF Sweep
    <2> QED
      BY <2>1 DEF TypeOK, Execution, Covering
  <1>5. CASE run[w].pc \notin Covering
             /\ \E batch : \E pc \in Steps \ Covering : NextBatch(w, batch, pc)
    BY <1>5, BatchStep
  <1> QED
    BY <1>1, <1>2, <1>3, <1>4, <1>5

LEMMA StartEntered ==
    ASSUME TypeOK, NEW w \in Workers,
           StartQueued(w) \/ StartPlan(w) \/ StartRedrive(w)
    PROVE  \A v \in Workers : Entered(v)
  <1>1. ASSUME NEW j \in jobs, NEW pc, NEW p, NEW b, NEW S, NEW T, pc \notin Covering,
               Take(w, j, Exec(j, pc, p, b, S, T))
        PROVE  \A v \in Workers : Entered(v)
    BY <1>1 DEF Take, Exec, TypeOK, Entered
  <1>2. ASSUME NEW j \in jobs, DropJob(w, j) \/ ThrowAtStart(w, j)
        PROVE  \A v \in Workers : Entered(v)
    BY <1>2, IdleFacts DEF DropJob, Take, ThrowAtStart, TypeOK, Entered, Covering
  <1>3. ASSUME NEW j \in jobs, IngestRead(w, j) \/ PostStart(w, j) \/ SeedStart(w, j)
                                  \/ VerifyStart(w, j)
        PROVE  \A v \in Workers : Entered(v)
    BY <1>1, <1>2, <1>3 DEF IngestRead, PostStart, SeedStart, VerifyStart, Covering
  <1>4. ASSUME NEW j \in jobs, PrepareStart(w, j)
        PROVE  \A v \in Workers : Entered(v)
    <2>1. CASE DropJob(w, j) \/ ThrowAtStart(w, j)
      BY <1>2, <2>1
    <2>2. ASSUME NEW S, Take(w, j, Exec(j, "store", j.plan, None, S, {}))
          PROVE  \A v \in Workers : Entered(v)
      BY <1>4, <2>2 DEF Take, Exec, TypeOK, Entered
    <2> QED
      BY <1>4, <2>1, <2>2 DEF PrepareStart
  <1>5. CASE StartPlan(w) \/ StartRedrive(w)
    BY <1>5 DEF StartPlan, StartRedrive, PlanStart, RedriveStart, Exec, TypeOK, Entered, Covering
  <1> QED
    BY <1>3, <1>4, <1>5 DEF StartQueued

LEMMA StepEntered ==
    ASSUME TypeOK, NEW w \in Workers, Advance(w) \/ Fault(w)
    PROVE  \A v \in Workers : Entered(v)
  <1>1. ASSUME run'[w].pc \notin Covering, \A v \in Workers \ {w} : run'[v] = run[v]
        PROVE  \A v \in Workers : Entered(v)
    BY <1>1 DEF Entered
  <1>2. CASE IngestInsert(w) \/ PlanFails(w) \/ PlanEnqueue(w) \/ PostEnqueue(w)
             \/ SeedEnqueue(w) \/ HandlerFails(w)
    BY <1>1, <1>2, QueueStepPc
    DEF IngestInsert, PlanFails, PlanEnqueue, PostEnqueue, SeedEnqueue, HandlerFails
  <1>3. ASSUME NEW batch, PlanMove(w, batch) \/ RepackHeld(w, batch) \/ RepackFails(w, batch)
        PROVE  \A v \in Workers : Entered(v)
    <2>1. CASE PlanMove(w, batch) \/ RepackFails(w, batch)
      BY <1>1, <2>1, QueueStepPc DEF PlanMove, RepackFails, At, Steps, Covering
    <2>2. CASE RepackHeld(w, batch)
      <3>1. \A v \in Workers \ {w} : run'[v] = run[v]
        BY <2>2, BatchStep DEF RepackHeld
      <3> QED
        BY <2>2, <3>1 DEF Entered
    <2> QED
      BY <1>3, <2>1, <2>2
  <1>4. CASE PostBroadcast(w) \/ PostStatusSeen(w) \/ PostRecord(w) \/ PostCatches(w)
             \/ SeedInsert(w) \/ Demote(w) \/ VerifyFinalize(w) \/ VerifyPromoteSome(w)
    BY <1>1, <1>4, QueueStepPc
    DEF PostBroadcast, PostStatusSeen, PostRecord, PostCatches, SeedInsert, Demote,
        VerifyFinalize, VerifyPromoteSome, Steps, Covering
  <1>5. CASE PostStatusNotSeen(w) \/ VerifyPromote(w)
    <2>1. CASE Throw(w) \/ NextRow(w)
      BY <1>1, <2>1, QueueStepPc
    <2>2. CASE PostStatusNotSeen(w) /\ ~Throw(w)
      <3>1. run'[w].pc = "repack" /\ \A v \in Workers \ {w} : run'[v] = run[v]
        BY <2>2 DEF PostStatusNotSeen, TypeOK, Execution
      <3> QED
        BY <1>1, <3>1 DEF Covering
    <2>3. CASE VerifyPromote(w) /\ ~NextRow(w)
      <3>1. /\ run'[w].pc \in {"repackRest", "finalize"} /\ run'[w].bundle = run[w].bundle
            /\ \A v \in Workers \ {w} : run'[v] = run[v]
        BY <2>3 DEF VerifyPromote, Goto, TypeOK, Execution
      <3> QED
        BY <2>3, <3>1 DEF Entered
    <2> QED
      BY <1>5, <2>1, <2>2, <2>3
  <1>6. CASE StepPrepare(w)
    <2>1. CASE PrepareStore(w)
      BY <2>1 DEF PrepareStore, Goto, TypeOK, Entered
    <2>2. CASE ~PrepareStore(w)
      BY <1>1, <1>6, <2>2, QueueStepPc
      DEF StepPrepare, PrepareLoses, PrepareEnqueue, PrepareMissing, PrepareSign, Steps, Covering
    <2> QED
      BY <2>1, <2>2
  <1>7. CASE StepSweep(w)
    <2>1. PICK r \in run[w].todo :
             VerifyDrop(w, r) \/ VerifyConfirmed(w, r) \/ VerifySkip(w, r)
                \/ RedriveSeed(w, r) \/ RedriveDemote(w, r)
      BY <1>7 DEF StepSweep
    <2>2. CASE VerifyDrop(w, r) \/ RedriveDemote(w, r) \/ VerifySkip(w, r)
      BY <1>1, <2>2, QueueStepPc DEF VerifyDrop, RedriveDemote, VerifySkip
    <2>3. CASE VerifyConfirmed(w, r)
      BY <2>3 DEF VerifyConfirmed, Sweep, TypeOK, Entered
    <2>4. CASE RedriveSeed(w, r)
      <3>1. run'[w].pc \in {"idle", "count"} /\ \A v \in Workers \ {w} : run'[v] = run[v]
        BY <2>4, IdleFacts DEF RedriveSeed, At, TypeOK, Execution
      <3> QED
        BY <1>1, <3>1 DEF Covering
    <2> QED
      BY <2>1, <2>2, <2>3, <2>4
  <1>8. CASE Stall(w)
    BY <1>8 DEF Stall, Entered
  <1> QED
    BY <1>2, <1>3, <1>4, <1>5, <1>6, <1>7, <1>8 DEF Advance, Fault

LEMMA NextEntered ==
    ASSUME TypeOK, [Next]_vars
    PROVE  \A v \in Workers : Entered(v)
  <1>1. CASE \/ \E i \in Items : Upload(i) \/ UploadRefused(i)
             \/ VerifyTick \/ Network \/ UNCHANGED vars
    BY <1>1 DEF Upload, UploadRefused, VerifyTick, Network, Mine, Confirm, Deepen,
                Expire, Reorg, SetChain, vars, Entered
  <1> QED
    BY <1>1, StartEntered, StepEntered DEF Next
(***************************************************************************)
(* What a step may do to the planned items of a plan that is prepared, to  *)
(* the bundle rows, the store, the network and the permanent rows.         *)
(***************************************************************************)
TableStep(w) ==
    \/ \E batch : PlanMove(w, batch) \/ RepackHeld(w, batch)
    \/ \E i \in Items : PrepareMissing(w, i)
    \/ \E b \in Bundles : PrepareSign(w, b)
    \/ PrepareStore(w) \/ PostBroadcast(w) \/ PostRecord(w) \/ SeedInsert(w)
    \/ Demote(w) \/ VerifyPromote(w) \/ VerifyPromoteSome(w) \/ VerifyFinalize(w)

Rest == <<planned, permanent, bundles, payload, content>>

LEMMA Framed ==
    ASSUME [Next]_vars
    PROVE  \/ UNCHANGED <<Rest, chain>>
           \/ Network /\ UNCHANGED Rest
           \/ \E w \in Workers : TableStep(w)
  <1>1. ASSUME NEW w \in Workers, StartQueued(w) \/ StartPlan(w) \/ StartRedrive(w)
        PROVE  UNCHANGED <<Rest, chain>>
    BY <1>1 DEF StartQueued, StartPlan, StartRedrive, IngestRead, PrepareStart, PostStart,
                SeedStart, VerifyStart, PlanStart, RedriveStart, Rest, itemVars,
                bundleVars, storeVars
  <1>2. ASSUME NEW w \in Workers, Advance(w) \/ Fault(w), ~TableStep(w)
        PROVE  UNCHANGED <<Rest, chain>>
    <2>1. CASE StepPrepare(w) \/ StepSweep(w) \/ Fault(w)
      BY <1>2, <2>1
      DEF TableStep, StepPrepare, PrepareLoses, PrepareEnqueue, StepSweep, VerifyDrop,
          VerifyConfirmed, VerifySkip, RedriveSeed, RedriveDemote, Fault, HandlerFails,
          Stall, PostCatches, Rest, itemVars, bundleVars, storeVars
    <2>2. CASE ~(StepPrepare(w) \/ StepSweep(w) \/ Fault(w))
      BY <1>2, <2>2
      DEF TableStep, Advance, IngestInsert, PlanFails, PlanEnqueue, RepackFails,
          PostStatusSeen, PostStatusNotSeen, PostEnqueue, SeedEnqueue, Rest, itemVars,
          bundleVars, storeVars
    <2> QED
      BY <2>1, <2>2
  <1>3. CASE Network
    BY <1>3 DEF Network, Mine, Confirm, Deepen, Expire, Reorg, SetChain, Rest, itemVars,
                bundleVars
  <1>4. CASE \/ \E i \in Items : Upload(i) \/ UploadRefused(i)
             \/ VerifyTick \/ UNCHANGED vars
    BY <1>4 DEF Upload, UploadRefused, VerifyTick, vars, Rest, itemVars, bundleVars,
                storeVars
  <1> QED
    BY <1>1, <1>2, <1>3, <1>4 DEF Next

LEMMA PlannedShrinks ==
    ASSUME StrandedInv, [Next]_vars, NEW p, Prepares(p) \/ \E b : HasRow(p, b)
    PROVE  \A r \in planned' : r.plan = p => r \in planned
  <1> USE DEF StrandedInv, BundleInv, Handled
  <1>1. ASSUME NEW w \in Workers, NEW batch, PlanMove(w, batch)
        PROVE  \A r \in planned' : r.plan = p => r \in planned
    <2>1. run[w].pc \in Moving /\ \A r \in planned' : r \in planned \/ r.plan = run[w].plan
      BY <1>1 DEF PlanMove, At, Moving
    <2>2. run[w].plan \in bundlePlan /\ ~Prepares(run[w].plan)
      BY <2>1 DEF PlansGrowAlone
    <2>3. p # run[w].plan
      BY <2>2 DEF OneBundleTable, HasRow, KnownIn, RowsIn
    <2> QED
      BY <2>1, <2>3
  <1>2. ASSUME NEW w \in Workers, TableStep(w), ~\E batch : PlanMove(w, batch)
        PROVE  planned' \subseteq planned
    BY <1>2 DEF TableStep, RepackHeld, Repack, PrepareMissing, PrepareSign, PrepareStore,
                PostBroadcast, PostRecord, SeedInsert, Demote, VerifyPromote,
                VerifyPromoteSome, Promote, VerifyFinalize, itemVars
  <1> QED
    BY <1>1, <1>2, Framed DEF Rest

\* A transaction's data is fixed when it is signed; a confirmed one stays so.
LEMMA SignedStays ==
    ASSUME TypeOK, [Next]_vars, NEW b \in Bundles, chain[b] # "none"
    PROVE  /\ content'[b] = content[b]
           /\ chain[b] \in Confirmed => chain'[b] \in Confirmed
  <1>1. ASSUME NEW w \in Workers, NEW c \in Bundles, PrepareSign(w, c)
        PROVE  content'[b] = content[b] /\ chain'[b] = chain[b]
    BY <1>1 DEF PrepareSign, TypeOK
  <1>2. ASSUME NEW w \in Workers, PostBroadcast(w)
        PROVE  content'[b] = content[b] /\ (chain[b] \in Confirmed => chain'[b] = chain[b])
    BY <1>2 DEF PostBroadcast, TypeOK, Confirmed
  <1>3. ASSUME NEW w \in Workers, TableStep(w), ~PostBroadcast(w),
               ~\E c \in Bundles : PrepareSign(w, c)
        PROVE  UNCHANGED <<content, chain>>
    BY <1>3 DEF TableStep, PlanMove, RepackHeld, PrepareMissing, PrepareStore, PostRecord,
                SeedInsert, Demote, VerifyPromote, VerifyPromoteSome, VerifyFinalize,
                storeVars
  <1>4. CASE Network /\ UNCHANGED Rest
    <2>1. PICK c \in Bundles : Mine(c) \/ Confirm(c) \/ Deepen(c) \/ Expire(c) \/ Reorg(c)
      BY <1>4 DEF Network
    <2>2. chain[b] \in Confirmed => chain'[b] \in Confirmed
      BY <2>1 DEF Mine, Confirm, Deepen, Expire, Reorg, SetChain, TypeOK, Confirmed
    <2> QED
      BY <1>4, <2>2 DEF Rest
  <1> QED
    BY <1>1, <1>2, <1>3, <1>4, Framed DEF Rest

LEMMA PayloadStep ==
    ASSUME [Next]_vars
    PROVE  payload' = payload \/ \E w \in Workers : PrepareStore(w)
  <1>1. ASSUME NEW w \in Workers, TableStep(w), ~PrepareStore(w)
        PROVE  payload' = payload
    BY <1>1 DEF TableStep, PlanMove, RepackHeld, PrepareMissing, PrepareSign, PostBroadcast,
                PostRecord, SeedInsert, Demote, VerifyPromote, VerifyPromoteSome,
                VerifyFinalize, storeVars
  <1> QED
    BY <1>1, Framed DEF Rest

\* A bundle row is new only when a transaction is signed.
OldRow(r) == \E t \in BundleTables : r \in bundles[t]
SignedRow(r) == \E w \in Workers, b \in Bundles :
                   PrepareSign(w, b) /\ r = [plan |-> run[w].plan, bundle |-> b]

LEMMA RowStep ==
    ASSUME TypeOK, [Next]_vars, NEW t \in BundleTables, NEW r \in bundles'[t]
    PROVE  OldRow(r) \/ SignedRow(r)
  <1>0. {"new", "posted", "seeded", "permanent", "failed"} = BundleTables
    BY DEF BundleTables
  <1>1. ASSUME NEW w \in Workers, NEW from \in BundleTables, NEW to \in BundleTables,
               NEW rows \in SUBSET bundles[from], MoveRows(rows, from, to)
        PROVE  OldRow(r)
    BY <1>1 DEF MoveRows, TypeOK, OldRow
  <1>2. ASSUME NEW w \in Workers, PostRecord(w) \/ SeedInsert(w) \/ VerifyFinalize(w)
        PROVE  OldRow(r)
    BY <1>0, <1>1, <1>2 DEF PostRecord, SeedInsert, VerifyFinalize, RowsIn
  <1>3. ASSUME NEW w \in Workers, Demote(w)
        PROVE  OldRow(r)
    <2> DEFINE from == CASE run[w].job.kind = "post" -> "new"
                         [] IsRedrive(w) -> "posted"
                         [] OTHER -> "seeded"
               rows == IF from = "seeded" THEN RowsIn("seeded", run[w].plan)
                       ELSE {q \in bundles[from] : q.bundle = run[w].bundle}
    <2>1. from \in BundleTables /\ rows \in SUBSET bundles[from]
      BY DEF BundleTables, IsRedrive, RowsIn
    <2>2. MoveRows(rows, from, "failed")
      BY <1>3 DEF Demote
    <2> HIDE DEF from, rows
    <2> QED
      BY <1>0, <1>1, <2>1, <2>2
  <1>4. ASSUME NEW w \in Workers, NEW b \in Bundles, PrepareSign(w, b)
        PROVE  OldRow(r) \/ SignedRow(r)
    <2>1. r \in bundles[t] \/ r = [plan |-> run[w].plan, bundle |-> b]
      BY <1>4 DEF PrepareSign, TypeOK
    <2> QED
      BY <1>4, <2>1 DEF OldRow, SignedRow
  <1>5. CASE bundles' = bundles
    BY <1>5 DEF OldRow
  <1>6. ASSUME NEW w \in Workers, TableStep(w),
               ~(PostRecord(w) \/ SeedInsert(w) \/ VerifyFinalize(w) \/ Demote(w)),
               ~\E b \in Bundles : PrepareSign(w, b)
        PROVE  bundles' = bundles
    BY <1>6 DEF TableStep, PlanMove, RepackHeld, PrepareMissing, PrepareStore,
                PostBroadcast, VerifyPromote, VerifyPromoteSome, bundleVars
  <1> QED
    BY <1>2, <1>3, <1>4, <1>5, <1>6, Framed DEF Rest

\* A permanent row is new only when a verify run promotes an item it holds.
LEMMA PermanentStep ==
    ASSUME [Next]_vars, NEW r \in permanent', r \notin permanent
    PROVE  \E w \in Workers : /\ run[w].pc = "promote" /\ r.bundle = run[w].bundle
                              /\ r.item \in run[w].items
  <1>1. ASSUME NEW w \in Workers, VerifyPromote(w) \/ VerifyPromoteSome(w)
        PROVE  /\ run[w].pc = "promote" /\ r.bundle = run[w].bundle
               /\ r.item \in run[w].items
    <2>1. PICK rows \in SUBSET RowsToPromote(w) : Promote(rows, run[w].bundle)
      BY <1>1 DEF VerifyPromote, VerifyPromoteSome
    <2>2. PICK q \in rows : r = PermanentRowOf(q, run[w].bundle)
      BY <2>1 DEF Promote
    <2>3. r.bundle = run[w].bundle /\ r.item = q.item
      BY <2>2 DEF PermanentRowOf
    <2>4. q.item \in run[w].items
      BY <2>1 DEF RowsToPromote, InHeader
    <2> QED
      BY <1>1, <2>3, <2>4 DEF VerifyPromote, VerifyPromoteSome, At
  <1>2. ASSUME NEW w \in Workers, TableStep(w), ~(VerifyPromote(w) \/ VerifyPromoteSome(w))
        PROVE  permanent' = permanent
    BY <1>2 DEF TableStep, PlanMove, RepackHeld, Repack, PrepareMissing, PrepareSign,
                PrepareStore, PostBroadcast, PostRecord, SeedInsert, Demote,
                VerifyFinalize, itemVars
  <1> QED
    BY <1>1, <1>2, Framed DEF Rest

(***************************************************************************)
(* The invariant, part by part.                                            *)
(***************************************************************************)
LEMMA PermanentKept ==
    ASSUME OnChainInv, [Next]_vars
    PROVE  PermanentOnChain'
  <1> SUFFICES ASSUME NEW r \in permanent'
               PROVE  r.item \in content'[r.bundle] /\ chain'[r.bundle] \in Confirmed
    BY DEF PermanentOnChain, Confirmed
  <1>1. TypeOK /\ TypeOK'
    BY NextType DEF OnChainInv, StrandedInv, BundleInv
  <1>2. r.item \in content[r.bundle] /\ chain[r.bundle] \in Confirmed
    <2>1. CASE r \in permanent
      BY <2>1 DEF OnChainInv, PermanentOnChain, Confirmed
    <2>2. CASE r \notin permanent
      BY <2>2, PermanentStep DEF OnChainInv, Covered
    <2> QED
      BY <2>1, <2>2
  <1>3. r.bundle \in Bundles
    BY <1>1 DEF TypeOK, PermanentRow
  <1> QED
    BY <1>1, <1>2, <1>3, SignedStays DEF Confirmed

LEMMA RowsKept ==
    ASSUME OnChainInv, [Next]_vars
    PROVE  RowsCovered'
  <1> USE DEF OnChainInv, StrandedInv, BundleInv, Handled
  <1> SUFFICES ASSUME NEW t \in BundleTables, NEW r \in bundles'[t]
               PROVE  \A q \in planned' : q.plan = r.plan => q.item \in content'[r.bundle]
    BY DEF RowsCovered, ItemsOf, PlannedFor
  <1>1. OldRow(r) \/ SignedRow(r)
    BY RowStep
  <1>2. CASE OldRow(r)
    <2>1. PICK u \in BundleTables : r \in bundles[u]
      BY <1>2 DEF OldRow
    <2>2. HasRow(r.plan, r.bundle) /\ r.bundle \in Bundles /\ chain[r.bundle] # "none"
      BY <2>1 DEF HasRow, RowsAreKnown, TypeOK, BundleRow
    <2>3. \A q \in planned : q.plan = r.plan => q.item \in content[r.bundle]
      BY <2>1 DEF RowsCovered, ItemsOf, PlannedFor
    <2>4. content'[r.bundle] = content[r.bundle]
      BY <2>2, SignedStays
    <2>5. \A q \in planned' : q.plan = r.plan => q \in planned
      BY <2>2, PlannedShrinks
    <2> QED
      BY <2>3, <2>4, <2>5
  <1>3. CASE SignedRow(r)
    <2>1. PICK w \in Workers, b \in Bundles :
             PrepareSign(w, b) /\ r = [plan |-> run[w].plan, bundle |-> b]
      BY <1>3 DEF SignedRow
    <2>2. r.plan = run[w].plan /\ r.bundle = b
      BY <2>1
    <2>3. run[w].pc = "sign" /\ content'[b] = payload[run[w].plan] /\ planned' = planned
      BY <2>1 DEF PrepareSign, At, TypeOK, itemVars
    <2>4. \A q \in planned : q.plan = run[w].plan => q.item \in payload[run[w].plan]
      BY <2>3 DEF Covered, ItemsOf, PlannedFor
    <2> QED
      BY <2>2, <2>3, <2>4
  <1> QED
    BY <1>1, <1>2, <1>3
\* An execution that stays at its step.
LEMMA StayCovered ==
    ASSUME OnChainInv, [Next]_vars, NEW v \in Workers, run'[v] = run[v]
    PROVE  Covered(v)'
  <1> USE DEF OnChainInv, StrandedInv, BundleInv, Handled
  <1> DEFINE p == run[v].plan
             b == run[v].bundle
  <1>1. CASE run[v].pc \in {"store", "sign"}
    <2>1. p \in Plans /\ Prepares(p)
      BY <1>1 DEF Covered, PlansGrowAlone, Prepares
    <2>2. \A r \in planned' : r.plan = p => r \in planned
      BY <2>1, PlannedShrinks
    <2>3. CASE run[v].pc = "store"
      <3>1. \A r \in planned' : r.plan = p => r.item \in run[v].items
        BY <2>2, <2>3 DEF Covered, ItemsOf, PlannedFor
      <3> QED
        BY <2>1, <2>3, <3>1 DEF Covered, ItemsOf, PlannedFor
    <2>4. CASE run[v].pc = "sign"
      <3>1. \A r \in planned : r.plan = p => r.item \in payload[p]
        BY <2>4 DEF Covered, ItemsOf, PlannedFor
      <3>2. CASE payload'[p] = payload[p]
        BY <2>1, <2>2, <2>4, <3>1, <3>2 DEF Covered, ItemsOf, PlannedFor
      <3>3. ASSUME NEW w \in Workers, PrepareStore(w), payload'[p] # payload[p]
            PROVE  Covered(v)'
        <4>1. run[w].pc = "store" /\ run[w].plan = p /\ payload'[p] = run[w].items
          BY <2>1, <3>3 DEF PrepareStore, At, TypeOK
        <4>2. \A r \in planned : r.plan = p => r.item \in payload'[p]
          BY <4>1 DEF Covered, ItemsOf, PlannedFor
        <4> QED
          BY <2>1, <2>2, <2>4, <4>2 DEF Covered, ItemsOf, PlannedFor
      <3> QED
        BY <3>2, <3>3, PayloadStep
    <2> QED
      BY <1>1, <2>3, <2>4
  <1>2. CASE run[v].pc = "promote"
    <2>1. run[v].items \subseteq content[b] /\ chain[b] \in Confirmed
      BY <1>2 DEF Covered
    <2>2. b \in Bundles /\ chain[b] # "none"
      BY <1>2, <2>1 DEF TypeOK, Execution, Confirmed
    <2> QED
      BY <1>2, <2>1, <2>2, SignedStays DEF Covered
  <1> QED
    BY <1>1, <1>2 DEF Covered

LEMMA EnterCovered ==
    ASSUME ~ReplicaLag, OnChainInv, NEW v \in Workers,
           \/ \E j \in jobs : PrepareStart(v, j) /\ run'[v].pc = "store"
           \/ PrepareStore(v)
           \/ \E r \in run[v].todo : VerifyConfirmed(v, r)
    PROVE  Covered(v)'
  <1> USE DEF OnChainInv, StrandedInv, BundleInv, Handled
  <1>1. ASSUME NEW j \in jobs, PrepareStart(v, j), run'[v].pc = "store"
        PROVE  Covered(v)'
    <2>1. PICK S \in ReadPlanned(j.plan) :
             Take(v, j, Exec(j, "store", j.plan, None, S, {})) /\ j.plan \in bundlePlan
      BY <1>1, IdleFacts DEF PrepareStart, DropJob, Take, ThrowAtStart, TypeOK
    <2>2. /\ run'[v].pc = "store" /\ run'[v].plan = j.plan /\ run'[v].items = S
          /\ planned' = planned /\ j.plan \in Plans
      BY <1>1, <2>1 DEF PrepareStart, Take, Exec, TypeOK, itemVars
    <2>3. S = ItemsOf(PlannedFor(j.plan))
      BY DEF ReadPlanned
    <2> QED
      BY <2>2, <2>3 DEF Covered, ItemsOf, PlannedFor
  <1>2. CASE PrepareStore(v)
    <2>1. /\ run[v].pc = "store" /\ run'[v].pc = "sign" /\ run'[v].plan = run[v].plan
          /\ run[v].plan \in Plans /\ planned' = planned
          /\ payload'[run[v].plan] = run[v].items
      BY <1>2 DEF PrepareStore, Goto, At, TypeOK, Execution, itemVars, Covered
    <2>2. \A r \in planned : r.plan = run[v].plan => r.item \in run[v].items
      BY <2>1 DEF Covered, ItemsOf, PlannedFor
    <2> QED
      BY <2>1, <2>2 DEF Covered, ItemsOf, PlannedFor
  <1>3. ASSUME NEW r \in run[v].todo, VerifyConfirmed(v, r)
        PROVE  Covered(v)'
    <2>1. PICK S \in ReadPlanned(r.plan) :
             run' = [run EXCEPT ![v] =
                [run[v] EXCEPT !.pc = "promote", !.plan = r.plan, !.bundle = r.bundle,
                               !.items = S, !.todo = run[v].todo \ {r}]]
      BY <1>3 DEF VerifyConfirmed, Sweep
    <2>2. run'[v].pc = "promote" /\ run'[v].bundle = r.bundle /\ run'[v].items = S
      BY <2>1 DEF TypeOK, Execution
    <2>3. /\ content' = content /\ chain' = chain /\ chain[r.bundle] \in Confirmed
      BY <1>3 DEF VerifyConfirmed, storeVars, Confirmed
    <2>4. PICK t \in BundleTables : \E q \in bundles[t] : q.plan = r.plan /\ q.bundle = r.bundle
      BY DEF Informed, HasRow
    <2>5. S \subseteq content[r.bundle]
      BY <2>4 DEF RowsCovered, ReadPlanned
    <2> QED
      BY <2>2, <2>3, <2>5 DEF Covered
  <1> QED
    BY <1>1, <1>2, <1>3

LEMMA PastCovered ==
    ASSUME TypeOK, NEW v \in Workers,
           \/ run'[v].pc \notin Covering
           \/ run'[v].pc \in {"repackRest", "finalize"}
           \/ \E batch : RepackHeld(v, batch)
    PROVE  Covered(v)'
  <1>1. ASSUME NEW batch, RepackHeld(v, batch)
        PROVE  run'[v].pc \in {"repack", "demote", "repackRest", "finalize"}
    <2>1. NextBatch(v, batch, IF At(v, "repack") THEN "demote" ELSE "finalize")
          /\ run[v].pc \in {"repack", "repackRest"}
      BY <1>1 DEF RepackHeld, At
    <2> QED
      BY <2>1, BatchStep
  <1> QED
    BY <1>1 DEF Covering, Covered

LEMMA NextOnChain ==
    ASSUME ~ReplicaLag
    PROVE  OnChainInv /\ [Next]_vars => OnChainInv'
  <1> SUFFICES ASSUME OnChainInv, [Next]_vars PROVE OnChainInv'
    OBVIOUS
  <1>1. StrandedInv'
    BY NextHandled DEF OnChainInv
  <1>2. PermanentOnChain' /\ RowsCovered'
    BY PermanentKept, RowsKept
  <1>3. ASSUME NEW v \in Workers PROVE Covered(v)'
    <2>1. Entered(v)
      BY NextEntered DEF OnChainInv, StrandedInv, BundleInv
    <2>2. TypeOK
      BY DEF OnChainInv, StrandedInv, BundleInv
    <2> QED
      BY <2>1, <2>2, StayCovered, EnterCovered, PastCovered DEF Entered
  <1> QED
    BY <1>1, <1>2, <1>3 DEF OnChainInv

LEMMA InitOnChain == Init => OnChainInv
  <1> SUFFICES ASSUME Init PROVE OnChainInv
    OBVIOUS
  <1>1. \A w \in Workers : Covered(w)
    BY IdleFacts DEF Init, Covered
  <1> QED
    BY <1>1, InitHandled DEF Init, OnChainInv, PermanentOnChain, RowsCovered, BundleTables

\* When the reader pool does not lag, what permanent_data_items says is so on
\* chain: the item is in the data the bundle's transaction was signed over and
\* that transaction is confirmed, although payloads are written again by
\* redelivered prepare jobs and promotion looks only at the stored payload.
THEOREM PermanentIsOnChain ==
    ASSUME ~ReplicaLag
    PROVE  Spec => []PermanentOnChain
  <1>1. Init => OnChainInv
    BY InitOnChain
  <1>2. OnChainInv /\ [Next]_vars => OnChainInv'
    BY NextOnChain
  <1>3. OnChainInv => PermanentOnChain
    BY DEF OnChainInv
  <1> QED
    BY <1>1, <1>2, <1>3, SpecSteps, PTL
(***************************************************************************)
(* Only accepted items go through the tables: a newDataItem job is handed  *)
(* on from one that an upload enqueued.                                    *)
(***************************************************************************)
Carried(i) ==
    \/ \E j \in jobs : j.kind = "newItem" /\ j.item = i
    \/ \E v \in Workers : run[v].job.kind = "newItem" /\ run[v].job.item = i
Handed(j) == j.kind # "newItem" \/ Carried(j.item)
JobsHanded == /\ \A j \in jobs' : Handed(j)
              /\ \A v \in Workers : Handed(run'[v].job)

LEMMA HandedOn ==
    ASSUME TypeOK, NEW w \in Workers, \A j \in jobs' : j \in jobs \/ Handed(j),
           Handed(run'[w].job), \A v \in Workers \ {w} : run'[v] = run[v]
    PROVE  JobsHanded
  BY DEF JobsHanded, Handed, Carried

LEMMA QueueStepJobs ==
    ASSUME TypeOK, NEW w \in Workers,
           \/ Throw(w) \/ Finish(w) \/ NextRow(w) \/ GiveUp(w)
           \/ \E todo, stuck : GoOn(w, todo, stuck)
           \/ \E j : EnqueueLast(w, j) /\ (j = run[w].job \/ j.kind # "newItem")
           \/ \E pc : Goto(w, pc)
           \/ \E r, pc : Sweep(w, r, pc)
           \/ \E batch, pc : NextBatch(w, batch, pc)
    PROVE  JobsHanded
  <1>0. run[w].job \in Job /\ Handed(run[w].job)
    BY DEF TypeOK, Execution, Handed, Carried
  <1>1. ASSUME NEW e, run' = [run EXCEPT ![w] = e], e = Idle \/ e.job = run[w].job,
               \A j \in jobs' : j \in jobs \/ Handed(j)
        PROVE  JobsHanded
    <2>1. run'[w] = e /\ \A v \in Workers \ {w} : run'[v] = run[v]
      BY <1>1 DEF TypeOK
    <2>2. Handed(e.job)
      BY <1>0, <1>1, IdleFacts DEF Handed
    <2> QED
      BY <1>1, <2>1, <2>2, HandedOn
  <1>2. CASE Throw(w) \/ Finish(w)
    <2>1. \A a \in Again(run[w].job) : Handed(a)
      BY <1>0, AgainType DEF Handed
    <2> QED
      BY <1>1, <1>2, <2>1 DEF Throw, Finish, queueVars
  <1>3. CASE \E j : EnqueueLast(w, j) /\ (j = run[w].job \/ j.kind # "newItem")
    BY <1>0, <1>1, <1>3 DEF EnqueueLast, Handed
  <1>4. CASE NextRow(w) \/ GiveUp(w) \/ \E todo, stuck : GoOn(w, todo, stuck)
    <2>1. Throw(w) \/ \E todo, stuck : GoOn(w, todo, stuck)
      BY <1>4 DEF NextRow, GiveUp
    <2>2. ASSUME NEW todo, NEW stuck, GoOn(w, todo, stuck), todo # {}
          PROVE  JobsHanded
      <3> DEFINE e == [Exec(run[w].job, IF IsRedrive(w) THEN "count" ELSE "check",
                            None, None, {}, todo) EXCEPT !.stuck = stuck]
      <3>1. run' = [run EXCEPT ![w] = e] /\ jobs' = jobs
        BY <2>2 DEF GoOn, queueVars
      <3>2. e.job = run[w].job
        BY DEF Exec
      <3> HIDE DEF e
      <3> QED
        BY <1>1, <3>1, <3>2
    <2>3. ASSUME NEW todo, NEW stuck, GoOn(w, todo, stuck), todo = {}
          PROVE  Throw(w) \/ Finish(w)
      BY <2>3 DEF GoOn
    <2> QED
      BY <1>2, <2>1, <2>2, <2>3
  <1>5. CASE \/ \E pc : Goto(w, pc)
             \/ \E r, pc : Sweep(w, r, pc)
             \/ \E batch, pc : NextBatch(w, batch, pc)
    <2>1. jobs' = jobs /\ run'[w].job = run[w].job
          /\ \A v \in Workers \ {w} : run'[v] = run[v]
      <3>1. CASE \E r, pc : Sweep(w, r, pc)
        <4>1. PICK r, pc, S :
                 run' = [run EXCEPT ![w] =
                    [run[w] EXCEPT !.pc = pc, !.plan = r.plan, !.bundle = r.bundle,
                                   !.items = S, !.todo = run[w].todo \ {r}]]
          BY <3>1 DEF Sweep
        <4>2. jobs' = jobs
          BY <3>1 DEF Sweep, queueVars
        <4> QED
          BY <4>1, <4>2 DEF TypeOK, Execution
      <3>2. CASE \E pc : Goto(w, pc)
        BY <3>2 DEF Goto, queueVars, TypeOK, Execution
      <3>3. CASE \E batch, pc : NextBatch(w, batch, pc)
        BY <3>3, BatchStep
      <3> QED
        BY <1>5, <3>1, <3>2, <3>3
    <2> QED
      BY <1>0, <2>1, HandedOn
  <1> QED
    BY <1>2, <1>3, <1>4, <1>5

LEMMA StartJobs ==
    ASSUME TypeOK, NEW w \in Workers,
           StartQueued(w) \/ StartPlan(w) \/ StartRedrive(w)
    PROVE  JobsHanded
  <1>1. ASSUME NEW j \in jobs, NEW e, e = Idle \/ e.job = j, Take(w, j, e)
        PROVE  JobsHanded
    <2>1. jobs' \subseteq jobs /\ run'[w] = e /\ \A v \in Workers \ {w} : run'[v] = run[v]
      BY <1>1 DEF Take, TypeOK
    <2>2. Handed(e.job)
      BY <1>1, IdleFacts DEF Handed, Carried
    <2> QED
      BY <2>1, <2>2, HandedOn
  <1>2. ASSUME NEW j \in jobs, ThrowAtStart(w, j)
        PROVE  JobsHanded
    <2>1. \A a \in Again(j) : Handed(a)
      BY AgainType DEF TypeOK, Handed, Carried
    <2>2. Handed(run'[w].job)
      BY <1>2 DEF ThrowAtStart, Handed, Carried
    <2> QED
      BY <1>2, <2>1, <2>2, HandedOn DEF ThrowAtStart
  <1>3. ASSUME NEW j \in jobs,
               \/ IngestRead(w, j) \/ PrepareStart(w, j) \/ PostStart(w, j)
               \/ SeedStart(w, j) \/ VerifyStart(w, j)
        PROVE  ThrowAtStart(w, j) \/ \E e : Take(w, j, e) /\ (e = Idle \/ e.job = j)
    <2>1. \A pc, p, b, S, T : Exec(j, pc, p, b, S, T).job = j
      BY DEF Exec
    <2> QED
      BY <1>3, <2>1 DEF IngestRead, PrepareStart, PostStart, SeedStart, VerifyStart, DropJob
  <1>4. CASE StartPlan(w) \/ StartRedrive(w)
    <2>1. /\ jobs' = jobs /\ run'[w].job.kind \in {"plan", "redrive"}
          /\ \A v \in Workers \ {w} : run'[v] = run[v]
      BY <1>4 DEF StartPlan, StartRedrive, PlanStart, RedriveStart, Exec, JobFor, TypeOK,
                  queueVars
    <2> QED
      BY <2>1, HandedOn DEF Handed
  <1> QED
    BY <1>1, <1>2, <1>3, <1>4 DEF StartQueued

LEMMA StepJobs ==
    ASSUME TypeOK, NEW w \in Workers, Advance(w) \/ Fault(w)
    PROVE  JobsHanded
  <1>1. CASE IngestInsert(w) \/ PlanFails(w) \/ PlanEnqueue(w) \/ PostEnqueue(w)
             \/ SeedEnqueue(w) \/ HandlerFails(w)
    BY <1>1, QueueStepJobs DEF IngestInsert, PlanFails, PlanEnqueue, PostEnqueue,
           SeedEnqueue, HandlerFails, JobFor
  <1>2. CASE \E batch : PlanMove(w, batch) \/ RepackHeld(w, batch) \/ RepackFails(w, batch)
    BY <1>2, QueueStepJobs DEF PlanMove, RepackHeld, RepackFails
  <1>3. CASE PostBroadcast(w) \/ PostStatusSeen(w) \/ PostRecord(w) \/ PostCatches(w)
             \/ SeedInsert(w) \/ Demote(w) \/ VerifyFinalize(w) \/ VerifyPromoteSome(w)
    BY <1>3, QueueStepJobs DEF PostBroadcast, PostStatusSeen, PostRecord, PostCatches,
           SeedInsert, Demote, VerifyFinalize, VerifyPromoteSome
  <1>4. CASE PostStatusNotSeen(w) \/ VerifyPromote(w)
    <2>1. CASE Throw(w) \/ NextRow(w) \/ Goto(w, "finalize")
      BY <2>1, QueueStepJobs
    <2>2. CASE ~(Throw(w) \/ NextRow(w) \/ Goto(w, "finalize"))
      <3>1. jobs' = jobs /\ run'[w].job = run[w].job
            /\ \A v \in Workers \ {w} : run'[v] = run[v]
        BY <1>4, <2>2 DEF PostStatusNotSeen, VerifyPromote, TypeOK, Execution, queueVars
      <3> QED
        BY <3>1, HandedOn DEF Handed, Carried
    <2> QED
      BY <2>1, <2>2
  <1>5. CASE StepPrepare(w)
    BY <1>5, QueueStepJobs
    DEF StepPrepare, PrepareStore, PrepareLoses, PrepareEnqueue, PrepareMissing,
        PrepareSign, JobFor
  <1>6. CASE StepSweep(w)
    <2>1. PICK r \in run[w].todo :
             VerifyDrop(w, r) \/ VerifyConfirmed(w, r) \/ VerifySkip(w, r)
                \/ RedriveSeed(w, r) \/ RedriveDemote(w, r)
      BY <1>6 DEF StepSweep
    <2>2. CASE VerifyDrop(w, r) \/ VerifyConfirmed(w, r) \/ RedriveDemote(w, r)
               \/ VerifySkip(w, r)
      BY <2>2, QueueStepJobs DEF VerifyDrop, VerifyConfirmed, RedriveDemote, VerifySkip
    <2>3. CASE RedriveSeed(w, r)
      <3>1. /\ jobs' \subseteq jobs \cup {JobFor("seed", r.plan)}
            /\ run'[w] = Idle \/ run'[w].job = run[w].job
            /\ \A v \in Workers \ {w} : run'[v] = run[v]
        BY <2>3 DEF RedriveSeed, TypeOK, Execution
      <3>2. Handed(JobFor("seed", r.plan))
        BY DEF Handed, JobFor
      <3>3. Handed(run'[w].job)
        BY <3>1, IdleFacts DEF Handed, Carried
      <3> QED
        BY <3>1, <3>2, <3>3, HandedOn
    <2> QED
      BY <2>1, <2>2, <2>3
  <1>7. CASE Stall(w)
    <2>1. jobs' = jobs \cup {run[w].job} /\ run' = run
      BY <1>7 DEF Stall
    <2>2. Handed(run[w].job)
      BY DEF Handed, Carried
    <2> QED
      BY <2>1, <2>2, HandedOn
  <1> QED
    BY <1>1, <1>2, <1>3, <1>4, <1>5, <1>6, <1>7 DEF Advance, Fault

LEMMA NextJobs ==
    ASSUME TypeOK, [Next]_vars, NEW i, Carried(i)'
    PROVE  Carried(i) \/ (i \in Items /\ Upload(i))
  <1>1. ASSUME JobsHanded PROVE Carried(i)
    BY <1>1 DEF JobsHanded, Handed, Carried
  <1>2. ASSUME NEW k \in Items, Upload(k) PROVE Carried(i) \/ (i \in Items /\ Upload(i))
    <2> DEFINE j == NewItemJob(k, uploads[k] + 1)
    <2>1. jobs' = jobs \cup {j} /\ run' = run /\ j.item = k
      BY <1>2 DEF Upload, NewItemJob
    <2> HIDE DEF j
    <2>2. Carried(i) \/ i = k
      BY <2>1 DEF Carried
    <2> QED
      BY <1>2, <2>2
  <1>3. CASE VerifyTick
    <2>1. jobs' = jobs \cup {JobFor("verify", None)} /\ run' = run
      BY <1>3 DEF VerifyTick
    <2> QED
      BY <2>1 DEF Carried, JobFor
  <1>4. CASE (\E k \in Items : UploadRefused(k)) \/ Network \/ UNCHANGED vars
    <2>1. jobs' = jobs /\ run' = run
      BY <1>4 DEF UploadRefused, Network, Mine, Confirm, Deepen, Expire, Reorg, SetChain,
                  vars, queueVars
    <2> QED
      BY <2>1 DEF Carried
  <1> QED
    BY <1>1, <1>2, <1>3, <1>4, StartJobs, StepJobs DEF Next

(***************************************************************************)
(* An item in the tables was in a newDataItem job before.                  *)
(***************************************************************************)
ItemStep(w) ==
    \/ IngestInsert(w) \/ \E j \in jobs : IngestRead(w, j)
    \/ \E batch : PlanMove(w, batch) \/ RepackHeld(w, batch)
    \/ \E i \in Items : PrepareMissing(w, i)
    \/ VerifyPromote(w) \/ VerifyPromoteSome(w)

LEMMA ItemsFramed ==
    ASSUME [Next]_vars
    PROVE  \/ UNCHANGED <<itemVars, uploads>>
           \/ \E i \in Items : Upload(i) \/ UploadRefused(i)
           \/ \E w \in Workers : ItemStep(w)
  <1>1. ASSUME NEW w \in Workers, StartQueued(w) \/ StartPlan(w) \/ StartRedrive(w),
               ~ItemStep(w)
        PROVE  UNCHANGED <<itemVars, uploads>>
    BY <1>1 DEF ItemStep, StartQueued, StartPlan, StartRedrive, PrepareStart, PostStart,
                SeedStart, VerifyStart, PlanStart, RedriveStart, itemVars, boundVars
  <1>2. ASSUME NEW w \in Workers, StepPrepare(w) \/ StepSweep(w) \/ Fault(w), ~ItemStep(w)
        PROVE  UNCHANGED <<itemVars, uploads>>
    BY <1>2 DEF ItemStep, StepPrepare, PrepareStore, PrepareLoses, PrepareEnqueue,
                PrepareSign, StepSweep, VerifyDrop, VerifyConfirmed, VerifySkip,
                RedriveSeed, RedriveDemote, Fault, HandlerFails, Stall, PostCatches,
                itemVars, boundVars
  <1>3. ASSUME NEW w \in Workers, Advance(w), ~(StepPrepare(w) \/ StepSweep(w)), ~ItemStep(w)
        PROVE  UNCHANGED <<itemVars, uploads>>
    BY <1>3 DEF ItemStep, Advance, PlanFails, PlanEnqueue, RepackFails, PostBroadcast,
                PostStatusSeen, PostStatusNotSeen, PostRecord, PostEnqueue, SeedInsert,
                SeedEnqueue, Demote, VerifyFinalize, itemVars, boundVars
  <1>4. CASE VerifyTick \/ Network \/ UNCHANGED vars
    BY <1>4 DEF VerifyTick, Network, Mine, Confirm, Deepen, Expire, Reorg, SetChain, vars,
                itemVars, boundVars
  <1> QED
    BY <1>1, <1>2, <1>3, <1>4 DEF Next

LEMMA ItemStepRecords ==
    ASSUME TypeOK, NEW w \in Workers, ItemStep(w), NEW i, Recorded(i)'
    PROVE  /\ uploads' = uploads
           /\ Recorded(i) \/ Carried(i)
  <1> USE DEF Recorded, ExistingItems
  <1>1. CASE IngestInsert(w)
    <2> DEFINE row == [item |-> run[w].job.item, up |-> run[w].job.up, fails |-> 0]
    <2>1. /\ newItem' = newItem \/ newItem' = newItem \cup {row}
          /\ UNCHANGED <<planned, permanent, failed, uploads>>
      BY <1>1 DEF IngestInsert, boundVars
    <2>2. row.item = run[w].job.item
      OBVIOUS
    <2> HIDE DEF row
    <2>3. i = run[w].job.item => Carried(i)
      BY <1>1 DEF IngestInsert, At, TypeOK, Execution, Carried
    <2> QED
      BY <2>1, <2>2, <2>3, InItemsOf
  <1>2. ASSUME NEW j \in jobs, IngestRead(w, j)
        PROVE  uploads' = uploads /\ Recorded(i)
    BY <1>2 DEF IngestRead, boundVars
  <1>3. ASSUME NEW batch, PlanMove(w, batch)
        PROVE  uploads' = uploads /\ Recorded(i)
    <2> DEFINE M(r) == [item |-> r.item, up |-> r.up, fails |-> r.fails,
                        plan |-> run[w].plan]
    <2>1. /\ newItem' \subseteq newItem /\ UNCHANGED <<permanent, failed, uploads>>
          /\ \A q \in planned' : q \in planned \/ \E r \in newItem : q = M(r)
      BY <1>3 DEF PlanMove, boundVars
    <2>2. \A r : M(r).item = r.item
      OBVIOUS
    <2> HIDE DEF M
    <2> QED
      BY <2>1, <2>2, InItemsOf
  <1>4. ASSUME NEW batch, RepackHeld(w, batch)
        PROVE  uploads' = uploads /\ Recorded(i)
    <2> DEFINE M(r) == [item |-> r.item, up |-> r.up, fails |-> r.fails + 1]
               rows == RowsHeld(batch)
    <2>1. rows \subseteq planned /\ OverLimit(rows) \subseteq rows
      BY DEF RowsHeld, OverLimit
    <2>2. /\ planned' \subseteq planned /\ UNCHANGED <<permanent, uploads>>
          /\ failed' = failed \cup ItemsOf(OverLimit(rows))
          /\ \A q \in newItem' : q \in newItem \/ \E r \in rows : q = M(r)
      BY <1>4 DEF RepackHeld, Repack, boundVars
    <2>3. \A r : M(r).item = r.item
      OBVIOUS
    <2> HIDE DEF M, rows
    <2> QED
      BY <2>1, <2>2, <2>3, InItemsOf
  <1>5. ASSUME NEW k \in Items, PrepareMissing(w, k)
        PROVE  uploads' = uploads /\ Recorded(i)
    <2>1. /\ planned' \subseteq planned /\ UNCHANGED <<newItem, permanent, uploads>>
          /\ failed' = failed \/ (failed' = failed \cup {k} /\ \E r \in planned : r.item = k)
      BY <1>5 DEF PrepareMissing, boundVars
    <2> QED
      BY <2>1, InItemsOf
  <1>6. CASE VerifyPromote(w) \/ VerifyPromoteSome(w)
    <2>1. PICK rows \in SUBSET RowsToPromote(w) : Promote(rows, run[w].bundle)
      BY <1>6 DEF VerifyPromote, VerifyPromoteSome
    <2> DEFINE bad  == {r \in rows : Poison(r)}
               M(r) == PermanentRowOf(r, run[w].bundle)
    <2>2. /\ planned' \subseteq planned /\ newItem' = newItem
          /\ failed' = failed \cup ItemsOf(bad)
          /\ \A q \in permanent' : q \in permanent \/ \E r \in rows : q = M(r)
      BY <2>1 DEF Promote
    <2>3. \A r : M(r).item = r.item
      BY DEF PermanentRowOf
    <2>4. rows \subseteq planned /\ bad \subseteq rows
      BY DEF RowsToPromote
    <2>5. uploads' = uploads
      BY <1>6 DEF VerifyPromote, VerifyPromoteSome, boundVars
    <2> HIDE DEF M, bad
    <2> QED
      BY <2>2, <2>3, <2>4, <2>5, InItemsOf
  <1> QED
    BY <1>1, <1>2, <1>3, <1>4, <1>5, <1>6 DEF ItemStep

LEMMA RecordStep ==
    ASSUME TypeOK, [Next]_vars, NEW i, Recorded(i)'
    PROVE  Recorded(i) \/ Carried(i)
  <1>1. CASE UNCHANGED <<itemVars, uploads>>
    BY <1>1 DEF Recorded, ExistingItems, itemVars
  <1>2. ASSUME NEW k \in Items, Upload(k) \/ UploadRefused(k)
        PROVE  Recorded(i)
    BY <1>2 DEF Upload, UploadRefused, Recorded, ExistingItems
  <1> QED
    BY <1>1, <1>2, ItemsFramed, ItemStepRecords

LEMMA UploadsStep ==
    ASSUME TypeOK, [Next]_vars, NEW i \in Items
    PROVE  uploads[i] > 0 \/ Upload(i) => uploads'[i] > 0
  <1>1. ASSUME NEW k \in Items, Upload(k)
        PROVE  uploads[i] > 0 \/ Upload(i) => uploads'[i] > 0
    <2>1. uploads' = [uploads EXCEPT ![k] = @ + 1] /\ uploads[k] \in Nat /\ uploads[i] \in Nat
      BY <1>1, CountsAssumption DEF Upload, TypeOK
    <2>2. Upload(i) => uploads'[i] = uploads[i] + 1
      BY DEF Upload, TypeOK
    <2> QED
      BY <2>1, <2>2 DEF TypeOK
  <1>2. ASSUME uploads' = uploads
        PROVE  ~Upload(i)
    <2>1. uploads[i] \in Nat
      BY CountsAssumption DEF TypeOK
    <2>2. Upload(i) => uploads'[i] = uploads[i] + 1
      BY DEF Upload, TypeOK
    <2> QED
      BY <1>2, <2>1, <2>2
  <1>3. ASSUME NEW w \in Workers, ItemStep(w)
        PROVE  uploads' = uploads
    BY <1>3 DEF ItemStep, IngestInsert, IngestRead, PlanMove, RepackHeld, PrepareMissing,
                VerifyPromote, VerifyPromoteSome, boundVars
  <1>4. ASSUME NEW k \in Items, UploadRefused(k)
        PROVE  uploads' = uploads
    BY <1>4 DEF UploadRefused, boundVars
  <1> QED
    BY <1>1, <1>2, <1>3, <1>4, ItemsFramed

\* Whatever is in a table or in a newDataItem job was accepted.
OnlyAccepted == \A i \in Items : Recorded(i) \/ Carried(i) => uploads[i] > 0

LEMMA AcceptedKept ==
    ASSUME TypeOK, OnlyAccepted, [Next]_vars
    PROVE  OnlyAccepted'
  <1> SUFFICES ASSUME NEW i \in Items, Recorded(i)' \/ Carried(i)'
               PROVE  uploads'[i] > 0
    BY DEF OnlyAccepted
  <1>1. Recorded(i) \/ Carried(i) \/ Upload(i)
    BY RecordStep, NextJobs
  <1> QED
    BY <1>1, UploadsStep DEF OnlyAccepted

(***************************************************************************)
(* What is signed is some accepted items, a signed transaction keeps its   *)
(* row, and what a verify run finalizes is confirmed.                      *)
(***************************************************************************)
Accepted(S) == S # {} /\ \A i \in S : uploads[i] > 0

Ready(w) ==
    /\ run[w].pc = "store" => Accepted(run[w].items)
    /\ run[w].pc = "sign" => Accepted(payload[run[w].plan])
    /\ run[w].pc \in {"promote", "repackRest", "finalize"} =>
          run[w].bundle \in Bundles /\ chain[run[w].bundle] \in Confirmed

SignedHaveRows == \A b \in Bundles : chain[b] # "none" => \E p \in Plans : HasRow(p, b)

DeliveryInv == /\ OnChainInv /\ OnlyAccepted /\ SignedHaveRows
               /\ \A w \in Workers : Ready(w)

LEMMA AcceptedStays ==
    ASSUME TypeOK, [Next]_vars, NEW S \in SUBSET Items, Accepted(S)
    PROVE  Accepted(S)'
  BY UploadsStep DEF Accepted

LEMMA StayReady ==
    ASSUME DeliveryInv, [Next]_vars, NEW v \in Workers, run'[v] = run[v]
    PROVE  Ready(v)'
  <1> USE DEF DeliveryInv, OnChainInv, StrandedInv, BundleInv
  <1>1. CASE run[v].pc = "store"
    BY <1>1, AcceptedStays DEF Ready, TypeOK, Execution, Accepted
  <1>2. CASE run[v].pc = "sign"
    <2> DEFINE p == run[v].plan
    <2>1. p \in Plans /\ Accepted(payload[p]) /\ payload[p] \in SUBSET Items
      BY <1>2 DEF Covered, Ready, TypeOK
    <2>2. CASE payload'[p] = payload[p]
      <3>1. Accepted(payload[p])'
        BY <2>1, <2>2, UploadsStep DEF Accepted
      <3> QED
        BY <1>2, <3>1 DEF Ready
    <2>3. ASSUME NEW w \in Workers, PrepareStore(w), payload'[p] # payload[p]
          PROVE  Ready(v)'
      <3>1. /\ run[w].pc = "store" /\ payload'[p] = run[w].items /\ run[w].items \in SUBSET Items
        BY <2>1, <2>3 DEF PrepareStore, At, TypeOK, Execution
      <3>2. Accepted(run[w].items)
        BY <3>1 DEF Ready
      <3>3. Accepted(payload[p])'
        BY <3>1, <3>2, UploadsStep DEF Accepted
      <3> QED
        BY <1>2, <3>3 DEF Ready
    <2> QED
      BY <2>2, <2>3, PayloadStep
  <1>3. CASE run[v].pc \in {"promote", "repackRest", "finalize"}
    <2>1. run[v].bundle \in Bundles /\ chain[run[v].bundle] \in Confirmed
      BY <1>3 DEF Ready
    <2>2. chain'[run[v].bundle] \in Confirmed
      BY <2>1, SignedStays DEF Confirmed
    <2> QED
      BY <1>3, <2>1, <2>2 DEF Ready
  <1> QED
    BY <1>1, <1>2, <1>3 DEF Ready

LEMMA EnterReady ==
    ASSUME ~ReplicaLag, DeliveryInv, [Next]_vars, NEW v \in Workers, Entered(v),
           run'[v] # run[v]
    PROVE  Ready(v)'
  <1> USE DEF DeliveryInv, OnChainInv, StrandedInv, BundleInv
  <1>1. ASSUME NEW j \in jobs, PrepareStart(v, j), run'[v].pc = "store"
        PROVE  Ready(v)'
    <2>1. PICK S \in ReadPlanned(j.plan) :
             Take(v, j, Exec(j, "store", j.plan, None, S, {})) /\ S # {}
      BY <1>1, IdleFacts DEF PrepareStart, DropJob, Take, ThrowAtStart, TypeOK
    <2>2. run'[v].items = S
      BY <2>1 DEF Take, Exec, TypeOK
    <2>3. \A i \in S : i \in Items /\ Recorded(i)
      BY InItemsOf DEF ReadPlanned, ItemsOf, PlannedFor, Recorded, ExistingItems, TypeOK,
                       PlannedRow
    <2>4. \A i \in S : uploads'[i] > 0
      BY <2>3, UploadsStep DEF OnlyAccepted
    <2> QED
      BY <1>1, <2>1, <2>2, <2>4 DEF Ready, Accepted
  <1>2. CASE PrepareStore(v)
    <2>1. /\ run[v].pc = "store" /\ run'[v].pc = "sign" /\ run'[v].plan = run[v].plan
          /\ run[v].plan \in Plans /\ payload'[run[v].plan] = run[v].items
          /\ run[v].items \in SUBSET Items
      BY <1>2 DEF PrepareStore, Goto, At, TypeOK, Execution, Covered
    <2>2. Accepted(run[v].items)
      BY <2>1 DEF Ready
    <2>3. payload'[run'[v].plan] # {} /\ \A i \in payload'[run'[v].plan] : uploads'[i] > 0
      BY <2>1, <2>2, UploadsStep DEF Accepted
    <2> QED
      BY <2>1, <2>3 DEF Ready, Accepted
  <1>3. ASSUME NEW r \in run[v].todo, VerifyConfirmed(v, r)
        PROVE  Ready(v)'
    <2>1. PICK S :
             run' = [run EXCEPT ![v] =
                [run[v] EXCEPT !.pc = "promote", !.plan = r.plan, !.bundle = r.bundle,
                               !.items = S, !.todo = run[v].todo \ {r}]]
      BY <1>3 DEF VerifyConfirmed, Sweep
    <2>2. run'[v].pc = "promote" /\ run'[v].bundle = r.bundle
      BY <2>1 DEF TypeOK, Execution
    <2>3. chain' = chain /\ chain[r.bundle] \in Confirmed /\ r.bundle \in Bundles
      BY <1>3 DEF VerifyConfirmed, storeVars, Confirmed, TypeOK, Execution, BundleRow
    <2> QED
      BY <2>2, <2>3 DEF Ready
  <1>4. CASE /\ VerifyPromote(v) /\ run'[v].pc \in {"repackRest", "finalize"}
             /\ run'[v].bundle = run[v].bundle
    <2>1. run[v].pc = "promote" /\ chain' = chain
      BY <1>4 DEF VerifyPromote, At, storeVars
    <2> QED
      BY <1>4, <2>1 DEF Ready
  <1>5. ASSUME NEW batch, RepackHeld(v, batch)
        PROVE  Ready(v)'
    <2>1. NextBatch(v, batch, IF At(v, "repack") THEN "demote" ELSE "finalize")
          /\ run[v].pc \in {"repack", "repackRest"} /\ chain' = chain
      BY <1>5 DEF RepackHeld, At, storeVars
    <2>2. /\ run'[v].bundle = run[v].bundle
          /\ run[v].pc = "repack" => run'[v].pc \in {"repack", "demote"}
          /\ run[v].pc = "repackRest" => run'[v].pc \in {"repackRest", "finalize"}
      BY <2>1, BatchStep DEF At
    <2> QED
      BY <2>1, <2>2 DEF Ready
  <1>6. CASE run'[v].pc \notin Covering
    BY <1>6 DEF Covering, Ready
  <1> QED
    BY <1>1, <1>2, <1>3, <1>4, <1>5, <1>6 DEF Entered

\* A step of the bundle tables, but the signing of a bundle.
LEMMA MoveStep ==
    ASSUME DeliveryInv, NEW w \in Workers,
           PostRecord(w) \/ SeedInsert(w) \/ Demote(w) \/ VerifyFinalize(w)
    PROVE  \E from \in Live, to \in {"posted", "seeded", "permanent", "failed"} :
              \E rows \in SUBSET bundles[from] :
                 /\ MoveRows(rows, from, to)
                 /\ \A r \in rows : r.bundle = run[w].bundle
                 /\ \/ from = "new" /\ to = "posted"
                    \/ from = "posted" /\ to = "seeded"
                    \/ from = "seeded" /\ to = "permanent"
                       /\ chain[run[w].bundle] \in Confirmed
                    \/ to = "failed"
  <1> USE DEF DeliveryInv, OnChainInv, StrandedInv, BundleInv, Handled
  <1>1. ASSUME run[w].pc \in {"demote", "finalize"}, NEW r \in RowsIn("seeded", run[w].plan)
        PROVE  r.bundle = run[w].bundle
    <2>1. HasRow(run[w].plan, run[w].bundle)
      BY <1>1 DEF Informed, OnBundle
    <2>2. "seeded" \in BundleTables /\ r \in bundles["seeded"] /\ r.plan = run[w].plan
      BY <1>1 DEF BundleTables, RowsIn
    <2> QED
      BY <2>1, <2>2 DEF HasRow, OneBundleTable
  <1>2. CASE PostRecord(w)
    BY <1>2 DEF PostRecord, Live
  <1>3. CASE SeedInsert(w)
    BY <1>3 DEF SeedInsert, Live
  <1>4. CASE VerifyFinalize(w)
    <2>1. run[w].pc = "finalize" /\ MoveRows(RowsIn("seeded", run[w].plan), "seeded", "permanent")
      BY <1>4 DEF VerifyFinalize, At
    <2>2. RowsIn("seeded", run[w].plan) \in SUBSET bundles["seeded"]
      BY DEF RowsIn
    <2>3. chain[run[w].bundle] \in Confirmed
      BY <2>1 DEF Ready
    <2> QED
      BY <1>1, <2>1, <2>2, <2>3 DEF Live
  <1>5. CASE Demote(w)
    <2> DEFINE from == CASE run[w].job.kind = "post" -> "new"
                         [] IsRedrive(w) -> "posted"
                         [] OTHER -> "seeded"
               rows == IF from = "seeded" THEN RowsIn("seeded", run[w].plan)
                       ELSE {q \in bundles[from] : q.bundle = run[w].bundle}
    <2>1. from \in Live
      BY DEF Live, IsRedrive
    <2>2. MoveRows(rows, from, "failed") /\ run[w].pc = "demote"
      BY <1>5 DEF Demote, At
    <2>3. rows \in SUBSET bundles[from] /\ \A r \in rows : r.bundle = run[w].bundle
      BY <1>1, <2>2 DEF RowsIn
    <2> HIDE DEF from, rows
    <2> QED
      BY <2>1, <2>2, <2>3
  <1> QED
    BY <1>2, <1>3, <1>4, <1>5

LEMMA BundleStep ==
    ASSUME [Next]_vars
    PROVE  \/ bundles' = bundles
           \/ \E w \in Workers, b \in Bundles : PrepareSign(w, b)
           \/ \E w \in Workers :
                 PostRecord(w) \/ SeedInsert(w) \/ Demote(w) \/ VerifyFinalize(w)
  <1>1. ASSUME NEW w \in Workers, TableStep(w),
               ~(PostRecord(w) \/ SeedInsert(w) \/ VerifyFinalize(w) \/ Demote(w)),
               ~\E b \in Bundles : PrepareSign(w, b)
        PROVE  bundles' = bundles
    BY <1>1 DEF TableStep, PlanMove, RepackHeld, PrepareMissing, PrepareStore,
                PostBroadcast, VerifyPromote, VerifyPromoteSome, bundleVars
  <1> QED
    BY <1>1, Framed DEF Rest

LEMMA SignedKept ==
    ASSUME DeliveryInv, [Next]_vars
    PROVE  SignedHaveRows'
  <1> USE DEF DeliveryInv, OnChainInv, StrandedInv, BundleInv
  <1>0. Live \subseteq BundleTables /\ {"posted", "seeded", "permanent", "failed"} \subseteq BundleTables
    BY DEF Live, BundleTables
  <1>1. RowsStay
    <2>1. ASSUME NEW w \in Workers,
                 PostRecord(w) \/ SeedInsert(w) \/ Demote(w) \/ VerifyFinalize(w)
          PROVE  RowsStay
      BY <1>0, <2>1, MoveStep, MovedStay
    <2>2. ASSUME NEW w \in Workers, NEW b \in Bundles, PrepareSign(w, b)
          PROVE  RowsStay
      <3>1. \A t \in BundleTables : bundles[t] \subseteq bundles'[t]
        BY <2>2 DEF PrepareSign, TypeOK
      <3> QED
        BY <3>1 DEF RowsStay, HasRow
    <2>3. CASE bundles' = bundles
      BY <2>3 DEF RowsStay, HasRow
    <2> QED
      BY <2>1, <2>2, <2>3, BundleStep
  <1>2. ASSUME NEW w \in Workers, NEW b \in Bundles, PrepareSign(w, b)
        PROVE  /\ \E p \in Plans : HasRow(p, b)'
               /\ \A c \in Bundles : c # b => chain'[c] = chain[c]
    <2> DEFINE row == [plan |-> run[w].plan, bundle |-> b]
    <2>1. row \in bundles'["new"] /\ run[w].plan \in Plans
      BY <1>2 DEF PrepareSign, TypeOK, BundleTables
    <2>2. "new" \in BundleTables /\ row.plan = run[w].plan /\ row.bundle = b
      BY DEF BundleTables
    <2> HIDE DEF row
    <2>3. chain' = [chain EXCEPT ![b] = "unposted"]
      BY <1>2 DEF PrepareSign
    <2> QED
      BY <2>1, <2>2, <2>3 DEF HasRow, TypeOK
  <1>3. ASSUME NEW b \in Bundles, chain'[b] # "none"
        PROVE  chain[b] # "none" \/ \E w \in Workers : PrepareSign(w, b)
    <2>1. ASSUME NEW w \in Workers, TableStep(w), ~PostBroadcast(w),
                 ~\E c \in Bundles : PrepareSign(w, c)
          PROVE  chain' = chain
      BY <2>1 DEF TableStep, PlanMove, RepackHeld, PrepareMissing, PrepareStore, PostRecord,
                  SeedInsert, Demote, VerifyPromote, VerifyPromoteSome, VerifyFinalize,
                  storeVars
    <2>2. ASSUME NEW w \in Workers, PostBroadcast(w)
          PROVE  chain[b] # "none"
      BY <1>3, <2>2 DEF PostBroadcast, TypeOK
    <2>3. CASE Network
      BY <1>3, <2>3 DEF Network, Mine, Confirm, Deepen, Expire, Reorg, SetChain, TypeOK
    <2>4. ASSUME NEW w \in Workers, NEW c \in Bundles, PrepareSign(w, c)
          PROVE  chain[b] # "none" \/ \E u \in Workers : PrepareSign(u, b)
      BY <1>2, <1>3, <2>4
    <2> QED
      BY <1>3, <2>1, <2>2, <2>3, <2>4, Framed
  <1> QED
    BY <1>1, <1>2, <1>3 DEF SignedHaveRows, RowsStay

LEMMA NextDelivery ==
    ASSUME ~ReplicaLag
    PROVE  DeliveryInv /\ [Next]_vars => DeliveryInv'
  <1> SUFFICES ASSUME DeliveryInv, [Next]_vars PROVE DeliveryInv'
    OBVIOUS
  <1>1. TypeOK
    BY DEF DeliveryInv, OnChainInv, StrandedInv, BundleInv
  <1>2. OnChainInv' /\ OnlyAccepted' /\ SignedHaveRows'
    BY <1>1, NextOnChain, AcceptedKept, SignedKept DEF DeliveryInv
  <1>3. \A w \in Workers : Ready(w)'
    BY <1>1, NextEntered, StayReady, EnterReady
  <1> QED
    BY <1>2, <1>3 DEF DeliveryInv

LEMMA InitDelivery == Init => DeliveryInv
  <1> SUFFICES ASSUME Init PROVE DeliveryInv
    OBVIOUS
  <1>1. \A w \in Workers : Ready(w)
    BY IdleFacts DEF Init, Ready
  <1>2. OnlyAccepted
    BY IdleFacts DEF Init, OnlyAccepted, Recorded, ExistingItems, ItemsOf, Carried
  <1> QED
    BY <1>1, <1>2, InitOnChain DEF Init, DeliveryInv, SignedHaveRows

(***************************************************************************)
(* The refinement: what each step is in the terms of Delivery.             *)
(***************************************************************************)
Acc == {i \in Items : uploads[i] > 0}
Out == [i \in Items |-> OutcomeOf(i)]
Stg == [b \in Bundles |-> StageIn(bundles, b)]
Cnf == {b \in Bundles : chain[b] \in {"final", "deep"}}

LEMMA StageOfRow ==
    ASSUME NEW tables, NEW b, NEW t \in BundleTables, HasBundle(tables[t], b),
           \A u \in BundleTables : HasBundle(tables[u], b) => u = t
    PROVE  StageIn(tables, b) = t
  BY Zenon DEF StageIn

LEMMA StageOfNone ==
    ASSUME NEW tables, NEW b, \A t \in BundleTables : ~HasBundle(tables[t], b)
    PROVE  StageIn(tables, b) = "none"
  BY DEF StageIn

LEMMA SameStage ==
    ASSUME OneBundleTable, OneBundleTable', NEW b,
           \A t \in BundleTables : HasBundle(bundles[t], b) <=> HasBundle(bundles'[t], b)
    PROVE  StageIn(bundles', b) = StageIn(bundles, b)
  <1>1. CASE \E t \in BundleTables : HasBundle(bundles[t], b)
    <2>1. PICK t \in BundleTables : HasBundle(bundles[t], b)
      BY <1>1
    <2>2. \A u \in BundleTables : HasBundle(bundles[u], b) => u = t
      BY <2>1 DEF OneBundleTable, HasBundle
    <2>3. StageIn(bundles, b) = t
      BY <2>1, <2>2, StageOfRow
    <2>4. StageIn(bundles', b) = t
      BY <2>1, <2>2, StageOfRow
    <2> QED
      BY <2>3, <2>4
  <1>2. CASE \A t \in BundleTables : ~HasBundle(bundles[t], b)
    BY <1>2, StageOfNone
  <1> QED
    BY <1>1, <1>2

\* Items only ever settle in a step that accepts none and touches no bundle.
LEMMA SettleStep ==
    ASSUME DeliveryInv, DeliveryInv', UNCHANGED <<uploads, bundles, content, Cnf>>,
           permanent \subseteq permanent', failed \subseteq failed'
    PROVE  Promise!Next
  <1> DEFINE good == {i \in Items : Out[i] # "permanent" /\ Out'[i] = "permanent"}
             bad  == {i \in Items : Out[i] = "pending" /\ Out'[i] = "failed"}
  <1>1. \A i \in Items : i \in ItemsOf(permanent) => i \in ItemsOf(permanent')
    BY DEF ItemsOf
  <1>2. \A i \in Items : Recorded(i)' => i \in Acc
    BY DEF DeliveryInv, OnlyAccepted, Acc
  <1>3. good \subseteq {i \in Acc : Out[i] # "permanent"}
    BY <1>2 DEF Out, OutcomeOf, Recorded, ExistingItems
  <1>4. bad \subseteq {i \in Acc : Out[i] = "pending"}
    BY <1>2 DEF Out, OutcomeOf, Recorded
  <1>5. \A i \in good : \E b \in Cnf : i \in content[b]
    <2> SUFFICES ASSUME NEW i \in good PROVE \E b \in Cnf : i \in content[b]
      OBVIOUS
    <2>1. PICK r \in permanent' : r.item = i
      BY DEF Out, OutcomeOf, ItemsOf
    <2>2. r.item \in content'[r.bundle] /\ chain'[r.bundle] \in {"final", "deep"}
      BY DEF DeliveryInv, OnChainInv, PermanentOnChain
    <2>3. r.bundle \in Bundles
      BY DEF DeliveryInv, OnChainInv, StrandedInv, BundleInv, TypeOK, PermanentRow
    <2>4. r.bundle \in Cnf'
      BY <2>2, <2>3 DEF Cnf
    <2> QED
      BY <2>1, <2>2, <2>4
  <1>6. Out' = [i \in Items |-> IF i \in good THEN "permanent"
                                ELSE IF i \in bad THEN "failed" ELSE Out[i]]
    BY <1>1 DEF Out, OutcomeOf
  <1>7. UNCHANGED <<Acc, Stg, content, Cnf>>
    BY DEF Acc, Stg
  <1>8. good \in SUBSET Items /\ bad \in SUBSET Items
    OBVIOUS
  <1> HIDE DEF good, bad
  <1>9. Promise!Settle(good, bad)
    BY <1>3, <1>4, <1>5, <1>6, <1>7 DEF Promise!Settle, Acc, Out, Stg, Cnf
  <1> QED
    BY <1>8, <1>9 DEF Promise!Next

LEMMA UploadStep ==
    ASSUME ~ReplicaLag, DeliveryInv, NEW i \in Items, Upload(i) \/ UploadRefused(i)
    PROVE  Promise!Next
  <1>0. TypeOK
    BY DEF DeliveryInv, OnChainInv, StrandedInv, BundleInv
  <1>1. UNCHANGED <<Stg, content, Cnf, permanent>>
    BY DEF Upload, UploadRefused, Stg, Cnf, bundleVars, storeVars
  <1>2. CASE failed' = failed
    <2>1. Upload(i) /\ uploads' = [uploads EXCEPT ![i] = @ + 1]
      BY <1>2 DEF Upload, UploadRefused
    <2>2. Acc' = Acc \cup {i}
      BY <1>0, <2>1, CountsAssumption DEF Acc, TypeOK
    <2>3. Out' = Out
      BY <1>1, <1>2 DEF Out, OutcomeOf
    <2>4. Promise!Accept(i)
      BY <1>1, <2>2, <2>3 DEF Promise!Accept, Acc, Out, Stg, Cnf
    <2> QED
      BY <2>4 DEF Promise!Next
  <1>3. CASE failed' # failed
    <2>1. i \in failed /\ failed' = failed \ {i} /\ MayPassCheck(i)
      BY <1>3 DEF Upload, UploadRefused
    <2>2. i \notin ItemsOf(permanent)
      BY <2>1 DEF MayPassCheck, ExistingItems
    <2>3. i \in Acc
      BY <2>1 DEF DeliveryInv, OnlyAccepted, Recorded, Acc
    <2>4. Acc' = Acc
      BY <1>0, <2>3, CountsAssumption DEF Upload, UploadRefused, boundVars, Acc, TypeOK
    <2>5. Out[i] = "failed" /\ Out' = [Out EXCEPT ![i] = "pending"]
      BY <1>1, <2>1, <2>2 DEF Out, OutcomeOf
    <2>6. Promise!Reopen(i)
      BY <1>1, <2>3, <2>4, <2>5 DEF Promise!Reopen, Acc, Out, Stg, Cnf
    <2> QED
      BY <2>6 DEF Promise!Next
  <1> QED
    BY <1>2, <1>3

LEMMA IngestReadStep ==
    ASSUME ~ReplicaLag, DeliveryInv, NEW w \in Workers, NEW j \in jobs, IngestRead(w, j)
    PROVE  [Promise!Next]_(Promise!vars)
  <1> DEFINE i == j.item
  <1>0. TypeOK
    BY DEF DeliveryInv, OnChainInv, StrandedInv, BundleInv
  <1>1. i \in Items
    BY <1>0 DEF IngestRead, TypeOK, Job
  <1>2. UNCHANGED <<Acc, Stg, content, Cnf, permanent>> /\ failed' = failed \ {i}
    BY DEF IngestRead, Acc, Stg, Cnf, bundleVars, storeVars, boundVars
  <1>3. CASE i \in failed /\ i \notin ItemsOf(permanent)
    <2>1. i \in Acc
      BY <1>1, <1>3 DEF DeliveryInv, OnlyAccepted, Recorded, Acc
    <2>2. Out[i] = "failed" /\ Out' = [Out EXCEPT ![i] = "pending"]
      BY <1>1, <1>2, <1>3 DEF Out, OutcomeOf
    <2>3. Promise!Reopen(i)
      BY <1>2, <2>1, <2>2 DEF Promise!Reopen, Acc, Out, Stg, Cnf
    <2> QED
      BY <1>1, <2>3 DEF Promise!Next
  <1>4. CASE i \notin failed \/ i \in ItemsOf(permanent)
    <2>1. Out' = Out
      BY <1>2, <1>4 DEF Out, OutcomeOf
    <2> QED
      BY <1>2, <2>1 DEF Promise!vars, Acc, Out, Stg, Cnf
  <1> QED
    BY <1>3, <1>4

LEMMA SignStep ==
    ASSUME DeliveryInv, DeliveryInv', UNCHANGED <<Acc, Out>>,
           NEW w \in Workers, NEW b \in Bundles, PrepareSign(w, b)
    PROVE  Promise!Next
  <1> USE DEF DeliveryInv, OnChainInv, StrandedInv, BundleInv
  <1> DEFINE S   == payload[run[w].plan]
             row == [plan |-> run[w].plan, bundle |-> b]
  <1>1. S \in SUBSET Items /\ Accepted(S)
    BY DEF PrepareSign, At, Covered, Ready, TypeOK
  <1>2. S # {} /\ S \subseteq Acc
    BY <1>1 DEF Accepted, Acc
  <1>3. content' = [content EXCEPT ![b] = S] /\ chain' = [chain EXCEPT ![b] = "unposted"]
        /\ chain[b] = "none"
    BY DEF PrepareSign
  <1>4. Cnf' = Cnf
    BY <1>3 DEF Cnf, TypeOK
  <1>5. /\ \A t \in BundleTables \ {"new"} : bundles'[t] = bundles[t]
        /\ bundles'["new"] = bundles["new"] \cup {row} /\ "new" \in BundleTables
    BY DEF PrepareSign, TypeOK, BundleTables
  <1>6. row.bundle = b
    OBVIOUS
  <1> HIDE DEF S, row
  <1>7. \A t \in BundleTables : ~HasBundle(bundles[t], b)
    BY <1>3 DEF RowsAreKnown, HasBundle
  <1>8. Stg[b] = "none"
    BY <1>7, StageOfNone DEF Stg
  <1>9. StageIn(bundles', b) = "new"
    <2>1. HasBundle(bundles'["new"], b)
      BY <1>5, <1>6 DEF HasBundle
    <2>2. \A u \in BundleTables : HasBundle(bundles'[u], b) => u = "new"
      BY <1>5, <1>7
    <2> QED
      BY <1>5, <2>1, <2>2, StageOfRow
  <1>10. ASSUME NEW c \in Bundles, c # b
         PROVE  StageIn(bundles', c) = StageIn(bundles, c)
    <2>1. \A t \in BundleTables : HasBundle(bundles[t], c) <=> HasBundle(bundles'[t], c)
      BY <1>5, <1>6, <1>10 DEF HasBundle
    <2> QED
      BY <2>1, SameStage
  <1>11. Stg' = [Stg EXCEPT ![b] = "new"]
    BY <1>9, <1>10 DEF Stg
  <1>12. Promise!Sign(b, S)
    BY <1>2, <1>3, <1>4, <1>8, <1>11 DEF Promise!Sign, Acc, Out, Stg, Cnf
  <1> QED
    BY <1>1, <1>12 DEF Promise!Next

LEMMA ProceedStep ==
    ASSUME DeliveryInv, DeliveryInv', UNCHANGED <<Acc, Out, Cnf, content>>,
           NEW w \in Workers,
           PostRecord(w) \/ SeedInsert(w) \/ Demote(w) \/ VerifyFinalize(w)
    PROVE  [Promise!Next]_(Promise!vars)
  <1> DEFINE b == run[w].bundle
  <1> DEFINE Moved(from, to, rows) ==
                /\ MoveRows(rows, from, to)
                /\ \A r \in rows : r.bundle = b
                /\ \/ from = "new" /\ to = "posted"
                   \/ from = "posted" /\ to = "seeded"
                   \/ from = "seeded" /\ to = "permanent" /\ chain[b] \in Confirmed
                   \/ to = "failed"
  <1> TypeOK /\ OneBundleTable /\ OneBundleTable'
    BY DEF DeliveryInv, OnChainInv, StrandedInv, BundleInv
  <1>0. PICK from \in Live, to \in {"posted", "seeded", "permanent", "failed"} :
           \E rows \in SUBSET bundles[from] : Moved(from, to, rows)
    BY MoveStep
  <1>1. PICK rows \in SUBSET bundles[from] : Moved(from, to, rows)
    BY <1>0
  <1>2. from \in BundleTables /\ to \in BundleTables /\ from # to /\ from # "none"
    BY <1>0, <1>1 DEF Live, BundleTables
  <1>3. \A t \in BundleTables :
           bundles'[t] = IF t = to THEN bundles[to] \cup rows
                         ELSE IF t = from THEN bundles[from] \ rows ELSE bundles[t]
    BY <1>1, <1>2 DEF MoveRows, TypeOK
  <1>4. CASE rows = {}
    <2>1. \A t \in BundleTables : bundles'[t] = bundles[t]
      BY <1>3, <1>4
    <2>2. \A c \in Bundles : StageIn(bundles', c) = StageIn(bundles, c)
      BY <2>1, SameStage
    <2>3. Stg' = Stg
      BY <2>2 DEF Stg
    <2> QED
      BY <2>3 DEF Promise!vars, Acc, Out, Stg, Cnf
  <1>5. CASE rows # {}
    <2>1. PICK r \in rows : r.bundle = b
      BY <1>1, <1>5
    <2>2. r \in bundles[from] /\ r \in bundles'[to] /\ b \in Bundles
      BY <1>1, <1>2, <1>3, <2>1 DEF TypeOK, BundleRow
    <2>3. StageIn(bundles, b) = from
      <3>1. HasBundle(bundles[from], b)
        BY <2>1, <2>2 DEF HasBundle
      <3>2. \A u \in BundleTables : HasBundle(bundles[u], b) => u = from
        BY <1>2, <2>1, <2>2 DEF HasBundle, OneBundleTable
      <3> QED
        BY <1>2, <3>1, <3>2, StageOfRow
    <2>4. StageIn(bundles', b) = to
      <3>1. HasBundle(bundles'[to], b)
        BY <2>1, <2>2 DEF HasBundle
      <3>2. \A u \in BundleTables : HasBundle(bundles'[u], b) => u = to
        BY <1>2, <2>1, <2>2 DEF HasBundle, OneBundleTable
      <3> QED
        BY <1>2, <3>1, <3>2, StageOfRow
    <2>5. ASSUME NEW c \in Bundles, c # b
          PROVE  StageIn(bundles', c) = StageIn(bundles, c)
      <3>1. \A t \in BundleTables : HasBundle(bundles[t], c) <=> HasBundle(bundles'[t], c)
        BY <1>1, <1>3, <2>5 DEF HasBundle
      <3> QED
        BY <3>1, SameStage
    <2>6. Stg[b] = from /\ Stg' = [Stg EXCEPT ![b] = to]
      BY <2>2, <2>3, <2>4, <2>5 DEF Stg
    <2>7. to \in Promise!Successor[from]
      BY <1>0, <1>1 DEF Promise!Successor, Live
    <2>8. to = "permanent" => b \in Cnf
      BY <1>1, <2>2 DEF Confirmed, Cnf
    <2>9. Promise!Proceed(b, to)
      BY <1>2, <2>6, <2>7, <2>8 DEF Promise!Proceed, Acc, Out, Stg, Cnf
    <2> QED
      BY <1>0, <2>2, <2>9 DEF Promise!Next
  <1> QED
    BY <1>4, <1>5

LEMMA NetworkStep ==
    ASSUME DeliveryInv, UNCHANGED <<Acc, Out, Stg, content>>, Network
    PROVE  [Promise!Next]_(Promise!vars)
  <1> USE DEF DeliveryInv, OnChainInv, StrandedInv, BundleInv
  <1>1. PICK b \in Bundles : Mine(b) \/ Confirm(b) \/ Deepen(b) \/ Expire(b) \/ Reorg(b)
    BY DEF Network
  <1>2. CASE Confirm(b)
    <2>1. Cnf' = Cnf \cup {b} /\ chain[b] = "mined"
      BY <1>2 DEF Confirm, SetChain, Cnf, TypeOK
    <2>2. PICK p \in Plans, t \in BundleTables : \E r \in bundles[t] : r.bundle = b
      BY <2>1 DEF SignedHaveRows, HasRow
    <2>3. StageIn(bundles, b) = t
      <3>1. HasBundle(bundles[t], b)
        BY <2>2 DEF HasBundle
      <3>2. \A u \in BundleTables : HasBundle(bundles[u], b) => u = t
        BY <2>2 DEF HasBundle, OneBundleTable
      <3> QED
        BY <3>1, <3>2, StageOfRow
    <2>4. Stg[b] # "none"
      BY <2>3 DEF Stg, BundleTables
    <2>5. Promise!Confirm(b)
      BY <2>1, <2>4 DEF Promise!Confirm, Acc, Out, Stg, Cnf
    <2> QED
      BY <2>5 DEF Promise!Next
  <1>3. CASE Mine(b) \/ Deepen(b) \/ Expire(b) \/ Reorg(b)
    <2>1. Cnf' = Cnf
      BY <1>3 DEF Mine, Deepen, Expire, Reorg, SetChain, Cnf, TypeOK
    <2> QED
      BY <2>1 DEF Promise!vars, Acc, Out, Stg, Cnf
  <1> QED
    BY <1>1, <1>2, <1>3

LEMMA NextImplements ==
    ASSUME ~ReplicaLag
    PROVE  DeliveryInv /\ DeliveryInv' /\ [Next]_vars => [Promise!Next]_(Promise!vars)
  <1> SUFFICES ASSUME DeliveryInv, DeliveryInv', [Next]_vars
               PROVE  [Promise!Next]_(Promise!vars)
    OBVIOUS
  <1>0. TypeOK
    BY DEF DeliveryInv, OnChainInv, StrandedInv, BundleInv
  <1>1. ASSUME NEW i \in Items, Upload(i) \/ UploadRefused(i)
        PROVE  Promise!Next
    BY <1>1, UploadStep
  <1>2. ASSUME NEW w \in Workers, ItemStep(w)
        PROVE  [Promise!Next]_(Promise!vars)
    <2>1. CASE \E j \in jobs : IngestRead(w, j)
      BY <2>1, IngestReadStep
    <2>2. CASE ~\E j \in jobs : IngestRead(w, j)
      <3>1. UNCHANGED <<uploads, bundles, content, chain>>
        BY <1>2, <2>2 DEF ItemStep, IngestInsert, PlanMove, RepackHeld, PrepareMissing,
               VerifyPromote, VerifyPromoteSome, bundleVars, storeVars, boundVars
      <3>2. permanent \subseteq permanent' /\ failed \subseteq failed'
        BY <1>2, <2>2 DEF ItemStep, IngestInsert, PlanMove, RepackHeld, Repack,
               PrepareMissing, VerifyPromote, VerifyPromoteSome, Promote
      <3>3. Cnf' = Cnf
        BY <3>1 DEF Cnf
      <3> QED
        BY <3>1, <3>2, <3>3, SettleStep
    <2> QED
      BY <2>1, <2>2
  <1>3. CASE UNCHANGED <<itemVars, uploads>>
    <2>1. UNCHANGED <<Acc, Out>>
      BY <1>3 DEF itemVars, Acc, Out, OutcomeOf
    <2>2. CASE UNCHANGED <<Rest, chain>>
      <3>1. UNCHANGED <<Stg, content, Cnf>>
        BY <2>2 DEF Rest, Stg, Cnf
      <3> QED
        BY <2>1, <3>1 DEF Promise!vars, Acc, Out, Stg, Cnf
    <2>3. CASE Network /\ UNCHANGED Rest
      <3>1. UNCHANGED <<Stg, content>>
        BY <2>3 DEF Rest, Stg
      <3> QED
        BY <2>1, <2>3, <3>1, NetworkStep
    <2>4. ASSUME NEW w \in Workers, TableStep(w)
          PROVE  [Promise!Next]_(Promise!vars)
      <3>1. CASE \E b \in Bundles : PrepareSign(w, b)
        BY <2>1, <3>1, SignStep
      <3>2. CASE PostRecord(w) \/ SeedInsert(w) \/ Demote(w) \/ VerifyFinalize(w)
        <4>1. UNCHANGED <<content, Cnf>>
          BY <3>2 DEF PostRecord, SeedInsert, Demote, VerifyFinalize, storeVars, Cnf
        <4> QED
          BY <2>1, <3>2, <4>1, ProceedStep
      <3>3. CASE PostBroadcast(w)
        <4>1. UNCHANGED <<bundles, content>>
          BY <3>3 DEF PostBroadcast, bundleVars
        <4>2. UNCHANGED <<Stg, Cnf>>
          BY <1>0, <3>3, <4>1 DEF PostBroadcast, Stg, Cnf, TypeOK
        <4> QED
          BY <2>1, <4>1, <4>2 DEF Promise!vars, Acc, Out, Stg, Cnf
      <3>4. CASE ~(\E b \in Bundles : PrepareSign(w, b)) /\ ~PostBroadcast(w)
                 /\ ~(PostRecord(w) \/ SeedInsert(w) \/ Demote(w) \/ VerifyFinalize(w))
        <4>1. UNCHANGED <<bundles, content, chain>>
          BY <2>4, <3>4 DEF TableStep, PlanMove, RepackHeld, PrepareMissing, PrepareStore,
                 VerifyPromote, VerifyPromoteSome, bundleVars, storeVars
        <4>2. UNCHANGED <<Stg, Cnf>>
          BY <4>1 DEF Stg, Cnf
        <4> QED
          BY <2>1, <4>1, <4>2 DEF Promise!vars, Acc, Out, Stg, Cnf
      <3> QED
        BY <3>1, <3>2, <3>3, <3>4
    <2> QED
      BY <2>2, <2>3, <2>4, Framed
  <1> QED
    BY <1>1, <1>2, <1>3, ItemsFramed

LEMMA InitImplements == Init => Promise!Init
  <1> SUFFICES ASSUME Init PROVE Promise!Init
    OBVIOUS
  <1>1. \A b \in Bundles : StageIn(bundles, b) = "none"
    BY StageOfNone DEF Init, HasBundle
  <1>2. \A i \in Items : OutcomeOf(i) = "pending"
    BY DEF Init, OutcomeOf, ItemsOf
  <1>3. Acc = {} /\ Cnf = {} /\ content = [b \in Bundles |-> {}]
    BY DEF Init, Acc, Cnf
  <1>4. Out = [i \in Items |-> "pending"]
    BY <1>2 DEF Out
  <1>5. Stg = [b \in Bundles |-> "none"]
    BY <1>1 DEF Stg
  <1> QED
    BY <1>3, <1>4, <1>5 DEF Promise!Init, Acc, Out, Stg, Cnf

\* When the reader pool does not lag, the pipeline implements Delivery: whatever
\* is retried, run twice or lost, a bundle's row takes its stages in order and is
\* finalized only when confirmed, an item turns permanent only under a confirmed
\* transaction that holds it, and an item given up only by an upload pends again.
THEOREM PipelineImplementsDelivery ==
    ASSUME ~ReplicaLag
    PROVE  Spec => ImplementsDelivery
  <1>1. Init => DeliveryInv
    BY InitDelivery
  <1>2. DeliveryInv /\ [Next]_vars => DeliveryInv'
    BY NextDelivery
  <1>3. Init => Promise!Init
    BY InitImplements
  <1>4. DeliveryInv /\ DeliveryInv' /\ [Next]_vars => [Promise!Next]_(Promise!vars)
    BY NextImplements
  <1> QED
    BY <1>1, <1>2, <1>3, <1>4, SpecSteps, PTL DEF ImplementsDelivery, Promise!Spec
=============================================================================
