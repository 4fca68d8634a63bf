------------------------------ MODULE Planning ------------------------------
(***************************************************************************)
(* The plan handler and its BundlePacker: which of the new data items go   *)
(* into which bundle plan, and when.  It refines the choice PlanStart of   *)
(* BundlePipeline leaves open; here a plan is inserted in one step.        *)
(***************************************************************************)
EXTENDS Naturals, Sequences, FiniteSets, FiniteSetsExt, Functions

CONSTANTS
    Items,           \* data item ids
    Size,            \* byte count of each item
    Feature,         \* premium feature type of each item, "default" if none
    MaxBundleBytes,  \* maxTotalDataItemsByteCount
    MaxItemBytes,    \* maxSingleDataItemByteCount
    MaxItems,        \* maxDataItemsCount
    Window,          \* rows getNewDataItems reads (maxDataItemsPerBundle * 5)
    MaxArrivals,     \* bound: items uploaded
    MaxFaults        \* bound: runs of the handler that fail, plans given up and repacked

ASSUME LimitsAssumption ==
    /\ MaxBundleBytes \in Nat /\ MaxItemBytes \in Nat
    /\ MaxItems \in Nat \ {0} /\ Window \in Nat \ {0}
    /\ MaxArrivals \in Nat /\ MaxFaults \in Nat
ASSUME SizeAssumption == Size \in [Items -> Nat] /\ IsFiniteSet(Items)

VARIABLES
    order,    \* uploaded items, by uploaded_date
    aged,     \* how many of them are older than the overdue threshold
    fresh,    \* items in new_data_item
    sent,     \* bundle plans inserted: the items of each
    pc,       \* "idle", "packing" or "sending"
    todo,     \* rows read and not packed yet, by their places in order
    plans,    \* plans of this pass, numbered in the order they were opened
    adrift,   \* plans of failed passes whose inserts still wait for their turn
    faults

vars == <<order, aged, fresh, sent, pc, todo, plans, adrift, faults>>

Overdue(i) == \E k \in 1..aged : order[k] = i

(***************************************************************************)
(* BundlePacker.                                                           *)
(***************************************************************************)
planHasCapacity(plan) == /\ Cardinality(plan.items) < MaxItems
                         /\ plan.bytes < MaxBundleBytes

\* Mutant: the byte limit is checked before the item's bytes are counted.
FitsByPlanAlone(i, plan) == /\ plan.bytes <= MaxBundleBytes
                            /\ Cardinality(plan.items) + 1 <= MaxItems
fitsIntoBundle(i, plan) == /\ plan.bytes + Size[i] <= MaxBundleBytes
                           /\ Cardinality(plan.items) + 1 <= MaxItems

PlanOf(i) == [items |-> {i}, bytes |-> Size[i], kind |-> Feature[i],
              overdue |-> Overdue(i)]
Put(i, plan) == [items |-> plan.items \cup {i}, bytes |-> plan.bytes + Size[i],
                 kind |-> plan.kind, overdue |-> plan.overdue \/ Overdue(i)]

\* Each feature type is packed apart: plans of another type are not candidates.
Candidates(i) == {k \in DOMAIN plans : /\ plans[k].kind = Feature[i]
                                       /\ fitsIntoBundle(i, plans[k])}
\* Mutant: an item is tried in the last plan only.
PackLastOnly(i) ==
    plans' = IF Len(plans) \in Candidates(i)
             THEN [plans EXCEPT ![Len(plans)] = Put(i, @)]
             ELSE Append(plans, PlanOf(i))
packDataItem(i) ==
    plans' = IF Candidates(i) = {} THEN Append(plans, PlanOf(i))
             ELSE [plans EXCEPT ![Min(Candidates(i))] = Put(i, @)]

Oversize(i) == Size[i] > MaxItemBytes

(***************************************************************************)
(* The handler: read, pack item by item, insert the plans that are full or *)
(* hold an overdue item, again until no plan qualifies.                    *)
(***************************************************************************)

getNewDataItems ==
    LET rows == {k \in DOMAIN order : order[k] \in fresh}
    IN  {k \in rows : Cardinality({j \in rows : j < k}) < Window}

Read ==
    /\ pc = "idle" /\ fresh # {}
    /\ pc' = "packing" /\ todo' = getNewDataItems /\ plans' = <<>>
    /\ UNCHANGED <<order, aged, fresh, sent, adrift, faults>>

Pack ==
    /\ pc = "packing" /\ todo # {}
    /\ LET i == order[Min(todo)] IN
       \/ Oversize(i) /\ UNCHANGED plans
       \/ /\ ~Oversize(i) /\ Size[i] > MaxBundleBytes
          /\ plans' = Append(plans, PlanOf(i))
       \/ /\ ~Oversize(i) /\ Size[i] <= MaxBundleBytes
          /\ packDataItem(i)
    /\ todo' = todo \ {Min(todo)}
    /\ UNCHANGED <<order, aged, fresh, sent, pc, adrift, faults>>

\* Mutant: the overdue plans are not expedited.
QualifiesFullOnly(plan) == ~planHasCapacity(plan)
Qualifies(plan) == plan.overdue \/ ~planHasCapacity(plan)

\* Underweight plans are left in new_data_item.
Factor ==
    /\ pc = "packing" /\ todo = {}
    /\ pc' = "sending" /\ plans' = Restrict(plans, {k \in DOMAIN plans : Qualifies(plans[k])})
    /\ UNCHANGED <<order, aged, fresh, sent, todo, adrift, faults>>

\* Mutant: the planned_data_item rows are made from the plan, not from what the
\* DELETE returns.
InsertWhatWasRead(plan) ==
    /\ fresh' = fresh \ plan.items
    /\ sent' = sent \cup {plan.items}
\* An item that another pass has planned meanwhile is no longer found; nothing
\* notices when no item is left.
insertBundlePlan(plan) ==
    /\ fresh' = fresh \ plan.items
    /\ sent' = sent \cup {plan.items \cap fresh}
\* One by one (pLimit), in any order here.
Send(k) ==
    /\ pc = "sending" /\ k \in DOMAIN plans
    /\ insertBundlePlan(plans[k])
    /\ plans' = Restrict(plans, DOMAIN plans \ {k})
    /\ UNCHANGED <<order, aged, pc, todo, adrift, faults>>
SendAdrift(plan) ==
    /\ plan \in adrift /\ insertBundlePlan(plan)
    /\ adrift' = adrift \ {plan}
    /\ UNCHANGED <<order, aged, pc, todo, plans, faults>>

\* The next pass of the loop, or the next tick, reads again.
EndPass ==
    /\ pc = "sending" /\ DOMAIN plans = {}
    /\ pc' = "idle"
    /\ UNCHANGED <<order, aged, fresh, sent, todo, plans, adrift, faults>>

\* Before anything is inserted the pass is simply lost.
Fail ==
    /\ pc = "packing" /\ faults < MaxFaults
    /\ faults' = faults + 1 /\ pc' = "idle"
    /\ todo' = {} /\ plans' = <<>>
    /\ UNCHANGED <<order, aged, fresh, sent, adrift>>

\* One insert fails, or the enqueue after it: Promise.all rejects and the handler may
\* start again, while the inserts behind it go on.
FailSend(k) ==
    /\ pc = "sending" /\ k \in DOMAIN plans /\ faults < MaxFaults
    /\ faults' = faults + 1 /\ pc' = "idle"
    /\ insertBundlePlan(plans[k]) \/ UNCHANGED <<fresh, sent>>
    /\ adrift' = adrift \cup {plans[l] : l \in DOMAIN plans \ {k}}
    /\ plans' = <<>>
    /\ UNCHANGED <<order, aged, todo>>

(***************************************************************************)
(* Around it: items arrive and age; a plan whose bundle failed comes back, *)
(* with the uploaded_date its items had.                                   *)
(***************************************************************************)
Arrive(i) ==
    /\ Len(order) < MaxArrivals /\ \A k \in DOMAIN order : order[k] # i
    /\ order' = Append(order, i) /\ fresh' = fresh \cup {i}
    /\ UNCHANGED <<aged, sent, pc, todo, plans, adrift, faults>>

Age ==
    /\ aged < Len(order) /\ aged' = aged + 1
    /\ UNCHANGED <<order, fresh, sent, pc, todo, plans, adrift, faults>>

Repack(S) ==
    /\ S \in sent \ {{}} /\ faults < MaxFaults /\ faults' = faults + 1
    /\ sent' = sent \ {S} /\ fresh' = fresh \cup S
    /\ UNCHANGED <<order, aged, pc, todo, plans, adrift>>

Init ==
    /\ order = <<>> /\ aged = 0 /\ fresh = {} /\ sent = {}
    /\ pc = "idle" /\ todo = {} /\ plans = <<>>
    /\ adrift = {} /\ faults = 0

Handler == Read \/ Pack \/ Factor \/ EndPass \/ \E k \in DOMAIN plans : Send(k)
Next == \/ Handler \/ Fail \/ Age
        \/ \E plan \in adrift : SendAdrift(plan)
        \/ \E k \in DOMAIN plans : FailSend(k)
        \/ \E i \in Items : Arrive(i)
        \/ \E S \in sent : Repack(S)

Spec == Init /\ [][Next]_vars
\* The scheduler's tick starts the handler again and again, and time passes.
FairSpec == Spec /\ WF_vars(Handler) /\ WF_vars(Age)

(***************************************************************************)
(* Properties.                                                             *)
(***************************************************************************)

\* No bundle plan is over a limit of the packer, by what its items really weigh:
\* only an item that is too large for any bundle has one, alone.
PlansFit ==
    \A S \in sent \cup {plans[k].items : k \in DOMAIN plans} \cup {plan.items : plan \in adrift} :
        /\ Cardinality(S) <= MaxItems
        /\ SumFunctionOnSet(Size, S) <= MaxBundleBytes \/ Cardinality(S) = 1
        /\ \A i, j \in S : Feature[i] = Feature[j]

\* Each uploaded item is in new_data_item or in one bundle plan, never in both, in
\* two or in none, although a plan is packed from rows read before and the inserts of
\* a pass that failed go on beside the next pass, which may have read their items.
Partition ==
    \A i \in Items : (\E k \in DOMAIN order : order[k] = i) =>
        Cardinality({S \in sent : i \in S}) = IF i \in fresh THEN 0 ELSE 1

\* While it packs, no item would have fit into a plan opened before its own: two
\* plans of one feature type are never both so light that one would do.
FirstFit ==
    pc = "packing" => \A l \in DOMAIN plans : \A k \in 1..(l - 1), i \in plans[l].items :
        plans[k].kind = Feature[i] => ~fitsIntoBundle(i, plans[k])

\* An overdue item that the packer accepts leaves new_data_item in the end.
OverdueLeaves ==
    \A i \in Items : (i \in fresh /\ Overdue(i) /\ ~Oversize(i)) ~> (i \notin fresh)
=============================================================================
