--------------------------- MODULE PlanningProofs ---------------------------
(***************************************************************************)
(* That the plans of the plan handler keep the packer's limits, that no    *)
(* item is in two places, and that first fit leaves no gap, for any items, *)
(* sizes, limits, window and number of failures.                           *)
(***************************************************************************)
EXTENDS Planning, SumTheorems, TLAPS

(***************************************************************************)
(* The invariant.                                                          *)
(***************************************************************************)
Plan == [items : SUBSET Items, bytes : Nat, kind : {Feature[i] : i \in Items}, overdue : BOOLEAN]

\* What a plan is for, whether it is still being packed or in the database.
Fits(S) ==
    /\ S \in SUBSET Items /\ Cardinality(S) <= MaxItems
    /\ SumFunctionOnSet(Size, S) <= MaxBundleBytes \/ Cardinality(S) = 1
    /\ \A i, j \in S : Feature[i] = Feature[j]

\* A plan's running totals are those of its items.
Counted(plan) ==
    /\ plan \in Plan /\ Fits(plan.items)
    /\ plan.bytes = SumFunctionOnSet(Size, plan.items)
    /\ \A i \in plan.items : Feature[i] = plan.kind

Uploaded == {order[k] : k \in DOMAIN order}

\* The items that were uploaded, each at one place.
Places ==
    /\ order \in Seq(Items) /\ \A j, k \in DOMAIN order : order[j] = order[k] => j = k
    /\ todo \in SUBSET DOMAIN order
    /\ fresh \subseteq Uploaded
    /\ pc \in {"idle", "packing", "sending"}

\* The plans of a pass have no item in common and are numbered as they were opened.
Opened ==
    /\ \A k \in DOMAIN plans : Counted(plans[k])
    /\ \A k, l \in DOMAIN plans : k # l => plans[k].items \cap plans[l].items = {}
    /\ pc = "packing" => plans \in Seq(Plan)

\* What is packed was uploaded, and no row is packed twice in a pass.  That it is still
\* in new_data_item cannot be said: inserts of another pass may take it.
Current ==
    /\ \A k \in DOMAIN plans : plans[k].items \subseteq Uploaded
    /\ pc = "packing" => \A k \in todo : \A l \in DOMAIN plans : order[k] \notin plans[l].items

\* So were the plans that wait behind a failed insert.
Waiting == \A plan \in adrift : Counted(plan) /\ plan.items \subseteq Uploaded

\* What was sent left new_data_item, once.
Moved ==
    /\ \A S \in sent : Fits(S) /\ S \cap fresh = {} /\ S \subseteq Uploaded
    /\ \A S, T \in sent : S # T => S \cap T = {}
    /\ \A k \in DOMAIN order : order[k] \in fresh \/ \E S \in sent : order[k] \in S

Inv == Places /\ Opened /\ Current /\ Waiting /\ Moved /\ FirstFit

LEMMA FiniteItems == \A S \in SUBSET Items : IsFiniteSet(S) /\ \A i \in S : Size[i] \in Nat
BY SizeAssumption, FS_Subset

\* What is left of a plan keeps the limits that the plan kept.
LEMMA LessFits ==
    ASSUME NEW S, Fits(S), NEW T \in SUBSET S
    PROVE  Fits(T)
<1>1. S \in SUBSET Items /\ T \in SUBSET Items /\ IsFiniteSet(S) /\ IsFiniteSet(T)
  BY FiniteItems, FS_Subset DEF Fits
<1>2. Cardinality(T) <= Cardinality(S) /\ Cardinality(S) \in Nat /\ Cardinality(T) \in Nat
  BY <1>1, FS_Subset, FS_CardinalityType
<1>3. Cardinality(T) <= MaxItems
  BY <1>2, LimitsAssumption DEF Fits
<1>4. SumFunctionOnSet(Size, T) <= MaxBundleBytes \/ Cardinality(T) = 1
  <2>1. CASE Cardinality(S) = 1
    <3>1. CASE Cardinality(T) = 0
      <4>1. T = {}
        BY <1>1, <3>1, FS_EmptySet
      <4> QED BY <4>1, SumEmpty, LimitsAssumption
    <3> QED BY <1>2, <2>1, <3>1
  <2>2. CASE SumFunctionOnSet(Size, S) <= MaxBundleBytes
    <3>1. \A i \in S : Size[i] \in Nat
      BY <1>1, FiniteItems
    <3>2. /\ SumFunctionOnSet(Size, T) <= SumFunctionOnSet(Size, S)
          /\ SumFunctionOnSet(Size, T) \in Nat /\ SumFunctionOnSet(Size, S) \in Nat
      BY <1>1, <3>1, SumSubset, SumNat
    <3> QED BY <2>2, <3>2, LimitsAssumption
  <2> QED BY <2>1, <2>2 DEF Fits
<1> QED BY <1>1, <1>3, <1>4 DEF Fits

(***************************************************************************)
(* BundlePacker.                                                           *)
(***************************************************************************)

\* A plan that is opened holds its item, alone.
LEMMA PlanOfCounted ==
    ASSUME NEW i \in Items
    PROVE  Counted(PlanOf(i)) /\ PlanOf(i).items = {i}
<1> DEFINE plan == PlanOf(i)
<1>1. plan.items = {i} /\ plan.bytes = Size[i] /\ plan.kind = Feature[i] /\ plan \in Plan
  BY SizeAssumption DEF PlanOf, Plan, Overdue
<1> HIDE DEF plan
<1>2. Cardinality({i}) = 1
  BY FS_Singleton
<1>3. SumFunctionOnSet(Size, {i}) = Size[i]
  <2>1. Size[i] \in Int
    BY SizeAssumption
  <2> QED BY <2>1, SumSingleton
<1>4. Fits({i})
  BY <1>2, LimitsAssumption DEF Fits
<1>5. Counted(plan) /\ plan.items = {i}
  BY <1>1, <1>3, <1>4 DEF Counted
<1> QED BY <1>5 DEF plan

\* An item that fits can be put into a plan that does not hold it.
LEMMA PutCounted ==
    ASSUME NEW i \in Items, NEW plan, Counted(plan), i \notin plan.items,
           fitsIntoBundle(i, plan), plan.kind = Feature[i]
    PROVE  /\ Counted(Put(i, plan)) /\ Put(i, plan).items = plan.items \cup {i}
           /\ Put(i, plan).kind = plan.kind /\ Put(i, plan).bytes >= plan.bytes
           /\ Cardinality(Put(i, plan).items) >= Cardinality(plan.items)
<1> DEFINE new == Put(i, plan)
           S == plan.items
<1>1. /\ plan \in Plan /\ S \in SUBSET Items /\ Size[i] \in Nat
      /\ plan.bytes = SumFunctionOnSet(Size, S) /\ plan.bytes \in Nat
  BY SizeAssumption DEF Counted, Plan
<1>2. /\ new.items = S \cup {i} /\ new.bytes = plan.bytes + Size[i] /\ new.kind = plan.kind
      /\ new \in Plan
  <2>1. new = [items |-> S \cup {i}, bytes |-> plan.bytes + Size[i], kind |-> plan.kind,
               overdue |-> plan.overdue \/ Overdue(i)]
    BY DEF Put
  <2>2. plan.kind \in {Feature[j] : j \in Items} /\ (plan.overdue \/ Overdue(i)) \in BOOLEAN
    BY <1>1 DEF Plan, Overdue
  <2>3. S \cup {i} \in SUBSET Items /\ plan.bytes + Size[i] \in Nat
    BY <1>1
  <2> HIDE DEF new, S
  <2> QED BY <2>1, <2>2, <2>3 DEF Plan
<1>3. Cardinality(S \cup {i}) = Cardinality(S) + 1 /\ Cardinality(S) \in Nat
  BY <1>1, FiniteItems, FS_AddElement, FS_CardinalityType
<1>4. SumFunctionOnSet(Size, S \cup {i}) = Size[i] + SumFunctionOnSet(Size, S)
  <2>1. IsFiniteSet(S) /\ \A x \in S \cup {i} : Size[x] \in Int
    BY <1>1, FiniteItems
  <2> QED BY <2>1, SumAdd
<1> HIDE DEF new, S
<1>5. plan.bytes + Size[i] <= MaxBundleBytes /\ Cardinality(S) + 1 <= MaxItems
  BY DEF fitsIntoBundle, S
<1>6. \A j \in S \cup {i} : Feature[j] = plan.kind
  BY DEF Counted, S
<1>7. Fits(S \cup {i})
  BY <1>1, <1>3, <1>4, <1>5, <1>6, LimitsAssumption DEF Fits
<1>8. Counted(new)
  BY <1>1, <1>2, <1>4, <1>6, <1>7 DEF Counted
<1>9. new.bytes >= plan.bytes /\ Cardinality(new.items) >= Cardinality(plan.items)
  BY <1>1, <1>2, <1>3 DEF S
<1> QED BY <1>2, <1>8, <1>9 DEF new, S

Refuses(plan, i) == plan.kind = Feature[i] => ~fitsIntoBundle(i, plan)

\* A plan that grows refuses what it refused.
LEMMA StillRefuses ==
    ASSUME NEW i \in Items, NEW j \in Items, NEW plan, Counted(plan), j \notin plan.items,
           fitsIntoBundle(j, plan), plan.kind = Feature[j], Refuses(plan, i)
    PROVE  Refuses(Put(j, plan), i)
<1> DEFINE new == Put(j, plan)
<1>1. /\ new.kind = plan.kind /\ new.bytes >= plan.bytes
      /\ Cardinality(new.items) >= Cardinality(plan.items)
      /\ new.items = plan.items \cup {j}
  BY PutCounted
<1>2. /\ plan.bytes \in Nat /\ new.bytes \in Nat /\ Size[i] \in Nat
      /\ Cardinality(plan.items) \in Nat /\ Cardinality(new.items) \in Nat
  <2>1. Counted(new)
    BY PutCounted
  <2> HIDE DEF new
  <2>2. IsFiniteSet(plan.items) /\ IsFiniteSet(new.items)
    BY <2>1, FiniteItems DEF Counted, Fits
  <2> QED BY <2>1, <2>2, FS_CardinalityType, SizeAssumption DEF Counted, Plan
<1> HIDE DEF new
<1>3. Refuses(new, i)
  BY <1>1, <1>2, LimitsAssumption DEF Refuses, fitsIntoBundle
<1> QED BY <1>3 DEF new

LEMMA MinIs ==
    ASSUME NEW S \in SUBSET Nat, S # {}
    PROVE  Min(S) \in S /\ \A n \in S : Min(S) <= n
BY SmallestNat DEF Min

\* What packing one item does: it is skipped, opens a plan that it would have fit no
\* earlier one of, or goes into the first plan it fits into.
Packs(i) ==
    \/ UNCHANGED plans
    \/ plans' = Append(plans, PlanOf(i)) /\ \A l \in DOMAIN plans : Refuses(plans[l], i)
    \/ \E c \in DOMAIN plans :
          /\ plans' = [plans EXCEPT ![c] = Put(i, @)]
          /\ plans[c].kind = Feature[i] /\ fitsIntoBundle(i, plans[c])
          /\ \A l \in 1..(c - 1) : Refuses(plans[l], i)

LEMMA PackIs ==
    ASSUME Inv, Pack
    PROVE  /\ UNCHANGED <<order, aged, fresh, sent, pc, adrift, faults>> /\ pc = "packing"
           /\ \E k \in todo : todo' = todo \ {k} /\ order[k] \in Items /\ Packs(order[k])
<1> DEFINE k == Min(todo)
           i == order[k]
<1>1. k \in todo
  <2>1. todo \in SUBSET Nat /\ todo # {}
    BY DEF Inv, Places, Pack
  <2> QED BY <2>1, MinIs
<1>2. k \in DOMAIN order /\ i \in Items
  BY <1>1 DEF Inv, Places
<1>3. plans \in Seq(Plan) /\ \A l \in DOMAIN plans : Counted(plans[l])
  BY DEF Pack, Inv, Opened
<1>4. todo' = todo \ {k} /\ UNCHANGED <<order, aged, fresh, sent, pc, adrift, faults>> /\ pc = "packing"
  BY DEF Pack
<1>5. \/ UNCHANGED plans
      \/ Size[i] > MaxBundleBytes /\ plans' = Append(plans, PlanOf(i))
      \/ packDataItem(i)
  BY DEF Pack
<1> HIDE DEF k, i
<1>6. Size[i] \in Nat
  BY <1>2, SizeAssumption
<1>7. Packs(i)
  <2>1. CASE UNCHANGED plans
    BY <2>1 DEF Packs
  <2>2. CASE Size[i] > MaxBundleBytes /\ plans' = Append(plans, PlanOf(i))
    <3>1. ASSUME NEW l \in DOMAIN plans PROVE ~fitsIntoBundle(i, plans[l])
      <4>1. plans[l].bytes \in Nat
        BY <1>3 DEF Counted, Plan
      <4> QED BY <1>6, <2>2, <4>1, LimitsAssumption DEF fitsIntoBundle
    <3> QED BY <2>2, <3>1 DEF Packs, Refuses
  <2>3. CASE packDataItem(i)
    <3>1. CASE Candidates(i) = {}
      <4>1. plans' = Append(plans, PlanOf(i))
        BY <2>3, <3>1 DEF packDataItem
      <4>2. \A l \in DOMAIN plans : Refuses(plans[l], i)
        BY <3>1 DEF Candidates, Refuses
      <4> QED BY <4>1, <4>2 DEF Packs
    <3>2. CASE Candidates(i) # {}
      <4> DEFINE c == Min(Candidates(i))
      <4>1. DOMAIN plans = 1..Len(plans) /\ Len(plans) \in Nat
        BY <1>3
      <4>2. c \in Candidates(i) /\ \A n \in Candidates(i) : c <= n
        <5>1. Candidates(i) \in SUBSET Nat
          BY <4>1 DEF Candidates
        <5> QED BY <3>2, <5>1, MinIs
      <4>3. plans' = [plans EXCEPT ![c] = Put(i, @)]
        BY <2>3, <3>2 DEF packDataItem
      <4> HIDE DEF c
      <4>4. /\ c \in DOMAIN plans /\ plans[c].kind = Feature[i] /\ fitsIntoBundle(i, plans[c])
        BY <4>2 DEF Candidates
      <4>5. ASSUME NEW l \in 1..(c - 1) PROVE Refuses(plans[l], i)
        <5>1. l \in DOMAIN plans /\ ~(c <= l)
          BY <4>1, <4>4
        <5>2. l \notin Candidates(i)
          BY <4>2, <5>1
        <5> QED BY <5>1, <5>2 DEF Candidates, Refuses
      <4> QED BY <4>3, <4>4, <4>5 DEF Packs
    <3> QED BY <3>1, <3>2
  <2> QED BY <1>5, <2>1, <2>2, <2>3
<1> QED BY <1>1, <1>2, <1>4, <1>7 DEF i

\* An item that is packed leaves the plans as the invariant wants them: skipped.
LEMMA Skipped ==
    ASSUME Inv, pc = "packing", NEW k \in todo, todo' = todo \ {k},
           UNCHANGED <<order, fresh, sent, pc, adrift>>, UNCHANGED plans
    PROVE  Inv'
<1>1. Places' /\ Moved' /\ Waiting'
  BY DEF Inv, Places, Moved, Waiting, Counted, Fits, Uploaded
<1>2. Opened' /\ FirstFit'
  BY DEF Inv, Opened, Counted, Fits, FirstFit, fitsIntoBundle
<1>3. Current'
  BY DEF Inv, Current, Uploaded
<1> QED BY <1>1, <1>2, <1>3 DEF Inv

\* The rows not packed yet are of other items than the one packed.
LEMMA OthersLeft ==
    ASSUME Inv, pc = "packing", NEW k \in todo
    PROVE  /\ order[k] \in Items /\ order[k] \in Uploaded
           /\ \A l \in DOMAIN plans : order[k] \notin plans[l].items
           /\ \A j \in todo \ {k} : order[j] # order[k]
<1>1. order[k] \in Items /\ k \in DOMAIN order /\ \A j \in todo \ {k} : order[j] # order[k]
  BY DEF Inv, Places
<1> QED BY <1>1 DEF Inv, Current, Uploaded

\* The plans of a pass, each of counted items.
LEMMA PlansAre ==
    ASSUME Inv, pc = "packing"
    PROVE  /\ plans \in Seq(Plan) /\ DOMAIN plans = 1..Len(plans) /\ Len(plans) \in Nat
           /\ \A l \in DOMAIN plans : /\ plans[l] \in Plan /\ Counted(plans[l])
                                      /\ plans[l].items \in SUBSET Items
BY DEF Inv, Opened, Counted, Fits

\* A new plan is opened.
LEMMA NewOpened ==
    ASSUME Inv, pc = "packing", NEW k \in todo, todo' = todo \ {k},
           UNCHANGED <<order, fresh, sent, pc, adrift>>,
           plans' = Append(plans, PlanOf(order[k])),
           \A l \in DOMAIN plans : Refuses(plans[l], order[k])
    PROVE  Inv'
<1> DEFINE i == order[k]
           new == PlanOf(i)
           n == Len(plans) + 1
<1>1. /\ i \in Items /\ i \in Uploaded /\ \A l \in DOMAIN plans : i \notin plans[l].items
      /\ \A j \in todo \ {k} : order[j] # i
  BY OthersLeft
<1>2. /\ plans \in Seq(Plan) /\ DOMAIN plans = 1..Len(plans) /\ Len(plans) \in Nat
      /\ \A l \in DOMAIN plans : /\ plans[l] \in Plan /\ Counted(plans[l])
                                 /\ plans[l].items \in SUBSET Items
  BY PlansAre
<1>3. Counted(new) /\ new.items = {i} /\ new \in Plan
  BY <1>1, PlanOfCounted DEF Counted
<1>4. \A l \in DOMAIN plans : Refuses(plans[l], i)
  OBVIOUS
<1>5. plans' = Append(plans, new)
  OBVIOUS
<1> HIDE DEF i, new
<1>6. /\ plans' \in Seq(Plan) /\ DOMAIN plans' = 1..n /\ plans'[n] = new
      /\ \A l \in DOMAIN plans : plans'[l] = plans[l]
      /\ \A l \in DOMAIN plans' : l = n \/ l \in DOMAIN plans
      /\ n \in DOMAIN plans' /\ \A l \in DOMAIN plans : l \in DOMAIN plans' /\ l < n
  BY <1>2, <1>3, <1>5
<1> HIDE DEF n
<1>7. Places' /\ Moved' /\ Waiting'
  BY DEF Inv, Places, Moved, Waiting, Counted, Fits, Uploaded
<1>8. Opened'
  <2>1. ASSUME NEW l \in DOMAIN plans' PROVE Counted(plans'[l])
    BY <1>2, <1>3, <1>6
  <2>2. ASSUME NEW l \in DOMAIN plans', NEW m \in DOMAIN plans', l # m
        PROVE  plans'[l].items \cap plans'[m].items = {}
    <3>1. CASE l = n
      BY <1>1, <1>3, <1>6, <2>2, <3>1
    <3>2. CASE m = n
      BY <1>1, <1>3, <1>6, <2>2, <3>2
    <3>3. CASE l \in DOMAIN plans /\ m \in DOMAIN plans
      BY <1>6, <2>2, <3>3 DEF Inv, Opened
    <3> QED BY <1>6, <3>1, <3>2, <3>3
  <2>3. (\A l \in DOMAIN plans : Counted(plans[l]))'
    BY <2>1 DEF Counted, Fits
  <2> QED BY <1>6, <2>2, <2>3 DEF Opened
<1>9. Current'
  <2>1. \A l \in DOMAIN plans' : plans'[l].items \subseteq Uploaded
    BY <1>1, <1>3, <1>6 DEF Inv, Current
  <2>2. \A j \in todo' : \A l \in DOMAIN plans' : order[j] \notin plans'[l].items
    BY <1>1, <1>3, <1>6 DEF Inv, Current
  <2> QED BY <2>1, <2>2 DEF Current, Uploaded
<1>10. FirstFit'
  <2>1. ASSUME NEW l \in DOMAIN plans', NEW m \in 1..(l - 1), NEW h \in plans'[l].items
        PROVE  m \in DOMAIN plans /\ plans'[m] = plans[m] /\ Refuses(plans[m], h)
    <3>1. m \in DOMAIN plans
      BY <1>2, <1>6 DEF n
    <3>2. CASE l = n
      BY <1>3, <1>4, <1>6, <3>1, <3>2
    <3>3. CASE l \in DOMAIN plans
      BY <1>6, <3>1, <3>3 DEF Inv, FirstFit, Refuses
    <3> QED BY <1>6, <3>1, <3>2, <3>3
  <2> QED BY <2>1 DEF FirstFit, Refuses, fitsIntoBundle
<1> QED BY <1>7, <1>8, <1>9, <1>10 DEF Inv

\* The item goes into the first plan it fits into.
LEMMA PutIn ==
    ASSUME Inv, pc = "packing", NEW k \in todo, todo' = todo \ {k},
           UNCHANGED <<order, fresh, sent, pc, adrift>>, NEW c \in DOMAIN plans,
           plans' = [plans EXCEPT ![c] = Put(order[k], @)],
           plans[c].kind = Feature[order[k]], fitsIntoBundle(order[k], plans[c]),
           \A l \in 1..(c - 1) : Refuses(plans[l], order[k])
    PROVE  Inv'
<1> DEFINE i == order[k]
           new == Put(i, plans[c])
<1>1. /\ i \in Items /\ i \in Uploaded /\ \A l \in DOMAIN plans : i \notin plans[l].items
      /\ \A j \in todo \ {k} : order[j] # i
  BY OthersLeft
<1>2. /\ plans \in Seq(Plan) /\ DOMAIN plans = 1..Len(plans) /\ Len(plans) \in Nat
      /\ \A l \in DOMAIN plans : /\ plans[l] \in Plan /\ Counted(plans[l])
                                 /\ plans[l].items \in SUBSET Items
  BY PlansAre
<1>3. Counted(new) /\ new.items = plans[c].items \cup {i} /\ new \in Plan
  BY <1>1, <1>2, PutCounted DEF Counted
<1>4. \A l \in 1..(c - 1) : Refuses(plans[l], i)
  OBVIOUS
<1>5. ASSUME NEW h \in Items, Refuses(plans[c], h) PROVE Refuses(new, h)
  BY <1>1, <1>2, <1>5, StillRefuses
<1>6. plans' = [plans EXCEPT ![c] = new]
  OBVIOUS
<1> HIDE DEF i, new
<1>7. /\ plans' \in Seq(Plan) /\ DOMAIN plans' = DOMAIN plans /\ plans'[c] = new
      /\ \A l \in DOMAIN plans \ {c} : plans'[l] = plans[l]
  BY <1>2, <1>3, <1>6
<1>8. Places' /\ Moved' /\ Waiting'
  BY DEF Inv, Places, Moved, Waiting, Counted, Fits, Uploaded
<1>9. \A l \in DOMAIN plans : \A x \in plans'[l].items : x \in plans[l].items \/ (l = c /\ x = i)
  BY <1>3, <1>7
<1>10. Opened'
  <2>1. ASSUME NEW l \in DOMAIN plans' PROVE Counted(plans'[l])
    BY <1>2, <1>3, <1>7
  <2>2. ASSUME NEW l \in DOMAIN plans, NEW m \in DOMAIN plans, l # m
        PROVE  plans'[l].items \cap plans'[m].items = {}
    <3>1. plans[l].items \cap plans[m].items = {}
      BY <2>2 DEF Inv, Opened
    <3>2. i \notin plans[l].items /\ i \notin plans[m].items
      BY <1>1
    <3> QED BY <1>9, <2>2, <3>1, <3>2
  <2>3. (\A l \in DOMAIN plans : Counted(plans[l]))'
    BY <2>1 DEF Counted, Fits
  <2> QED BY <1>7, <2>2, <2>3 DEF Opened
<1>11. Current'
  <2>1. \A l \in DOMAIN plans' : plans'[l].items \subseteq Uploaded
    BY <1>1, <1>7, <1>9 DEF Inv, Current
  <2>2. \A j \in todo' : \A l \in DOMAIN plans' : order[j] \notin plans'[l].items
    BY <1>1, <1>7, <1>9 DEF Inv, Current
  <2> QED BY <2>1, <2>2 DEF Current, Uploaded
<1>12. FirstFit'
  <2>1. ASSUME NEW l \in DOMAIN plans', NEW m \in 1..(l - 1), NEW h \in plans'[l].items
        PROVE  Refuses(plans'[m], h)
    <3>1. m \in DOMAIN plans /\ l \in DOMAIN plans /\ m < l
      BY <1>2, <1>7
    <3>2. h \in Items
      BY <1>1, <1>2, <1>9, <3>1
    <3>3. Refuses(plans[m], h)
      <4>1. CASE h \in plans[l].items
        BY <3>1, <4>1 DEF Inv, FirstFit, Refuses
      <4>2. CASE l = c /\ h = i
        BY <1>4, <4>2
      <4> QED BY <1>9, <3>1, <4>1, <4>2
    <3>4. CASE m = c
      BY <1>5, <1>7, <3>2, <3>3, <3>4
    <3>5. CASE m # c
      BY <1>7, <3>1, <3>3, <3>5
    <3> QED BY <3>4, <3>5
  <2> QED BY <2>1 DEF FirstFit, Refuses, fitsIntoBundle
<1> QED BY <1>8, <1>10, <1>11, <1>12 DEF Inv

LEMMA PackStep == Inv /\ Pack => Inv'
<1> SUFFICES ASSUME Inv, Pack PROVE Inv'
  OBVIOUS
<1>1. UNCHANGED <<order, aged, fresh, sent, pc, adrift, faults>> /\ pc = "packing"
  BY PackIs
<1>2. PICK k \in todo : todo' = todo \ {k} /\ Packs(order[k])
  BY PackIs
<1>3. CASE UNCHANGED plans
  BY <1>1, <1>2, <1>3, Skipped
<1>4. CASE /\ plans' = Append(plans, PlanOf(order[k]))
           /\ \A l \in DOMAIN plans : Refuses(plans[l], order[k])
  BY <1>1, <1>2, <1>4, NewOpened
<1>5. ASSUME NEW c \in DOMAIN plans, plans' = [plans EXCEPT ![c] = Put(order[k], @)],
             plans[c].kind = Feature[order[k]], fitsIntoBundle(order[k], plans[c]),
             \A l \in 1..(c - 1) : Refuses(plans[l], order[k])
      PROVE  Inv'
  BY <1>1, <1>2, <1>5, PutIn
<1> QED BY <1>2, <1>3, <1>4, <1>5 DEF Packs

(***************************************************************************)
(* The other steps.                                                        *)
(***************************************************************************)
LEMMA InitInv == Init => Inv
<1> SUFFICES ASSUME Init PROVE Inv
  OBVIOUS
<1>1. order = <<>> /\ DOMAIN order = {} /\ plans = <<>> /\ DOMAIN plans = {} /\ pc = "idle"
      /\ fresh = {} /\ sent = {} /\ todo = {} /\ adrift = {}
  BY DEF Init
<1>2. Places /\ Moved /\ Waiting
  BY <1>1 DEF Places, Moved, Waiting, Uploaded
<1>3. Opened /\ Current /\ FirstFit
  BY <1>1 DEF Opened, Current, FirstFit
<1> QED BY <1>2, <1>3 DEF Inv

LEMMA ReadStep == Inv /\ Read => Inv'
<1> SUFFICES ASSUME Inv, Read PROVE Inv'
  OBVIOUS
<1>1. /\ plans' = <<>> /\ DOMAIN plans' = {} /\ pc' = "packing" /\ UNCHANGED <<order, fresh, sent, adrift>>
      /\ todo' \in SUBSET DOMAIN order
  BY DEF Read, getNewDataItems
<1>2. Places' /\ Moved' /\ Waiting'
  BY <1>1 DEF Inv, Places, Moved, Waiting, Counted, Fits, Uploaded
<1>3. plans' \in Seq(Plan)
  BY <1>1
<1>4. Opened' /\ Current' /\ FirstFit'
  BY <1>1, <1>3 DEF Opened, Current, FirstFit
<1> QED BY <1>2, <1>4 DEF Inv

\* Plans are taken out of a pass that is not packing any more.
LEMMA Fewer ==
    ASSUME Opened, NEW D \in SUBSET DOMAIN plans, plans' = Restrict(plans, D), pc' # "packing"
    PROVE  /\ Opened' /\ FirstFit' /\ DOMAIN plans' = D
           /\ \A k \in D : plans'[k] = plans[k]
<1>1. DOMAIN plans' = D /\ \A k \in D : plans'[k] = plans[k]
  BY DEF Restrict
<1>2. (\A k \in DOMAIN plans : Counted(plans[k]))'
  BY <1>1 DEF Opened, Counted, Fits
<1>3. Opened' /\ FirstFit'
  BY <1>1, <1>2 DEF Opened, FirstFit
<1> QED BY <1>1, <1>3

LEMMA FactorStep == Inv /\ Factor => Inv'
<1> SUFFICES ASSUME Inv, Factor PROVE Inv'
  OBVIOUS
<1> DEFINE D == {k \in DOMAIN plans : Qualifies(plans[k])}
<1>1. /\ pc = "packing" /\ pc' = "sending" /\ plans' = Restrict(plans, D)
      /\ UNCHANGED <<order, fresh, sent, todo, adrift>> /\ D \in SUBSET DOMAIN plans
  BY DEF Factor
<1> HIDE DEF D
<1>2. /\ Opened' /\ FirstFit' /\ DOMAIN plans' = D /\ \A k \in D : plans'[k] = plans[k]
  BY <1>1, Fewer DEF Inv
<1>3. Places' /\ Moved' /\ Waiting'
  BY <1>1 DEF Inv, Places, Moved, Waiting, Counted, Fits, Uploaded
<1>4. Current'
  BY <1>1, <1>2 DEF Inv, Current, Uploaded
<1> QED BY <1>2, <1>3, <1>4 DEF Inv

\* An insert takes what is left of its plan out of new_data_item.
LEMMA InsertMoves ==
    ASSUME Places, Moved, NEW plan, Counted(plan), plan.items \subseteq Uploaded,
           insertBundlePlan(plan), UNCHANGED order
    PROVE  Moved' /\ fresh' \subseteq Uploaded
<1> DEFINE T == plan.items \cap fresh
<1>1. fresh' = fresh \ T /\ sent' = sent \cup {T}
  BY DEF insertBundlePlan
<1>2. Fits(T) /\ T \subseteq fresh /\ T \subseteq Uploaded
  <2>1. T \in SUBSET plan.items
    OBVIOUS
  <2> QED BY <2>1, LessFits DEF Counted
<1> HIDE DEF T
<1>3. ASSUME NEW S \in sent' PROVE Fits(S) /\ S \cap fresh' = {} /\ S \subseteq Uploaded
  BY <1>1, <1>2 DEF Moved
<1>4. \A S, U \in sent' : S # U => S \cap U = {}
  BY <1>1, <1>2 DEF Moved
<1>5. ASSUME NEW j \in DOMAIN order PROVE order[j] \in fresh' \/ \E S \in sent' : order[j] \in S
  BY <1>1 DEF Moved
<1>6. (\A S \in sent : Fits(S))'
  BY <1>3 DEF Fits
<1>7. Moved'
  BY <1>3, <1>4, <1>5, <1>6 DEF Moved, Uploaded
<1> QED BY <1>1, <1>7 DEF Places

LEMMA SendStep == ASSUME NEW k \in DOMAIN plans PROVE Inv /\ Send(k) => Inv'
<1> SUFFICES ASSUME Inv, Send(k) PROVE Inv'
  OBVIOUS
<1> DEFINE D == DOMAIN plans \ {k}
<1>1. /\ pc = "sending" /\ pc' = "sending" /\ plans' = Restrict(plans, D)
      /\ UNCHANGED <<order, todo, adrift>> /\ D \in SUBSET DOMAIN plans
      /\ insertBundlePlan(plans[k])
  BY DEF Send
<1>2. Counted(plans[k]) /\ plans[k].items \subseteq Uploaded
  BY DEF Inv, Opened, Current
<1>3. /\ Opened' /\ FirstFit' /\ DOMAIN plans' = D /\ \A l \in D : plans'[l] = plans[l]
  <2> HIDE DEF D
  <2> QED BY <1>1, Fewer DEF Inv
<1> HIDE DEF D
<1>4. Moved' /\ fresh' \subseteq Uploaded
  BY <1>1, <1>2, InsertMoves DEF Inv
<1>5. Places' /\ Waiting'
  BY <1>1, <1>4 DEF Inv, Places, Waiting, Counted, Fits, Uploaded
<1>6. Current'
  BY <1>1, <1>3 DEF Inv, Current, Uploaded
<1> QED BY <1>3, <1>4, <1>5, <1>6 DEF Inv

LEMMA SendAdriftStep == ASSUME NEW plan \in adrift PROVE Inv /\ SendAdrift(plan) => Inv'
<1> SUFFICES ASSUME Inv, SendAdrift(plan) PROVE Inv'
  OBVIOUS
<1>1. /\ UNCHANGED <<order, pc, todo, plans>> /\ adrift' = adrift \ {plan}
      /\ insertBundlePlan(plan)
  BY DEF SendAdrift
<1>2. Counted(plan) /\ plan.items \subseteq Uploaded
  BY DEF Inv, Waiting
<1>3. Moved' /\ fresh' \subseteq Uploaded
  BY <1>1, <1>2, InsertMoves DEF Inv
<1>4. Places' /\ Waiting'
  BY <1>1, <1>3 DEF Inv, Places, Waiting, Counted, Fits, Uploaded
<1>5. Opened' /\ Current' /\ FirstFit'
  BY <1>1 DEF Inv, Opened, Counted, Fits, Current, FirstFit, fitsIntoBundle, Uploaded
<1> QED BY <1>3, <1>4, <1>5 DEF Inv

\* A pass ends, or it fails while it packs.
LEMMA StopStep == Inv /\ (EndPass \/ Fail) => Inv'
<1> SUFFICES ASSUME Inv, EndPass \/ Fail PROVE Inv'
  OBVIOUS
<1>1. /\ UNCHANGED <<order, fresh, sent, adrift>> /\ pc' = "idle"
      /\ UNCHANGED <<todo, plans>> \/ (todo' = {} /\ plans' = <<>> /\ DOMAIN plans' = {})
  BY DEF EndPass, Fail
<1>2. Places' /\ Moved' /\ Waiting'
  BY <1>1 DEF Inv, Places, Moved, Waiting, Counted, Fits, Uploaded
<1>3. Opened' /\ Current' /\ FirstFit'
  BY <1>1 DEF Inv, Opened, Counted, Fits, Current, FirstFit, Uploaded
<1> QED BY <1>2, <1>3 DEF Inv

\* An insert fails: the plans behind it wait for theirs without the handler.
LEMMA FailSendStep == ASSUME NEW k \in DOMAIN plans PROVE Inv /\ FailSend(k) => Inv'
<1> SUFFICES ASSUME Inv, FailSend(k) PROVE Inv'
  OBVIOUS
<1>1. /\ pc' = "idle" /\ UNCHANGED <<order, todo>> /\ plans' = <<>> /\ DOMAIN plans' = {}
      /\ insertBundlePlan(plans[k]) \/ UNCHANGED <<fresh, sent>>
      /\ adrift' = adrift \cup {plans[l] : l \in DOMAIN plans \ {k}}
  BY DEF FailSend
<1>2. \A l \in DOMAIN plans : Counted(plans[l]) /\ plans[l].items \subseteq Uploaded
  BY DEF Inv, Opened, Current
<1>3. Moved' /\ fresh' \subseteq Uploaded
  <2>1. CASE insertBundlePlan(plans[k])
    BY <1>1, <1>2, <2>1, InsertMoves DEF Inv
  <2>2. CASE UNCHANGED <<fresh, sent>>
    BY <1>1, <2>2 DEF Inv, Places, Moved, Fits, Uploaded
  <2> QED BY <1>1, <2>1, <2>2
<1>4. Places'
  BY <1>1, <1>3 DEF Inv, Places, Uploaded
<1>5. Waiting'
  <2>1. \A plan \in adrift' : Counted(plan) /\ plan.items \subseteq Uploaded
    BY <1>1, <1>2 DEF Inv, Waiting
  <2>2. (\A plan \in adrift : Counted(plan))'
    BY <2>1 DEF Counted, Fits
  <2> QED BY <1>1, <2>1, <2>2 DEF Waiting, Uploaded
<1>6. Opened' /\ Current' /\ FirstFit'
  BY <1>1 DEF Opened, Current, FirstFit
<1> QED BY <1>3, <1>4, <1>5, <1>6 DEF Inv

LEMMA ArriveStep == ASSUME NEW i \in Items PROVE Inv /\ Arrive(i) => Inv'
<1> SUFFICES ASSUME Inv, Arrive(i) PROVE Inv'
  OBVIOUS
<1> DEFINE n == Len(order) + 1
<1>1. /\ order' = Append(order, i) /\ fresh' = fresh \cup {i} /\ UNCHANGED <<sent, pc, todo, plans, adrift>>
      /\ \A k \in DOMAIN order : order[k] # i
  BY DEF Arrive
<1>2. /\ order' \in Seq(Items) /\ DOMAIN order' = DOMAIN order \cup {n} /\ order'[n] = i
      /\ n \notin DOMAIN order /\ \A k \in DOMAIN order : order'[k] = order[k]
  BY <1>1 DEF Inv, Places
<1> HIDE DEF n
<1>3. Uploaded' = Uploaded \cup {i}
  BY <1>2 DEF Uploaded
<1>7. Places' /\ Waiting'
  <2>1. Places'
    BY <1>1, <1>2, <1>3 DEF Inv, Places, Uploaded
  <2>2. Waiting'
    BY <1>1, <1>3 DEF Inv, Waiting, Counted, Fits
  <2> QED BY <2>1, <2>2
<1>4. Opened' /\ FirstFit'
  BY <1>1 DEF Inv, Opened, Counted, Fits, FirstFit, fitsIntoBundle
<1>5. Current'
  BY <1>1, <1>2, <1>3 DEF Inv, Current, Places
<1>6. Moved'
  <2>1. ASSUME NEW S \in sent
        PROVE  Fits(S) /\ S \cap fresh' = {} /\ S \subseteq Uploaded'
    BY <1>1, <1>2, <1>3 DEF Inv, Moved, Uploaded
  <2>2. (\A S \in sent : Fits(S))'
    BY <1>1, <2>1 DEF Fits
  <2>3. \A S, U \in sent : S # U => S \cap U = {}
    BY DEF Inv, Moved
  <2>4. ASSUME NEW j \in DOMAIN order' PROVE order'[j] \in fresh' \/ \E S \in sent : order'[j] \in S
    BY <1>1, <1>2 DEF Inv, Moved
  <2> QED BY <1>1, <2>1, <2>2, <2>3, <2>4 DEF Moved
<1> QED BY <1>4, <1>5, <1>6, <1>7 DEF Inv

LEMMA AgeStep == Inv /\ Age => Inv'
<1> SUFFICES ASSUME Inv, Age PROVE Inv'
  OBVIOUS
<1>1. UNCHANGED <<order, fresh, sent, todo, plans, pc, adrift>>
  BY DEF Age
<1>2. Places' /\ Moved' /\ Waiting'
  BY <1>1 DEF Inv, Places, Moved, Waiting, Counted, Fits, Uploaded
<1>3. Opened' /\ Current' /\ FirstFit'
  BY <1>1 DEF Inv, Opened, Counted, Fits, Current, FirstFit, fitsIntoBundle, Uploaded
<1> QED BY <1>2, <1>3 DEF Inv

LEMMA RepackStep == ASSUME NEW S \in sent PROVE Inv /\ Repack(S) => Inv'
<1> SUFFICES ASSUME Inv, Repack(S) PROVE Inv'
  OBVIOUS
<1>1. UNCHANGED <<order, pc, todo, plans, adrift>> /\ sent' = sent \ {S} /\ fresh' = fresh \cup S
  BY DEF Repack
<1>2. Places' /\ Waiting'
  BY <1>1 DEF Inv, Places, Moved, Waiting, Counted, Fits, Uploaded
<1>3. Opened' /\ Current' /\ FirstFit'
  BY <1>1 DEF Inv, Opened, Counted, Fits, Current, FirstFit, fitsIntoBundle, Uploaded
<1>4. Moved'
  <2>1. ASSUME NEW U \in sent'
        PROVE  Fits(U) /\ U \cap fresh' = {} /\ U \subseteq Uploaded
    BY <1>1 DEF Inv, Moved
  <2>2. (\A U \in sent : Fits(U))'
    BY <2>1 DEF Fits
  <2> QED BY <1>1, <2>1, <2>2 DEF Inv, Moved, Uploaded
<1> QED BY <1>2, <1>3, <1>4 DEF Inv

\* Every step of the handler, and of what goes on around it, keeps the invariant.
THEOREM Packed == Spec => []Inv
<1>1. Init => Inv
  BY InitInv
<1>2. Inv /\ [Next]_vars => Inv'
  <2> SUFFICES ASSUME Inv, [Next]_vars PROVE Inv'
    OBVIOUS
  <2>1. CASE Read
    BY <2>1, ReadStep
  <2>2. CASE Pack
    BY <2>2, PackStep
  <2>3. CASE Factor
    BY <2>3, FactorStep
  <2>4. ASSUME NEW k \in DOMAIN plans, Send(k) PROVE Inv'
    BY <2>4, SendStep
  <2>5. CASE EndPass \/ Fail
    BY <2>5, StopStep
  <2>6. CASE Age
    BY <2>6, AgeStep
  <2>7. ASSUME NEW i \in Items, Arrive(i) PROVE Inv'
    BY <2>7, ArriveStep
  <2>8. ASSUME NEW S \in sent, Repack(S) PROVE Inv'
    BY <2>8, RepackStep
  <2>9. ASSUME NEW plan \in adrift, SendAdrift(plan) PROVE Inv'
    BY <2>9, SendAdriftStep
  <2>10. ASSUME NEW k \in DOMAIN plans, FailSend(k) PROVE Inv'
    BY <2>10, FailSendStep
  <2>11. CASE UNCHANGED vars
    <3>1. UNCHANGED <<order, fresh, sent, todo, plans, pc, adrift>>
      BY <2>11 DEF vars
    <3>2. Places' /\ Moved' /\ Waiting'
      BY <3>1 DEF Inv, Places, Moved, Waiting, Counted, Fits, Uploaded
    <3>3. Opened' /\ Current' /\ FirstFit'
      BY <3>1 DEF Inv, Opened, Counted, Fits, Current, FirstFit, fitsIntoBundle, Uploaded
    <3> QED BY <3>2, <3>3 DEF Inv
  <2> QED BY <2>1, <2>2, <2>3, <2>4, <2>5, <2>6, <2>7, <2>8, <2>9, <2>10, <2>11 DEF Next, Handler
<1> QED BY <1>1, <1>2, PTL DEF Spec

(***************************************************************************)
(* What it means for the properties.                                       *)
(***************************************************************************)

\* No bundle plan is over a limit, by what its items weigh together.
THEOREM PlansFitAlways == Spec => []PlansFit
<1>1. Inv => PlansFit
  BY DEF Inv, Opened, Waiting, Moved, Counted, Fits, PlansFit
<1> QED BY <1>1, Packed, PTL

\* An uploaded item is in new_data_item or in one bundle plan.
THEOREM PartitionAlways == Spec => []Partition
<1>1. Inv => Partition
  <2> SUFFICES ASSUME Inv PROVE Partition
    OBVIOUS
  <2>1. ASSUME NEW i \in Items, \E k \in DOMAIN order : order[k] = i
        PROVE  Cardinality({S \in sent : i \in S}) = IF i \in fresh THEN 0 ELSE 1
    <3>1. CASE i \in fresh
      <4>1. {S \in sent : i \in S} = {}
        BY <3>1 DEF Inv, Moved
      <4> QED BY <3>1, <4>1, FS_EmptySet
    <3>2. CASE i \notin fresh
      <4>1. PICK T \in sent : i \in T
        BY <2>1, <3>2 DEF Inv, Moved
      <4>2. {S \in sent : i \in S} = {T}
        BY <4>1 DEF Inv, Moved
      <4> QED BY <3>2, <4>2, FS_Singleton
    <3> QED BY <3>1, <3>2
  <2> QED BY <2>1 DEF Partition
<1> QED BY <1>1, Packed, PTL

\* While it packs, no item would have fit into a plan opened before its own.
THEOREM FirstFitAlways == Spec => []FirstFit
<1>1. Inv => FirstFit
  BY DEF Inv
<1> QED BY <1>1, Packed, PTL
=============================================================================
