--------------------------- MODULE UploadsProofs ---------------------------
(***************************************************************************)
(* Proofs about uploads, whole and in parts, for any items, requests,      *)
(* chunks, attempts and faults: that none is refunded more than charged,   *)
(* and that chunks are assembled in their order.                           *)
(***************************************************************************)
EXTENDS Multipart, SumTheorems, TLAPS

(***************************************************************************)
(* What requests have still to do while nothing happens that lets two of   *)
(* one item past the in-flight mark, or leaves a refund to be repeated.    *)
(***************************************************************************)
Trouble == {"cache", "expired", "overlap", "approval", "refund", "no refund answer"}
Clean == happened \cap Trouble = {}

PostWays ==
    {<<"check">>, <<"lookup">>, <<"mark">>, <<"balance">>, <<"store">>, <<"reserve">>, <<"tags">>,
     <<"sign">>, <<"enqueue">>, undo, <<"remove", "quarantine">>, <<"remove">>, <<"quarantine">>}
GivenUp == {<<"UNDERFUNDED">>, <<"refund">>, <<"refund", "quarantine">>, <<"quarantine">>}
FinalizeSteps ==
    {"finalize", "assemble", "enqueue job", "validate", "finish", "place", "pay", "approve", "insert"}
GoingOn == {<<s>> : s \in FinalizeSteps} \cup {<<"finalize", "async">>, <<"assemble", "async">>}
FinalizeWays == GoingOn \cup GivenUp
WaysOf(via) == IF via = "post" THEN PostWays ELSE FinalizeWays
Running == [x : Items, via : {"post", "finalize"}, do : PostWays \cup FinalizeWays]

MarkedSteps == {"balance", "store", "reserve", "tags", "sign", "enqueue", "refund", "remove"}
PayingSteps == {"tags", "sign", "enqueue", "approve", "insert", "refund"}
\* A post that has marked its item and not removed the mark, and a request that has
\* made, or found, the reservation it may refund.
Marked(r) == run[r] # None /\ run[r].via = "post" /\ Head(run[r].do) \in MarkedSteps
Paying(r) == run[r] # None /\ Head(run[r].do) \in PayingSteps

Running1 ==
    /\ run \in [Requests -> Running \cup {None}]
    /\ \A r \in Requests : run[r] # None => run[r].do \in WaysOf(run[r].via)
\* A finalization has its item to itself.
Alone ==
    \A r, q \in Requests :
        run[r] # None /\ run[q] # None /\ run[q].x = run[r].x /\ run[r].via = "finalize" => q = r
\* The in-flight key is held by one post.
OneMarked ==
    \A r \in Requests : Marked(r) =>
        /\ run[r].x \in inFlight
        /\ \A q \in Requests : Marked(q) /\ run[q].x = run[r].x => q = r
\* What a request would refund is reserved.
PaidFor == \A r \in Requests : Paying(r) => run[r].x \in reserved
\* The charges for an item are its one reservation.
Charged ==
    /\ refundJobs = [x \in Items |-> 0]
    /\ paid = [x \in Items |-> IF x \in reserved THEN 1 ELSE 0]

Sound == Running1 /\ Alone /\ OneMarked /\ PaidFor /\ Charged

LEMMA Heads == ASSUME NEW a, NEW b PROVE Head(<<a>>) = a /\ Head(<<a, b>>) = a
OBVIOUS

LEMMA Steps ==
    /\ \A d \in PostWays : Head(d) \in MarkedSteps \cup {"check", "lookup", "mark", "quarantine"}
    /\ \A d \in FinalizeWays : Head(d) \in FinalizeSteps \cup {"UNDERFUNDED", "refund", "quarantine"}
    /\ \A d \in PostWays \cup FinalizeWays : d # <<>>
<1>1. \A d \in PostWays : Head(d) \in MarkedSteps \cup {"check", "lookup", "mark", "quarantine"}
  BY Heads DEF PostWays, MarkedSteps, undo
<1>2. \A d \in GoingOn : Head(d) \in FinalizeSteps
  <2>1. "finalize" \in FinalizeSteps /\ "assemble" \in FinalizeSteps
    BY DEF FinalizeSteps
  <2> QED BY <2>1, Heads DEF GoingOn
<1>3. \A d \in GivenUp : Head(d) \in {"UNDERFUNDED", "refund", "quarantine"}
  BY Heads DEF GivenUp
<1>4. \A d \in PostWays \cup FinalizeWays : d # <<>>
  BY DEF PostWays, FinalizeWays, GoingOn, GivenUp, undo
<1> QED BY <1>1, <1>2, <1>3, <1>4 DEF FinalizeWays

LEMMA Tails ==
    /\ \A a : Tail(<<a>>) = <<>>
    /\ \A a, b : Tail(<<a, b>>) = <<b>>
    /\ \A a, b, c : Tail(<<a, b, c>>) = <<b, c>>
OBVIOUS

\* How the last of it begins.
LEMMA Lasts ==
    /\ \A d \in PostWays : Head(d) = "refund" => d = undo
    /\ \A d \in PostWays : Head(d) = "remove" => d \in {<<"remove">>, <<"remove", "quarantine">>}
    /\ \A d \in FinalizeWays : Head(d) = "refund" => d \in {<<"refund">>, <<"refund", "quarantine">>}
    /\ \A d \in PostWays \cup FinalizeWays : Head(d) = "quarantine" => d = <<"quarantine">>
    /\ \A d \in PostWays \cup FinalizeWays : Head(d) \in Reasons => d = <<"UNDERFUNDED">>
<1>1. \A d \in PostWays : Head(d) = "refund" => d = undo
  BY Heads DEF PostWays, undo
<1>2. \A d \in PostWays : Head(d) = "remove" => d \in {<<"remove">>, <<"remove", "quarantine">>}
  BY Heads DEF PostWays, undo
<1>3. \A d \in GoingOn : Head(d) \in FinalizeSteps
  <2>1. "finalize" \in FinalizeSteps /\ "assemble" \in FinalizeSteps
    BY DEF FinalizeSteps
  <2> QED BY <2>1, Heads DEF GoingOn
<1>4. \A d \in GivenUp : Head(d) = "refund" => d \in {<<"refund">>, <<"refund", "quarantine">>}
  BY Heads DEF GivenUp
<1>5. \A d \in PostWays \cup GivenUp : Head(d) = "quarantine" => d = <<"quarantine">>
  BY Heads DEF PostWays, undo, GivenUp
<1>6. \A d \in PostWays : Head(d) \notin Reasons
  BY Heads DEF PostWays, undo, Reasons
<1>7. \A d \in GivenUp : Head(d) \in Reasons => d = <<"UNDERFUNDED">>
  BY Heads DEF GivenUp, Reasons
<1>8. \A d \in GoingOn : Head(d) \notin Reasons \cup {"refund", "quarantine"}
  BY <1>3 DEF Reasons, FinalizeSteps
<1> QED BY <1>1, <1>2, <1>4, <1>5, <1>6, <1>7, <1>8 DEF FinalizeWays

LEMMA RunIs ==
    ASSUME Running1, NEW r \in Requests, run[r] # None
    PROVE  /\ run[r] \in Running /\ run[r].x \in Items /\ run[r].via \in {"post", "finalize"}
           /\ run[r].do \in WaysOf(run[r].via)
           /\ run[r].via = "post" <=> run[r].via # "finalize"
<1>1. run[r] \in Running /\ run[r].do \in WaysOf(run[r].via)
  BY DEF Running1
<1> QED BY <1>1 DEF Running

\* What has still to be done of one request changes.
LEMMA DoIs ==
    ASSUME Running1, NEW r \in Requests, run[r] # None, NEW d, Do(r, d),
           d = <<>> \/ d \in WaysOf(run[r].via)
    PROVE  /\ Running1'
           /\ \A q \in Requests \ {r} : run'[q] = run[q]
           /\ run'[r] # None => /\ run'[r].x = run[r].x /\ run'[r].via = run[r].via
                                /\ run'[r].do = d /\ d # <<>>
<1>1. run[r] \in Running /\ run \in [Requests -> Running \cup {None}]
  BY RunIs DEF Running1
<1>2. run' = [run EXCEPT ![r] = IF d = <<>> THEN None ELSE [run[r] EXCEPT !.do = d]]
  BY DEF Do
<1>3. d # <<>> => [run[r] EXCEPT !.do = d] \in Running
  BY <1>1 DEF Running, WaysOf
<1>4. d # <<>> => /\ [run[r] EXCEPT !.do = d].x = run[r].x /\ [run[r] EXCEPT !.do = d].do = d
                  /\ [run[r] EXCEPT !.do = d].via = run[r].via
  BY <1>1 DEF Running
<1>5. run'[r] = (IF d = <<>> THEN None ELSE [run[r] EXCEPT !.do = d])
      /\ \A q \in Requests \ {r} : run'[q] = run[q]
  BY <1>1, <1>2
<1>6. run' \in [Requests -> Running \cup {None}]
  BY <1>1, <1>2, <1>3
<1>7. run'[r] # None => /\ run'[r].x = run[r].x /\ run'[r].via = run[r].via
                        /\ run'[r].do = d /\ d # <<>>
  BY <1>4, <1>5
<1>8. ASSUME NEW q \in Requests, run'[q] # None PROVE run'[q].do \in WaysOf(run'[q].via)
  BY <1>5, <1>7, <1>8 DEF Running1
<1> QED BY <1>5, <1>6, <1>7, <1>8 DEF Running1, WaysOf

LEMMA OnePaying ==
    ASSUME Sound, NEW r \in Requests, NEW q \in Requests, Paying(r), Paying(q),
           run[q].x = run[r].x
    PROVE  q = r
<1>1. CASE run[r].via = "finalize" \/ run[q].via = "finalize"
  BY <1>1 DEF Sound, Alone, Paying
<1>2. CASE run[r].via = "post" /\ run[q].via = "post"
  <2>1. run[r].do \in PostWays /\ run[q].do \in PostWays
    BY <1>2, RunIs DEF Sound, Paying, WaysOf
  <2>2. Marked(r) /\ Marked(q)
    BY <1>2, <2>1, Steps DEF Marked, Paying, PayingSteps, MarkedSteps
  <2> QED BY <2>2 DEF Sound, OneMarked
<1> QED BY <1>1, <1>2, RunIs DEF Sound, Paying

\* A request goes on: it marks only an item that was not, and takes back only what is its own.
LEMMA GoesOn ==
    ASSUME Sound, NEW r \in Requests, run[r] # None, NEW d, Do(r, d),
           d = <<>> \/ d \in WaysOf(run[r].via),
           inFlight' \cup {run[r].x} = inFlight \cup {run[r].x},
           run[r].x \in inFlight /\ run[r].x \notin inFlight' => Marked(r),
           d # <<>> /\ run[r].via = "post" /\ Head(d) \in MarkedSteps =>
               run[r].x \in inFlight' /\ (Marked(r) \/ run[r].x \notin inFlight),
           reserved \subseteq reserved' \cup {run[r].x},
           run[r].x \in reserved /\ run[r].x \notin reserved' => Paying(r),
           d # <<>> /\ Head(d) \in PayingSteps => run[r].x \in reserved',
           Charged'
    PROVE  Sound'
<1> DEFINE x == run[r].x
<1>1. /\ Running1' /\ \A q \in Requests \ {r} : run'[q] = run[q]
      /\ run'[r] # None => /\ run'[r].x = x /\ run'[r].via = run[r].via
                           /\ run'[r].do = d /\ d # <<>>
  BY DoIs DEF Sound
<1>2. Alone'
  BY <1>1 DEF Sound, Alone
<1>3. \A q \in Requests \ {r} : (Marked(q)' <=> Marked(q)) /\ (Paying(q)' <=> Paying(q))
  BY <1>1 DEF Marked, Paying
<1>4. Marked(r)' => x \in inFlight' /\ run'[r].x = x /\ (Marked(r) \/ x \notin inFlight)
  BY <1>1 DEF Marked
<1>5. OneMarked'
  <2>1. ASSUME NEW q \in Requests \ {r}, Marked(q)
        PROVE  run[q].x \in inFlight' /\ (Marked(r)' => run[q].x # x)
    <3>1. run[q].x \in inFlight /\ (Marked(r) => run[q].x # x)
      BY <2>1 DEF Sound, OneMarked
    <3> QED BY <1>4, <3>1
  <2>2. ASSUME NEW q \in Requests, Marked(q)' PROVE run'[q].x \in inFlight'
    BY <1>1, <1>3, <1>4, <2>1, <2>2
  <2>3. ASSUME NEW q \in Requests, NEW p \in Requests, Marked(q)', Marked(p)', run'[p].x = run'[q].x
        PROVE  p = q
    <3>1. CASE p # r /\ q # r
      BY <1>1, <1>3, <2>3, <3>1 DEF Sound, OneMarked
    <3> QED BY <1>1, <1>3, <1>4, <2>1, <2>3, <3>1
  <2> QED BY <2>2, <2>3 DEF OneMarked
<1>6. PaidFor'
  <2>1. ASSUME NEW q \in Requests \ {r}, Paying(q) PROVE run[q].x \in reserved'
    <3>1. run[q].x \in reserved
      BY <2>1 DEF Sound, PaidFor
    <3>2. Paying(r) => run[q].x # x
      BY <2>1, OnePaying
    <3> QED BY <3>1, <3>2
  <2>2. Paying(r)' => run'[r].x \in reserved'
    BY <1>1 DEF Paying
  <2> QED BY <1>1, <1>3, <2>1, <2>2 DEF PaidFor
<1> QED BY <1>1, <1>2, <1>5, <1>6 DEF Sound

\* Where neither marks nor reservations change.
LEMMA GoesOnPlainly ==
    ASSUME Sound, NEW r \in Requests, run[r] # None, NEW d, Do(r, d),
           d = <<>> \/ d \in WaysOf(run[r].via), UNCHANGED <<inFlight, paymentVars>>,
           d # <<>> /\ run[r].via = "post" /\ Head(d) \in MarkedSteps => Marked(r),
           d # <<>> /\ Head(d) \in PayingSteps => Paying(r)
    PROVE  Sound'
<1>1. UNCHANGED <<inFlight, reserved, paid, refundJobs>>
  BY DEF paymentVars
<1>2. Charged'
  BY <1>1 DEF Sound, Charged
<1>3. Marked(r) => run[r].x \in inFlight
  BY DEF Sound, OneMarked
<1>4. Paying(r) => run[r].x \in reserved
  BY DEF Sound, PaidFor
<1> QED BY <1>1, <1>2, <1>3, <1>4, GoesOn

LEMMA NoTrouble ==
    ASSUME Clean', NEW kind \in Trouble
    PROVE  ~Fault(kind)
BY DEF Fault, Clean

LEMMA ReserveIs ==
    ASSUME Sound, NEW x \in Items, Reserve(x), UNCHANGED refundJobs
    PROVE  Charged' /\ reserved' = reserved \cup {x}
BY DEF Reserve, Sound, Charged

LEMMA GiveBackIs ==
    ASSUME Sound, NEW x \in Items, x \in reserved, GiveBack(x), UNCHANGED refundJobs
    PROVE  Charged' /\ reserved' = reserved \ {x}
BY DEF GiveBack, Sound, Charged

\* What a request that is at a step has still to do.
LEMMA AtIs ==
    ASSUME Running1, NEW r \in Requests, NEW step, At(r, step)
    PROVE  /\ run[r] # None /\ run[r].x \in Items /\ run[r].via \in {"post", "finalize"}
           /\ Head(run[r].do) = step /\ run[r].do \in WaysOf(run[r].via)
<1>1. run[r] # None /\ Head(run[r].do) = step
  BY DEF At
<1> QED BY <1>1, RunIs

LEMMA PostAt ==
    ASSUME Sound, NEW r \in Requests,
           NEW step \in {"check", "lookup", "mark", "balance", "store", "reserve", "tags", "sign",
                         "enqueue", "remove"},
           At(r, step)
    PROVE  /\ run[r] # None /\ run[r].x \in Items /\ run[r].via = "post"
           /\ Head(run[r].do) = step /\ run[r].do \in PostWays
<1>1. /\ run[r] # None /\ run[r].x \in Items /\ run[r].via \in {"post", "finalize"}
      /\ Head(run[r].do) = step /\ run[r].do \in WaysOf(run[r].via)
  BY AtIs DEF Sound
<1> QED BY <1>1, Steps DEF WaysOf, FinalizeSteps

LEMMA FinalizeAt ==
    ASSUME Sound, NEW r \in Requests,
           NEW step \in {"finalize", "assemble", "enqueue job", "validate", "finish", "place", "pay",
                         "approve", "insert", "UNDERFUNDED"},
           At(r, step)
    PROVE  /\ run[r] # None /\ run[r].x \in Items /\ run[r].via = "finalize"
           /\ Head(run[r].do) = step /\ run[r].do \in FinalizeWays
<1>1. /\ run[r] # None /\ run[r].x \in Items /\ run[r].via \in {"post", "finalize"}
      /\ Head(run[r].do) = step /\ run[r].do \in WaysOf(run[r].via)
  BY AtIs DEF Sound
<1> QED BY <1>1, Steps DEF WaysOf, MarkedSteps

(***************************************************************************)
(* A post.                                                                 *)
(***************************************************************************)
LEMMA BeforeTheMark ==
    ASSUME Sound, Clean', NEW r \in Requests, dataItemIsInFlight(r) \/ getExistingDataItemIds(r)
    PROVE  Sound'
<1>1. /\ run[r] # None /\ run[r].via = "post" /\ UNCHANGED <<inFlight, paymentVars>>
      /\ Do(r, <<>>) \/ Do(r, <<"lookup">>) \/ Do(r, <<"mark">>)
  BY PostAt DEF dataItemIsInFlight, getExistingDataItemIds, End
<1>2. \A d \in {<<"lookup">>, <<"mark">>} :
          d \in WaysOf(run[r].via) /\ Head(d) \notin MarkedSteps /\ Head(d) \notin PayingSteps
  BY <1>1 DEF WaysOf, PostWays, MarkedSteps, PayingSteps
<1> QED BY <1>1, <1>2, GoesOnPlainly

LEMMA MarkStep ==
    ASSUME Sound, Clean', NEW r \in Requests, markInFlight(r)
    PROVE  Sound'
<1>1. /\ run[r] # None /\ run[r].via = "post" /\ UNCHANGED paymentVars
      /\ \/ run[r].x \notin inFlight /\ inFlight' = inFlight \cup {run[r].x} /\ Do(r, <<"balance">>)
         \/ Do(r, <<>>) /\ UNCHANGED inFlight
  BY PostAt, NoTrouble DEF markInFlight, End, Trouble
<1>2. <<"balance">> \in WaysOf(run[r].via) /\ Head(<<"balance">>) \notin PayingSteps
  BY <1>1 DEF WaysOf, PostWays, PayingSteps
<1>3. Charged' /\ UNCHANGED reserved
  BY <1>1 DEF Sound, Charged, paymentVars
<1>4. CASE run[r].x \notin inFlight /\ inFlight' = inFlight \cup {run[r].x} /\ Do(r, <<"balance">>)
  BY <1>1, <1>2, <1>3, <1>4, GoesOn
<1>5. CASE Do(r, <<>>) /\ UNCHANGED inFlight
  BY <1>1, <1>5, GoesOnPlainly
<1> QED BY <1>1, <1>4, <1>5

\* Between the mark and its removal.
LEMMA WhileMarked ==
    ASSUME Sound, Clean', NEW r \in Requests,
           checkBalanceForData(r) \/ cacheDataItem(r) \/ createDelegatedPaymentApproval(r)
               \/ signReceipt(r) \/ enqueueNewDataItem(r)
    PROVE  Sound'
<1>1. /\ run[r] # None /\ run[r].via = "post" /\ UNCHANGED <<inFlight, paymentVars>> /\ Marked(r)
      /\ \/ \E d \in {<<"store">>, <<"remove">>, <<"reserve">>, <<"remove", "quarantine">>} : Do(r, d)
         \/ Paying(r) /\ \E d \in {<<"sign">>, <<"enqueue">>, undo} : Do(r, d)
         \/ Do(r, <<>>)
  <2>1. CASE checkBalanceForData(r)
    BY <2>1, PostAt DEF checkBalanceForData, Marked, MarkedSteps
  <2>2. CASE cacheDataItem(r)
    BY <2>2, PostAt DEF cacheDataItem, Marked, MarkedSteps
  <2>3. CASE createDelegatedPaymentApproval(r)
    BY <2>3, PostAt, NoTrouble DEF createDelegatedPaymentApproval, Marked, MarkedSteps, Paying,
                                   PayingSteps, Trouble
  <2>4. CASE signReceipt(r)
    BY <2>4, PostAt DEF signReceipt, Marked, MarkedSteps, Paying, PayingSteps
  <2>5. CASE enqueueNewDataItem(r)
    BY <2>5, PostAt DEF enqueueNewDataItem, Marked, MarkedSteps, Paying, PayingSteps, End
  <2> QED BY <2>1, <2>2, <2>3, <2>4, <2>5
<1>2. \A d \in {<<"store">>, <<"remove">>, <<"reserve">>, <<"remove", "quarantine">>} :
          d \in WaysOf(run[r].via) /\ Head(d) \notin PayingSteps
  BY <1>1 DEF WaysOf, PostWays, PayingSteps
<1>3. \A d \in {<<"sign">>, <<"enqueue">>, undo} : d \in WaysOf(run[r].via)
  BY <1>1 DEF WaysOf, PostWays
<1>4. ASSUME NEW d \in {<<"store">>, <<"remove">>, <<"reserve">>, <<"remove", "quarantine">>}, Do(r, d)
      PROVE  Sound'
  BY <1>1, <1>2, <1>4, GoesOnPlainly
<1>5. ASSUME Paying(r), NEW d \in {<<"sign">>, <<"enqueue">>, undo}, Do(r, d)
      PROVE  Sound'
  BY <1>1, <1>3, <1>5, GoesOnPlainly
<1>6. CASE Do(r, <<>>)
  BY <1>1, <1>6, GoesOnPlainly
<1> QED BY <1>1, <1>4, <1>5, <1>6

LEMMA ReserveStep ==
    ASSUME Sound, Clean', NEW r \in Requests, reserveBalanceForData(r)
    PROVE  Sound'
<1>1. /\ run[r] # None /\ run[r].via = "post" /\ UNCHANGED <<inFlight, refundJobs>> /\ Marked(r)
      /\ run[r].x \in Items
      /\ \/ Reserve(run[r].x) /\ (Do(r, <<"tags">>) \/ Do(r, <<"remove">>))
         \/ Do(r, <<"remove">>) /\ UNCHANGED <<reserved, paid>>
  BY PostAt DEF reserveBalanceForData, Marked, MarkedSteps
<1>2. /\ \A d \in {<<"tags">>, <<"remove">>} : d \in WaysOf(run[r].via)
      /\ Head(<<"remove">>) \notin PayingSteps
  BY <1>1 DEF WaysOf, PostWays, PayingSteps
<1>3. run[r].x \in inFlight
  BY <1>1 DEF Sound, OneMarked
<1>4. ASSUME Reserve(run[r].x), NEW d \in {<<"tags">>, <<"remove">>}, Do(r, d) PROVE Sound'
  <2>1. Charged' /\ reserved' = reserved \cup {run[r].x}
    BY <1>1, <1>4, ReserveIs
  <2> QED BY <1>1, <1>2, <1>3, <1>4, <2>1, GoesOn
<1>5. CASE Do(r, <<"remove">>) /\ UNCHANGED <<reserved, paid>>
  BY <1>1, <1>2, <1>5, GoesOnPlainly DEF paymentVars
<1> QED BY <1>1, <1>4, <1>5

(***************************************************************************)
(* What undoes an upload.                                                  *)
(***************************************************************************)
LEMMA RefundStep ==
    ASSUME Sound, Clean', NEW r \in Requests, refundBalanceForData(r)
    PROVE  Sound'
<1> DEFINE x == run[r].x
<1>1. /\ run[r] # None /\ x \in Items /\ run[r].via \in {"post", "finalize"}
      /\ Head(run[r].do) = "refund" /\ run[r].do \in WaysOf(run[r].via)
  BY AtIs DEF Sound, refundBalanceForData
<1>2. /\ UNCHANGED <<refundJobs, inFlight>> /\ Do(r, Tail(run[r].do))
      /\ GiveBack(x) \/ UNCHANGED <<reserved, paid>>
  BY NoTrouble DEF refundBalanceForData, Trouble, Rest
<1>3. Paying(r) /\ x \in reserved
  BY <1>1 DEF Paying, PayingSteps, Sound, PaidFor
<1>4. Charged' /\ (reserved' = reserved \ {x} \/ UNCHANGED reserved)
  <2>1. CASE GiveBack(x)
    BY <1>1, <1>2, <1>3, <2>1, GiveBackIs
  <2>2. CASE UNCHANGED <<reserved, paid>>
    BY <1>2, <2>2 DEF Sound, Charged
  <2> QED BY <1>2, <2>1, <2>2
<1>5. run[r].via = "post" => Marked(r)
  BY <1>1 DEF Marked, MarkedSteps
<1>6. PICK d : d = Tail(run[r].do)
  OBVIOUS
<1>7. (d = <<>> \/ d \in WaysOf(run[r].via)) /\ (d # <<>> => Head(d) \notin PayingSteps)
  <2>1. CASE run[r].via = "post"
    <3>1. run[r].do = undo
      BY <1>1, <2>1, Lasts DEF WaysOf
    <3>2. d = <<"remove", "quarantine">>
      BY <1>6, <3>1, Tails DEF undo
    <3> QED BY <2>1, <3>2 DEF WaysOf, PostWays, PayingSteps
  <2>2. CASE run[r].via = "finalize"
    <3>1. run[r].do \in {<<"refund">>, <<"refund", "quarantine">>}
      BY <1>1, <2>2, Lasts DEF WaysOf
    <3>2. d \in {<<>>, <<"quarantine">>}
      BY <1>6, <3>1, Tails
    <3>3. <<"quarantine">> \in FinalizeWays /\ Head(<<"quarantine">>) \notin PayingSteps
      BY DEF FinalizeWays, GoingOn, GivenUp, PayingSteps
    <3> QED BY <2>2, <3>2, <3>3 DEF WaysOf
  <2> QED BY <1>1, <2>1, <2>2
<1>8. Marked(r) => x \in inFlight
  BY DEF Sound, OneMarked
<1> QED BY <1>1, <1>2, <1>3, <1>4, <1>5, <1>6, <1>7, <1>8, GoesOn

LEMMA RemoveStep ==
    ASSUME Sound, Clean', NEW r \in Requests, removeFromInFlight(r)
    PROVE  Sound'
<1>1. /\ run[r] # None /\ run[r].via = "post" /\ Head(run[r].do) = "remove" /\ run[r].do \in PostWays
      /\ Marked(r)
  BY PostAt DEF removeFromInFlight, Marked, MarkedSteps
<1>2. inFlight' = inFlight \ {run[r].x} /\ Do(r, Tail(run[r].do)) /\ UNCHANGED paymentVars
  BY NoTrouble DEF removeFromInFlight, Trouble, Rest
<1>3. PICK d : d = Tail(run[r].do)
  OBVIOUS
<1>4. d = <<>> \/ d = <<"quarantine">>
  <2>1. run[r].do \in {<<"remove">>, <<"remove", "quarantine">>}
    BY <1>1, Lasts
  <2> QED BY <1>3, <2>1, Tails
<1>5. <<"quarantine">> \in WaysOf(run[r].via) /\ Head(<<"quarantine">>) \notin MarkedSteps \cup PayingSteps
  BY <1>1 DEF WaysOf, PostWays, MarkedSteps, PayingSteps
<1>6. Charged' /\ UNCHANGED reserved
  BY <1>2 DEF Sound, Charged, paymentVars
<1> QED BY <1>1, <1>2, <1>3, <1>4, <1>5, <1>6, GoesOn

\* A quarantine, a failure that is recorded, and a crash: the last thing a request does.
LEMMA LastStep ==
    ASSUME Sound, Clean', NEW r \in Requests,
           performQuarantine(r) \/ Crash(r) \/ failFinishedMultiPartUpload(r)
    PROVE  Sound'
<1>1. run[r] # None /\ UNCHANGED <<inFlight, paymentVars>>
  BY DEF performQuarantine, Crash, failFinishedMultiPartUpload, At
<1>2. run[r].do \in PostWays \cup FinalizeWays
  BY <1>1, RunIs DEF Sound, WaysOf
<1>3. Do(r, <<>>)
  <2>1. CASE Crash(r)
    BY <2>1 DEF Crash, End
  <2>2. CASE performQuarantine(r) \/ failFinishedMultiPartUpload(r)
    <3>1. Head(run[r].do) \in {"quarantine"} \cup Reasons /\ Do(r, Tail(run[r].do))
      BY <2>2 DEF performQuarantine, failFinishedMultiPartUpload, At, Rest
    <3>2. run[r].do \in {<<"quarantine">>, <<"UNDERFUNDED">>}
      BY <1>2, <3>1, Lasts
    <3>3. Tail(run[r].do) = <<>>
      BY <3>2, Tails
    <3> QED BY <3>1, <3>3
  <2> QED BY <2>1, <2>2
<1> QED BY <1>1, <1>3, GoesOnPlainly

(***************************************************************************)
(* A finalization.                                                         *)
(***************************************************************************)
LEMMA GoingOnIs ==
    /\ \A step \in FinalizeSteps : <<step>> \in FinalizeWays /\ Head(<<step>>) = step
    /\ <<"assemble", "async">> \in FinalizeWays /\ Head(<<"assemble", "async">>) = "assemble"
<1>1. \A step \in FinalizeSteps : <<step>> \in FinalizeWays /\ Head(<<step>>) = step
  BY Heads DEF GoingOn, FinalizeWays
<1>2. <<"assemble", "async">> \in FinalizeWays /\ Head(<<"assemble", "async">>) = "assemble"
  BY Heads DEF GoingOn, FinalizeWays
<1> QED BY <1>1, <1>2

\* Until it pays, a finalization touches neither marks nor charges.
LEMMA BeforePaying ==
    ASSUME Sound, Clean', NEW r \in Requests,
           finalizeMultipartUpload(r) \/ finalizeMPUWithInFlightEntity(r)
               \/ enqueueFinalizeUpload(r) \/ validateMultipartUpload(r)
               \/ finalizeMultiPartUpload(r) \/ finalizeMPUWithValidatedInfo(r)
    PROVE  Sound'
<1> DEFINE Go == {<<"assemble">>, <<"assemble", "async">>, <<"validate">>, <<"enqueue job">>,
                  <<"finish">>, <<"place">>, <<"pay">>}
<1>1. /\ run[r] # None /\ run[r].via = "finalize" /\ UNCHANGED <<inFlight, paymentVars>>
      /\ Do(r, <<>>) \/ \E d \in Go : Do(r, d)
  <2>1. CASE finalizeMultipartUpload(r)
    <3>1. run[r] # None /\ run[r].via = "finalize"
      BY <2>1, FinalizeAt DEF finalizeMultipartUpload
    <3>2. \E d \in {<<"assemble">>, <<"assemble", "async">>, <<"place">>, <<>>} : Do(r, d)
      BY <2>1 DEF finalizeMultipartUpload, End
    <3>3. UNCHANGED <<inFlight, paymentVars>>
      BY <2>1 DEF finalizeMultipartUpload
    <3> QED BY <3>1, <3>2, <3>3
  <2>2. CASE finalizeMPUWithInFlightEntity(r)
    BY <2>2, FinalizeAt DEF finalizeMPUWithInFlightEntity, End
  <2>3. CASE enqueueFinalizeUpload(r)
    BY <2>3, FinalizeAt DEF enqueueFinalizeUpload, End
  <2>4. CASE validateMultipartUpload(r)
    BY <2>4, FinalizeAt DEF validateMultipartUpload, End
  <2>5. CASE finalizeMultiPartUpload(r)
    BY <2>5, FinalizeAt DEF finalizeMultiPartUpload, End
  <2>6. CASE finalizeMPUWithValidatedInfo(r)
    BY <2>6, FinalizeAt DEF finalizeMPUWithValidatedInfo, End
  <2> QED BY <2>1, <2>2, <2>3, <2>4, <2>5, <2>6
<1>2. \A d \in Go : d \in WaysOf(run[r].via) /\ Head(d) \notin PayingSteps
  BY <1>1, GoingOnIs DEF WaysOf, PayingSteps, FinalizeSteps
<1> HIDE DEF Go
<1> QED BY <1>1, <1>2, GoesOnPlainly

LEMMA PayStep ==
    ASSUME Sound, Clean', NEW r \in Requests, reserveForMultipart(r)
    PROVE  Sound'
<1>1. /\ run[r] # None /\ run[r].via = "finalize" /\ UNCHANGED <<inFlight, refundJobs>>
      /\ run[r].x \in Items
      /\ \/ Reserve(run[r].x) /\ (Do(r, <<"approve">>) \/ Do(r, <<>>))
         \/ Do(r, <<"UNDERFUNDED">>) /\ UNCHANGED <<reserved, paid>>
  BY FinalizeAt DEF reserveForMultipart, End
<1>2. /\ <<"approve">> \in WaysOf(run[r].via) /\ <<"UNDERFUNDED">> \in WaysOf(run[r].via)
      /\ Head(<<"UNDERFUNDED">>) \notin PayingSteps
  BY <1>1, GoingOnIs, Heads DEF WaysOf, FinalizeWays, GivenUp, FinalizeSteps, PayingSteps
<1>3. ASSUME Reserve(run[r].x), NEW d \in {<<"approve">>, <<>>}, Do(r, d) PROVE Sound'
  <2>1. Charged' /\ reserved' = reserved \cup {run[r].x}
    BY <1>1, <1>3, ReserveIs
  <2> QED BY <1>1, <1>2, <1>3, <2>1, GoesOn
<1>4. CASE Do(r, <<"UNDERFUNDED">>) /\ UNCHANGED <<reserved, paid>>
  BY <1>1, <1>2, <1>4, GoesOnPlainly DEF paymentVars
<1> QED BY <1>1, <1>3, <1>4

LEMMA AfterPaying ==
    ASSUME Sound, Clean', NEW r \in Requests, approveForMultipart(r) \/ insertNewDataItem(r)
    PROVE  Sound'
<1>1. /\ run[r] # None /\ run[r].via = "finalize" /\ UNCHANGED <<inFlight, paymentVars>> /\ Paying(r)
      /\ Do(r, <<>>) \/ \E d \in {<<"insert">>, <<"refund">>, <<"refund", "quarantine">>} : Do(r, d)
  <2>1. CASE approveForMultipart(r)
    BY <2>1, FinalizeAt, NoTrouble DEF approveForMultipart, Paying, PayingSteps, Trouble
  <2>2. CASE insertNewDataItem(r)
    BY <2>2, FinalizeAt DEF insertNewDataItem, Paying, PayingSteps, End
  <2> QED BY <2>1, <2>2
<1>2. \A d \in {<<"insert">>, <<"refund">>, <<"refund", "quarantine">>} : d \in WaysOf(run[r].via)
  BY <1>1, GoingOnIs DEF WaysOf, FinalizeWays, GivenUp, FinalizeSteps
<1> QED BY <1>1, <1>2, GoesOnPlainly

(***************************************************************************)
(* Requests that begin, workers and the clock.                             *)
(***************************************************************************)
LEMMA Begins ==
    ASSUME Sound, Clean', NEW x \in Items, NEW via \in {"post", "finalize"}, NEW d \in WaysOf(via),
           Head(d) \notin MarkedSteps \cup PayingSteps, Begin(x, via, d),
           UNCHANGED <<inFlight, paymentVars>>
    PROVE  Sound'
<1> DEFINE new == [x |-> x, via |-> via, do |-> d]
<1>1. PICK r \in Requests : run[r] = None /\ run' = [run EXCEPT ![r] = new]
  <2>1. \E r \in Requests : run[r] = None
    BY DEF Begin
  <2> QED BY <2>1 DEF Begin
<1>2. ~Beside(x, via)
  BY NoTrouble DEF Begin, Trouble
<1>3. new \in Running /\ new.do \in WaysOf(new.via)
  BY DEF Running, WaysOf
<1>4. run \in [Requests -> Running \cup {None}]
  BY DEF Sound, Running1
<1>5. /\ run'[r] = new /\ new.x = x /\ new.via = via /\ new.do = d
      /\ \A q \in Requests \ {r} : run'[q] = run[q]
  BY <1>1, <1>4
<1> HIDE DEF new
<1>6. run' \in [Requests -> Running \cup {None}]
  BY <1>1, <1>3, <1>4
<1>7. Running1'
  BY <1>3, <1>5, <1>6 DEF Sound, Running1, WaysOf
<1>8. \A q \in Requests : run[q] # None /\ run[q].x = x => via # "finalize" /\ run[q].via # "finalize"
  BY <1>2 DEF Beside, Runs
<1>9. Alone'
  BY <1>1, <1>5, <1>8 DEF Sound, Alone
<1>10. \A q \in Requests : (Marked(q)' => q # r /\ Marked(q)) /\ (Paying(q)' => q # r /\ Paying(q))
  BY <1>5 DEF Marked, Paying
<1>11. OneMarked' /\ PaidFor'
  BY <1>5, <1>10 DEF Sound, OneMarked, PaidFor, paymentVars
<1>12. Charged'
  BY DEF Sound, Charged, paymentVars
<1> QED BY <1>7, <1>9, <1>11, <1>12 DEF Sound

LEMMA BeginStep ==
    ASSUME Sound, Clean', NEW x \in Items,
           dataItemRoute(x) \/ finalizeMultipartUploadWithHttpRequest(x) \/ finalizeUploadWorker(x)
    PROVE  Sound'
<1>1. UNCHANGED <<inFlight, paymentVars>>
  BY DEF dataItemRoute, finalizeMultipartUploadWithHttpRequest, finalizeUploadWorker
<1>2. \/ Begin(x, "post", <<"check">>) \/ Begin(x, "finalize", <<"finalize">>)
      \/ Begin(x, "finalize", <<"finalize", "async">>) \/ UNCHANGED run
  BY DEF dataItemRoute, finalizeMultipartUploadWithHttpRequest, finalizeUploadWorker
<1>3. /\ <<"check">> \in WaysOf("post") /\ <<"finalize">> \in WaysOf("finalize")
      /\ <<"finalize", "async">> \in WaysOf("finalize")
  BY DEF WaysOf, PostWays, FinalizeWays, GoingOn, FinalizeSteps
<1>4. \A d \in {<<"check">>, <<"finalize">>, <<"finalize", "async">>} :
          Head(d) \notin MarkedSteps \cup PayingSteps
  BY Heads DEF MarkedSteps, PayingSteps
<1>5. CASE UNCHANGED run
  <2>1. UNCHANGED <<inFlight, reserved, paid, refundJobs, run>>
    BY <1>1, <1>5 DEF paymentVars
  <2> QED BY <2>1 DEF Sound, Running1, Alone, OneMarked, Marked, PaidFor, Paying, Charged, WaysOf
<1> QED BY <1>1, <1>2, <1>3, <1>4, <1>5, Begins

LEMMA RunUnchanged ==
    ASSUME Sound, UNCHANGED <<run, inFlight, paymentVars>>
    PROVE  Sound'
<1>1. UNCHANGED <<inFlight, reserved, paid, refundJobs, run>>
  BY DEF paymentVars
<1> QED BY <1>1 DEF Sound, Running1, Alone, OneMarked, Marked, PaidFor, Paying, Charged, WaysOf

LEMMA ExpireStep ==
    ASSUME Sound, Clean', NEW x \in Items, Expire(x)
    PROVE  Sound'
<1>1. inFlight' = inFlight \ {x} /\ UNCHANGED <<run, reserved, paid, refundJobs>>
  BY DEF Expire, paymentVars
<1>2. Runs(x) = {}
  BY NoTrouble DEF Expire, Trouble
<1>3. \A r \in Requests : Marked(r) => run[r].x # x
  BY <1>2 DEF Marked, Runs
<1>4. OneMarked'
  BY <1>1, <1>3 DEF Sound, OneMarked, Marked
<1>5. Running1' /\ Alone' /\ PaidFor' /\ Charged'
  BY <1>1 DEF Sound, Running1, Alone, PaidFor, Paying, Charged, WaysOf
<1> QED BY <1>4, <1>5 DEF Sound

LEMMA WorkerStep ==
    ASSUME Sound, Clean', NEW x \in Items, Worker(x)
    PROVE  Sound'
<1>1. ~refundBalanceWorker(x)
  BY DEF refundBalanceWorker, Sound, Charged
<1>2. UNCHANGED <<run, inFlight, paymentVars>>
  BY <1>1 DEF Worker, quarantineDataItem, newDataItemWorker
<1> QED BY <1>2, RunUnchanged

(***************************************************************************)
(* Steps of the whole, and the theorem.                                    *)
(***************************************************************************)
LEMMA FaultGrows ==
    ASSUME NoFault \/ \E kind \in FaultKinds : Fault(kind)
    PROVE  happened \subseteq happened'
BY DEF NoFault, Fault, faultVars

\* What has gone wrong is not forgotten.
LEMMA Grows == Next => happened \subseteq happened'
<1> SUFFICES ASSUME Next PROVE happened \subseteq happened'
  OBVIOUS
<1>1. ASSUME NEW x, NEW via, NEW d, Begin(x, via, d) PROVE happened \subseteq happened'
  BY <1>1, FaultGrows DEF Begin, FaultKinds
<1>2. ASSUME NEW r \in Requests, PostStep(r) \/ Crash(r) PROVE happened \subseteq happened'
  <2>1. CASE \/ dataItemIsInFlight(r) \/ getExistingDataItemIds(r) \/ markInFlight(r)
             \/ checkBalanceForData(r) \/ cacheDataItem(r) \/ reserveBalanceForData(r)
    BY <2>1, FaultGrows DEF dataItemIsInFlight, getExistingDataItemIds, markInFlight,
          checkBalanceForData, cacheDataItem, reserveBalanceForData, faultVars, FaultKinds
  <2>2. CASE \/ createDelegatedPaymentApproval(r) \/ signReceipt(r) \/ enqueueNewDataItem(r)
             \/ refundBalanceForData(r) \/ removeFromInFlight(r) \/ performQuarantine(r) \/ Crash(r)
    BY <2>2, FaultGrows DEF createDelegatedPaymentApproval, signReceipt, enqueueNewDataItem,
          refundBalanceForData, removeFromInFlight, performQuarantine, Crash, faultVars, FaultKinds
  <2> QED BY <1>2, <2>1, <2>2 DEF PostStep
<1>3. ASSUME NEW r \in Requests, FinalizeStep(r) PROVE happened \subseteq happened'
  <2>1. CASE \/ finalizeMultipartUpload(r) \/ finalizeMPUWithInFlightEntity(r)
             \/ enqueueFinalizeUpload(r) \/ validateMultipartUpload(r) \/ finalizeMultiPartUpload(r)
    BY <2>1, FaultGrows DEF finalizeMultipartUpload, finalizeMPUWithInFlightEntity,
          enqueueFinalizeUpload, validateMultipartUpload, finalizeMultiPartUpload, faultVars, FaultKinds
  <2>2. CASE \/ finalizeMPUWithValidatedInfo(r) \/ reserveForMultipart(r) \/ approveForMultipart(r)
             \/ failFinishedMultiPartUpload(r) \/ insertNewDataItem(r)
    BY <2>2, FaultGrows DEF finalizeMPUWithValidatedInfo, reserveForMultipart, approveForMultipart,
          failFinishedMultiPartUpload, insertNewDataItem, faultVars, FaultKinds
  <2> QED BY <1>3, <2>1, <2>2 DEF FinalizeStep
<1>4. ASSUME NEW x \in Items,
             \/ dataItemRoute(x) \/ finalizeMultipartUploadWithHttpRequest(x) \/ finalizeUploadWorker(x)
      PROVE  happened \subseteq happened'
  BY <1>1, <1>4, FaultGrows DEF dataItemRoute, finalizeMultipartUploadWithHttpRequest,
        finalizeUploadWorker, NoFault
<1>5. ASSUME NEW x \in Items, Worker(x) \/ Expire(x) PROVE happened \subseteq happened'
  BY <1>5, FaultGrows DEF Worker, quarantineDataItem, newDataItemWorker, refundBalanceWorker,
        Expire, faultVars, FaultKinds
<1>6. ASSUME NEW x \in Items, createMultiPartUpload(x) PROVE happened \subseteq happened'
  BY <1>6 DEF createMultiPartUpload, ingestVars, faultVars
<1>7. ASSUME NEW x \in Items, NEW i \in Chunks, postDataItemChunk(x, i) PROVE happened \subseteq happened'
  BY <1>7, FaultGrows DEF postDataItemChunk, FaultKinds
<1> QED BY <1>2, <1>3, <1>4, <1>5, <1>6, <1>7 DEF Next

Inv == Clean => Sound

LEMMA InitSound == Init => Sound
<1> SUFFICES ASSUME Init PROVE Sound
  OBVIOUS
<1>1. \A r \in Requests : run[r] = None
  BY DEF Init, IngestInit
<1>2. Running1
  BY DEF Init, IngestInit, Running1
<1>3. Alone /\ OneMarked /\ PaidFor
  BY <1>1 DEF Alone, OneMarked, PaidFor, Marked, Paying
<1>4. Charged
  BY DEF Init, IngestInit, Charged
<1> QED BY <1>2, <1>3, <1>4 DEF Sound

LEMMA NextSound == Inv /\ [Next]_allVars => Inv'
<1> SUFFICES ASSUME Inv, [Next]_allVars, Clean' PROVE Sound'
  BY DEF Inv
<1>1. Sound
  <2>1. happened \subseteq happened'
    BY Grows DEF allVars, ingestVars, faultVars
  <2> QED BY <2>1 DEF Inv, Clean
<1>2. ASSUME NEW r \in Requests, PostStep(r) \/ Crash(r) PROVE Sound'
  BY <1>1, <1>2, BeforeTheMark, MarkStep, WhileMarked, ReserveStep, RefundStep, RemoveStep, LastStep
     DEF PostStep
<1>3. ASSUME NEW r \in Requests, FinalizeStep(r) PROVE Sound'
  BY <1>1, <1>3, BeforePaying, PayStep, AfterPaying, LastStep DEF FinalizeStep
<1>4. ASSUME NEW x \in Items,
             \/ dataItemRoute(x) \/ finalizeMultipartUploadWithHttpRequest(x) \/ finalizeUploadWorker(x)
      PROVE  Sound'
  BY <1>1, <1>4, BeginStep
<1>5. ASSUME NEW x \in Items, Worker(x) \/ Expire(x) PROVE Sound'
  BY <1>1, <1>5, WorkerStep, ExpireStep
<1>6. ASSUME NEW x \in Items, createMultiPartUpload(x) \/ \E i \in Chunks : postDataItemChunk(x, i)
      PROVE  Sound'
  <2>1. UNCHANGED <<run, inFlight, paymentVars>>
    BY <1>6 DEF createMultiPartUpload, postDataItemChunk, ingestVars
  <2> QED BY <1>1, <2>1, RunUnchanged
<1>7. CASE UNCHANGED allVars
  BY <1>1, <1>7, RunUnchanged DEF allVars, ingestVars
<1> QED BY <1>2, <1>3, <1>4, <1>5, <1>6, <1>7 DEF Next

\* No item is refunded more often than it was charged: two posts are never past the
\* in-flight mark together (dataItemRoute), a finalization has its item to itself, and
\* so each refund is of a reservation that is there.
THEOREM NoFreeCreditAlways == Spec => []NoFreeCredit
<1>1. Init => Inv
  BY InitSound DEF Inv
<1>2. Inv => NoFreeCredit
  <2> SUFFICES ASSUME Inv, Clean, NEW x \in Items PROVE paid[x] >= 0
    BY DEF NoFreeCredit, Clean, Trouble
  <2>1. paid = [y \in Items |-> IF y \in reserved THEN 1 ELSE 0]
    BY DEF Inv, Sound, Charged
  <2> QED BY <2>1
<1> QED BY <1>1, <1>2, NextSound, PTL DEF Spec

(***************************************************************************)
(* Part numbers.  The offset of each chunk is a multiple of the size of a  *)
(* full one; the last may be smaller, and the size a chunk is expected to  *)
(* have is one of the two.                                                 *)
(***************************************************************************)
Last == Len(ChunkSizes)
FullSize == ChunkSizes[1]
LastSize == ChunkSizes[Last]
Sizes == {0, FullSize, LastSize}

LEMMA SizesAre ==
    /\ Last \in Nat \ {0} /\ Chunks = 1..Last /\ 1 \in Chunks /\ Last \in Chunks
    /\ FullSize \in Nat \ {0} /\ LastSize \in Nat \ {0} /\ LastSize <= FullSize
    /\ \A i \in Chunks : ChunkSizes[i] = (IF i = Last THEN LastSize ELSE FullSize)
<1>1. Last \in Nat \ {0} /\ ChunkSizes \in [1..Last -> Nat \ {0}]
  BY MultipartAssumption DEF Last
<1>2. \A i \in 1..Last : i # Last => i \in 1..(Last - 1)
  BY <1>1
<1>3. LastSize <= FullSize /\ \A i \in 1..(Last - 1) : ChunkSizes[i] = FullSize
  BY MultipartAssumption DEF FullSize, LastSize, Last
<1>4. Chunks = 1..Last /\ 1 \in 1..Last /\ Last \in 1..Last
  BY <1>1 DEF Chunks, Last
<1>5. FullSize \in Nat \ {0} /\ LastSize \in Nat \ {0}
  BY <1>1, <1>4 DEF FullSize, LastSize
<1>6. ASSUME NEW i \in 1..Last PROVE ChunkSizes[i] = (IF i = Last THEN LastSize ELSE FullSize)
  BY <1>2, <1>3 DEF LastSize
<1> QED BY <1>1, <1>3, <1>4, <1>5, <1>6

LEMMA OffsetIs == \A i \in Chunks : Offset(i) = (i - 1) * FullSize
<1> DEFINE B == {m \in Nat : m + 1 \in Chunks /\ SumFunctionOnSet(ChunkSizes, 1..m) # m * FullSize}
<1>1. B = {}
  <2> SUFFICES ASSUME B # {} PROVE FALSE
    OBVIOUS
  <2>1. PICK m \in B : \A j \in B : m <= j
    <3>1. B \in SUBSET Nat
      OBVIOUS
    <3> HIDE DEF B
    <3> QED BY <3>1, SmallestNat
  <2>2. m \in Nat /\ m + 1 \in Chunks /\ SumFunctionOnSet(ChunkSizes, 1..m) # m * FullSize
    OBVIOUS
  <2>3. m # 0
    <3>1. ASSUME m = 0 PROVE FALSE
      <4>1. 1..m = {}
        BY <3>1
      <4>2. m * FullSize = 0
        BY <3>1, SizesAre
      <4> QED BY <2>2, <4>1, <4>2, SumEmpty
    <3> QED BY <3>1
  <2> DEFINE j == m - 1
  <2>4. j \in Nat /\ m = j + 1 /\ j + 1 \in Chunks /\ j < m
    BY <2>2, <2>3, SizesAre
  <2>5. SumFunctionOnSet(ChunkSizes, 1..j) = j * FullSize
    <3>1. j \notin B
      BY <2>1, <2>4
    <3> QED BY <2>4, <3>1
  <2> HIDE DEF j, B
  <2>6. 1..m = (1..j) \cup {m} /\ m \notin 1..j /\ IsFiniteSet(1..j)
    <3>1. 1..m = (1..j) \cup {m} /\ m \notin 1..j
      BY <2>4
    <3>2. IsFiniteSet(1..j)
      BY <2>4, FS_Interval
    <3> QED BY <3>1, <3>2
  <2>7. ChunkSizes[m] = FullSize /\ \A x \in (1..j) \cup {m} : ChunkSizes[x] \in Int
    BY <2>2, <2>4, <2>6, SizesAre
  <2>8. SumFunctionOnSet(ChunkSizes, (1..j) \cup {m}) = ChunkSizes[m] + SumFunctionOnSet(ChunkSizes, 1..j)
    BY <2>6, <2>7, SumAdd
  <2>9. m * FullSize = FullSize + j * FullSize
    BY <2>4, SizesAre
  <2> QED BY <2>2, <2>5, <2>6, <2>7, <2>8, <2>9
<1>2. ASSUME NEW i \in Chunks PROVE Offset(i) = (i - 1) * FullSize
  <2>1. i - 1 \in Nat /\ (i - 1) + 1 \in Chunks
    BY SizesAre
  <2> QED BY <1>1, <2>1 DEF Offset
<1> QED BY <1>2

LEMMA WholeMultiple ==
    ASSUME NEW a \in Nat, NEW k \in Nat \ {0}
    PROVE  (a * k) % k = 0 /\ (a * k) \div k = a
OBVIOUS

\* A smaller size than the chunks' gives a number at least as large.
LEMMA LargerNumber ==
    ASSUME NEW a \in Nat, NEW k \in Nat \ {0}, NEW l \in Nat \ {0}, l <= k
    PROVE  (a * k) \div l \in Nat /\ (a * k) \div l >= a
<1> DEFINE q == (a * k) \div l
           m == (a * k) % l
<1>1. a * k \in Nat
  OBVIOUS
<1>2. q \in Nat /\ m \in Nat /\ m < l /\ a * k = l * q + m
  BY <1>1
<1> HIDE DEF q, m
<1>3. l * a <= k * a /\ k * a = a * k
  OBVIOUS
<1>4. ASSUME q < a PROVE FALSE
  <2>1. q + 1 <= a
    BY <1>2, <1>4
  <2>2. l * (q + 1) <= l * a
    BY <1>2, <2>1
  <2>3. l * (q + 1) = l * q + l
    BY <1>2
  <2> QED BY <1>1, <1>2, <1>3, <2>2, <2>3
<1> QED BY <1>2, <1>4 DEF q

\* The size a chunk is expected to have, as postDataItemChunk computes it.
Expected(x, i, size) == IF Raises(size, i) THEN Raised(x, ChunkSizes[i]).size ELSE size
Number(x, i, size) == (Offset(i) \div Expected(x, i, size)) + 1
Upload == [size : Sizes, failed : BOOLEAN]

LEMMA RaisedIs ==
    ASSUME NEW x \in Items, row[x] \in Upload \cup {None}, NEW i \in Chunks
    PROVE  /\ Raised(x, ChunkSizes[i]) \in Upload
           /\ Raised(x, ChunkSizes[i]).size \in {FullSize, LastSize}
           /\ i # Last => Raised(x, ChunkSizes[i]).size = FullSize
<1> DEFINE s == ChunkSizes[i]
<1>1. s \in {FullSize, LastSize} /\ (i # Last => s = FullSize) /\ FullSize \in Nat \ {0} /\ LastSize \in Nat \ {0} /\ LastSize <= FullSize
  BY SizesAre
<1>2. CASE row[x] = None
  BY <1>1, <1>2 DEF Raised, Upload, Sizes
<1>3. CASE row[x] # None
  <2> DEFINE was == row[x]
             now == Larger(was.size, s)
  <2>1. was \in Upload /\ was.size \in Sizes
    BY <1>3 DEF Upload
  <2>2. now \in {FullSize, LastSize} /\ now \in Sizes /\ (i # Last => now = FullSize)
    BY <1>1, <2>1 DEF Sizes, Larger
  <2>3. Raised(x, s) = [was EXCEPT !.size = now]
    BY <1>3 DEF Raised
  <2> HIDE DEF now, was
  <2>4. [was EXCEPT !.size = now] \in Upload /\ [was EXCEPT !.size = now].size = now
    BY <2>1, <2>2 DEF Upload
  <2> QED BY <2>2, <2>3, <2>4
<1> QED BY <1>2, <1>3

\* Each full chunk has its own number, and the last one a number behind all of those.
LEMMA NumberIs ==
    ASSUME NEW x \in Items, row[x] \in Upload \cup {None}, NEW i \in Chunks, NEW size \in Sizes
    PROVE  /\ Expected(x, i, size) \in Sizes /\ Number(x, i, size) \in Nat
           /\ i # Last => Number(x, i, size) = i
           /\ i = Last => Number(x, i, size) >= Last
<1> DEFINE e == Expected(x, i, size)
<1>1. /\ ChunkSizes[i] = (IF i = Last THEN LastSize ELSE FullSize) /\ FullSize \in Nat \ {0} /\ LastSize \in Nat \ {0} /\ LastSize <= FullSize
      /\ i \in Nat \ {0} /\ Last \in Nat
  BY SizesAre
<1>2. e \in {FullSize, LastSize} /\ (i # Last => e = FullSize)
  <2>1. CASE Raises(size, i)
    BY <2>1, RaisedIs DEF Expected
  <2>2. CASE ~Raises(size, i)
    BY <1>1, <2>2 DEF Expected, Raises, Sizes
  <2> QED BY <2>1, <2>2
<1>3. Offset(i) = (i - 1) * FullSize /\ i - 1 \in Nat
  BY <1>1, OffsetIs
<1>4. Number(x, i, size) = (((i - 1) * FullSize) \div e) + 1
  BY <1>3 DEF Number
<1> HIDE DEF e
<1>5. ((i - 1) * FullSize) \div FullSize = i - 1
  BY <1>1, <1>3, WholeMultiple
<1>6. ((i - 1) * FullSize) \div e \in Nat /\ ((i - 1) * FullSize) \div e >= i - 1
  <2>1. e \in Nat \ {0} /\ e <= FullSize
    BY <1>1, <1>2
  <2> QED BY <1>1, <1>3, <2>1, LargerNumber
<1>7. e \in Sizes
  BY <1>2 DEF Sizes
<1>8. i # Last => Number(x, i, size) = i
  BY <1>1, <1>2, <1>4, <1>5
<1>9. Number(x, i, size) \in Nat /\ (i = Last => Number(x, i, size) >= Last)
  BY <1>1, <1>4, <1>6
<1> QED BY <1>7, <1>8, <1>9 DEF e
(***************************************************************************)
(* Chunks are assembled in their order.                                    *)
(***************************************************************************)
\* Steps of a finalization up to the object's move: all of its chunks were answered.
ReadySteps == {"finalize", "assemble", "enqueue job", "validate", "finish", "place"}
AllWays ==
    PostWays \cup FinalizeWays \cup
        {<<"remove", "refund">>, <<"refund", "APPROVAL_FAILED">>, <<"APPROVAL_FAILED">>}
Asking == [x : Items, via : {"post", "finalize"}, do : AllWays]
Ready(x) == sent[x] = Chunks /\ begun[x] > 0

Requested == run \in [Requests -> Asking \cup {None}]
AskedWhenReady ==
    /\ \A r \in Requests : run[r] # None /\ Head(run[r].do) \in ReadySteps => Ready(run[r].x)
    /\ \A x \in Items : jobs[x] > 0 => Ready(x)
Tables ==
    /\ row \in [Items -> Upload \cup {None}] /\ copies \in [Items -> SUBSET Sizes]
    /\ object \in [Items -> {None, "parts", "whole", "jumbled"}]
    /\ parts \in [Items -> SUBSET (Nat \X Chunks)] /\ sent \in [Items -> SUBSET Chunks]
    /\ begun \in [Items -> Nat] /\ jobs \in [Items -> Nat]
\* Without parts there are no chunks, until a request has begun.
Unstarted ==
    \A x \in Items : begun[x] = 0 /\ object[x] # "parts" => sent[x] = {} /\ parts[x] = {}
\* There is one part of each chunk answered: a full one has its own number, and the last
\* one a number behind all of theirs.
Matched(x) ==
    /\ \A q \in parts[x] : q[2] \in sent[x] /\ IF q[2] = Last THEN q[1] >= Last ELSE q[1] = q[2]
    /\ \A i \in sent[x] : \E q \in parts[x] : q[2] = i
    /\ \A q, q2 \in parts[x] : q[2] = q2[2] => q = q2
InPlace ==
    "repeated chunk" \notin happened =>
        \A x \in Items : object[x] # "jumbled" /\ (object[x] = "parts" => Matched(x))

Assembling == Requested /\ AskedWhenReady /\ Tables /\ Unstarted /\ InPlace

\* The ways a request ends: what is left after the first of it.
OneEnd == {"remove", "quarantine", "UNDERFUNDED", "refund", "APPROVAL_FAILED"}
TwoEnds ==
    {<<"remove", "quarantine">>, <<"refund", "quarantine">>, <<"remove", "refund">>,
     <<"refund", "APPROVAL_FAILED">>}
Ends == {undo} \cup TwoEnds \cup {<<s>> : s \in OneEnd}
LEMMA EndsIn ==
    /\ \A d \in AllWays : Head(d) \in {"refund", "remove", "quarantine"} \cup Reasons => d \in Ends
    /\ \A d \in Ends : Tail(d) # <<>> =>
          Tail(d) \in {<<"remove", "quarantine">>, <<"quarantine">>, <<"refund">>, <<"APPROVAL_FAILED">>}
<1> DEFINE Ending == {"refund", "remove", "quarantine"} \cup Reasons
           Others == {<<"remove", "refund">>, <<"refund", "APPROVAL_FAILED">>, <<"APPROVAL_FAILED">>}
<1>1. \A d \in PostWays : Head(d) \in Ending => d \in Ends
  BY Lasts DEF Ends, TwoEnds, OneEnd
<1>2. \A d \in GoingOn : Head(d) \notin Ending
  <2>1. "finalize" \in FinalizeSteps /\ "assemble" \in FinalizeSteps
    BY DEF FinalizeSteps
  <2>2. \A d \in GoingOn : Head(d) \in FinalizeSteps
    BY <2>1, Heads DEF GoingOn
  <2> QED BY <2>2 DEF FinalizeSteps, Reasons
<1>3. GivenUp \subseteq Ends /\ Others \subseteq Ends
  BY DEF GivenUp, Ends, TwoEnds, OneEnd
<1>4. \A d \in Ends : Tail(d) # <<>> =>
          Tail(d) \in {<<"remove", "quarantine">>, <<"quarantine">>, <<"refund">>, <<"APPROVAL_FAILED">>}
  <2>1. Tail(undo) = <<"remove", "quarantine">>
    BY Tails DEF undo
  <2>2. \A d \in TwoEnds : Tail(d) \in {<<"quarantine">>, <<"refund">>, <<"APPROVAL_FAILED">>}
    BY Tails DEF TwoEnds
  <2>3. \A d \in {<<s>> : s \in OneEnd} : Tail(d) = <<>>
    BY Tails
  <2> QED BY <2>1, <2>2, <2>3 DEF Ends
<1> HIDE DEF Ending
<1>5. \A d \in AllWays : Head(d) \in Ending => d \in Ends
  BY <1>1, <1>2, <1>3 DEF AllWays, FinalizeWays
<1> QED BY <1>4, <1>5 DEF Ending

\* What a request may have to do next that needs no chunks.
OneStep ==
    {"check", "lookup", "mark", "balance", "store", "reserve", "tags", "sign", "enqueue",
     "pay", "approve", "insert"}
AnyTime == Ends \cup {<<s>> : s \in OneStep}
WhenReady ==
    {<<"finalize">>, <<"finalize", "async">>, <<"assemble">>, <<"assemble", "async">>,
     <<"enqueue job">>, <<"validate">>, <<"finish">>, <<"place">>}

LEMMA NextWays ==
    /\ AnyTime \cup WhenReady \subseteq AllWays
    /\ \A d \in AnyTime : Head(d) \notin ReadySteps
    /\ \A d \in AllWays : d # <<>>
<1>1. WhenReady \subseteq AllWays
  BY DEF WhenReady, AllWays, FinalizeWays, GoingOn, FinalizeSteps
<1>2. {<<"pay">>, <<"approve">>, <<"insert">>} \subseteq AllWays
  BY DEF AllWays, FinalizeWays, GoingOn, FinalizeSteps
<1>3. AnyTime \subseteq AllWays
  <2>1. Ends \subseteq AllWays
    BY DEF Ends, TwoEnds, OneEnd, AllWays, FinalizeWays, GivenUp, PostWays
  <2>2. {<<s>> : s \in OneStep} \subseteq AllWays
    BY <1>2 DEF OneStep, AllWays, PostWays
  <2> QED BY <2>1, <2>2 DEF AnyTime
<1>4. \A d \in AnyTime : Head(d) \notin ReadySteps
  <2>1. Head(undo) = "refund"
    BY DEF undo
  <2>2. \A d \in TwoEnds : Head(d) \in {"remove", "refund"}
    BY Heads DEF TwoEnds
  <2>3. (\A d \in {<<s>> : s \in OneEnd} : Head(d) \in OneEnd)
        /\ (\A d \in {<<s>> : s \in OneStep} : Head(d) \in OneStep)
    BY Heads
  <2>4. \A s \in OneEnd \cup OneStep \cup {"remove", "refund"} : s \notin ReadySteps
    BY DEF OneEnd, OneStep, ReadySteps
  <2> HIDE DEF OneEnd, OneStep, ReadySteps
  <2>5. AnyTime = {undo} \cup TwoEnds \cup {<<s>> : s \in OneEnd} \cup {<<s>> : s \in OneStep}
    BY DEF AnyTime, Ends
  <2> DEFINE A == {<<s>> : s \in OneEnd}
             C == {<<s>> : s \in OneStep}
  <2> HIDE DEF A, C
  <2>6. \A d \in A \cup C \cup TwoEnds \cup {undo} : Head(d) \notin ReadySteps
    BY <2>1, <2>2, <2>3, <2>4 DEF A, C
  <2> QED BY <2>5, <2>6 DEF A, C
<1>5. \A d \in AllWays : d # <<>>
  BY Steps DEF AllWays
<1> QED BY <1>1, <1>3, <1>4, <1>5

(***************************************************************************)
(* Requests: those at a step of a finalization had their item's chunks     *)
(* answered.                                                               *)
(***************************************************************************)
LEMMA AskedIs ==
    ASSUME Requested, NEW r \in Requests, run[r] # None
    PROVE  run[r] \in Asking /\ run[r].x \in Items /\ run[r].do \in AllWays
<1>1. run[r] \in Asking
  BY DEF Requested
<1> QED BY <1>1 DEF Asking

LEMMA Onward ==
    ASSUME Requested, AskedWhenReady, NEW r \in Requests, run[r] # None, NEW d, Do(r, d),
           NEW x, run[r].x = x, d = <<>> \/ d \in AnyTime \/ (d \in WhenReady /\ Ready(x)'),
           \A y \in Items : (Ready(y) => Ready(y)') /\ (jobs'[y] > 0 => Ready(y)')
    PROVE  Requested' /\ AskedWhenReady'
<1> DEFINE next == [run[r] EXCEPT !.do = d]
<1>1. run[r] \in Asking /\ run \in [Requests -> Asking \cup {None}]
  BY AskedIs DEF Requested
<1>2. run' = [run EXCEPT ![r] = IF d = <<>> THEN None ELSE next]
  BY DEF Do
<1>3. d # <<>> => next \in Asking /\ next.x = run[r].x /\ next.do = d
  BY <1>1, NextWays DEF Asking
<1> HIDE DEF next
<1>4. Requested'
  BY <1>1, <1>2, <1>3 DEF Requested
<1>5. run'[r] = (IF d = <<>> THEN None ELSE next) /\ \A q \in Requests \ {r} : run'[q] = run[q]
  BY <1>1, <1>2
<1>6. ASSUME NEW q \in Requests, run'[q] # None, Head(run'[q].do) \in ReadySteps
      PROVE  Ready(run[q].x)'
  <2>1. CASE q = r
    <3>1. run'[q] = next /\ next.x = run[r].x /\ next.do = d /\ d # <<>>
      BY <1>3, <1>5, <1>6, <2>1
    <3>2. d \notin AnyTime
      BY <1>6, <3>1, NextWays
    <3>3. Ready(x)'
      BY <3>1, <3>2
    <3> QED BY <3>1, <3>3 DEF Ready
  <2>2. CASE q # r
    <3>1. run'[q] = run[q]
      BY <1>5, <2>2
    <3>2. Ready(run[q].x) /\ run[q].x \in Items
      BY <1>6, <3>1, AskedIs DEF AskedWhenReady
    <3>3. Ready(run[q].x) => sent'[run[q].x] = Chunks /\ begun'[run[q].x] > 0
      BY <3>2 DEF Ready
    <3> QED BY <3>1, <3>2, <3>3 DEF Ready
  <2> QED BY <2>1, <2>2
<1> QED BY <1>4, <1>6 DEF AskedWhenReady

LEMMA Asks ==
    ASSUME Requested, AskedWhenReady, NEW x \in Items, NEW via \in {"post", "finalize"}, NEW d,
           Begin(x, via, d), d \in AnyTime \/ (d \in WhenReady /\ Ready(x)'),
           \A y \in Items : (Ready(y) => Ready(y)') /\ (jobs'[y] > 0 => Ready(y)')
    PROVE  Requested' /\ AskedWhenReady'
<1> DEFINE new == [x |-> x, via |-> via, do |-> d]
<1>1. PICK r \in Requests : run[r] = None /\ run' = [run EXCEPT ![r] = new]
  <2>1. \E r \in Requests : run[r] = None
    BY DEF Begin
  <2> QED BY <2>1 DEF Begin
<1>2. new \in Asking /\ new.x = x /\ new.do = d
  BY NextWays DEF Asking
<1>3. run \in [Requests -> Asking \cup {None}]
  BY DEF Requested
<1>4. run'[r] = new /\ \A q \in Requests \ {r} : run'[q] = run[q]
  BY <1>1, <1>3
<1> HIDE DEF new
<1>5. Requested'
  BY <1>1, <1>2, <1>3 DEF Requested
<1>6. ASSUME NEW q \in Requests, run'[q] # None, Head(run'[q].do) \in ReadySteps
      PROVE  Ready(run[q].x)'
  <2>1. CASE q = r
    <3>1. d \notin AnyTime
      BY <1>2, <1>4, <1>6, <2>1, NextWays
    <3> QED BY <1>2, <1>4, <2>1, <3>1 DEF Ready
  <2>2. CASE q # r
    <3>1. run'[q] = run[q]
      BY <1>4, <2>2
    <3>2. Ready(run[q].x) /\ run[q].x \in Items
      BY <1>6, <3>1, AskedIs DEF AskedWhenReady
    <3>3. Ready(run[q].x) => sent'[run[q].x] = Chunks /\ begun'[run[q].x] > 0
      BY <3>2 DEF Ready
    <3> QED BY <3>1, <3>2, <3>3 DEF Ready
  <2> QED BY <2>1, <2>2
<1> QED BY <1>5, <1>6 DEF AskedWhenReady

(***************************************************************************)
(* Steps that leave the chunks alone.                                      *)
(***************************************************************************)
LEMMA Kept ==
    ASSUME Assembling, UNCHANGED <<copies, object, parts, sent>>,
           row' \in [Items -> Upload \cup {None}], jobs' \in [Items -> Nat],
           begun' \in [Items -> Nat], \A x \in Items : begun'[x] >= begun[x],
           happened \subseteq happened'
    PROVE  Tables' /\ Unstarted' /\ InPlace' /\ \A x \in Items : Ready(x) => Ready(x)'
<1>1. Tables'
  BY DEF Assembling, Tables
<1>2. Unstarted'
  BY DEF Assembling, Tables, Unstarted
<1>3. InPlace'
  BY DEF Assembling, InPlace, Matched
<1>4. \A x \in Items : Ready(x) => Ready(x)'
  BY DEF Assembling, Tables, Ready
<1> QED BY <1>1, <1>2, <1>3, <1>4

LEMMA KeptTables ==
    ASSUME Assembling, UNCHANGED <<begun, row, copies, object, parts, sent, jobs>>,
           happened \subseteq happened'
    PROVE  /\ Tables' /\ Unstarted' /\ InPlace'
           /\ \A x \in Items : (Ready(x) => Ready(x)') /\ (jobs'[x] > 0 => Ready(x)')
<1>1. /\ row' \in [Items -> Upload \cup {None}] /\ jobs' \in [Items -> Nat]
      /\ begun' \in [Items -> Nat] /\ \A x \in Items : begun'[x] >= begun[x]
  BY DEF Assembling, Tables
<1>2. Tables' /\ Unstarted' /\ InPlace' /\ \A x \in Items : Ready(x) => Ready(x)'
  BY <1>1, Kept
<1>3. \A x \in Items : jobs'[x] > 0 => Ready(x)'
  BY <1>2 DEF Assembling, AskedWhenReady
<1> QED BY <1>2, <1>3

\* A request goes on without touching the chunks.
LEMMA PlainlyOnward ==
    ASSUME Assembling, NEW r \in Requests, run[r] # None, NEW d, Do(r, d),
           d = <<>> \/ d \in AnyTime \/ (d \in WhenReady /\ Ready(run[r].x)),
           UNCHANGED <<begun, row, copies, object, parts, sent, jobs>>, happened \subseteq happened'
    PROVE  Assembling'
<1> DEFINE x == run[r].x
<1>1. x \in Items
  BY AskedIs DEF Assembling
<1>2. /\ Tables' /\ Unstarted' /\ InPlace'
      /\ \A y \in Items : (Ready(y) => Ready(y)') /\ (jobs'[y] > 0 => Ready(y)')
  BY KeptTables
<1>3. PICK y \in Items : y = x
  BY <1>1
<1>4. d \in WhenReady /\ Ready(run[r].x) => Ready(y)'
  BY <1>2, <1>3
<1>5. Requested' /\ AskedWhenReady'
  BY <1>2, <1>3, <1>4, Onward DEF Assembling
<1> QED BY <1>2, <1>5 DEF Assembling

\* The ends of a request, one after the other.
LEMMA RestIs ==
    ASSUME Requested, NEW r \in Requests, run[r] # None,
           Head(run[r].do) \in {"refund", "remove", "quarantine"} \cup Reasons, Rest(r)
    PROVE  \E d \in AnyTime \cup {<<>>} : Do(r, d)
<1>1. run[r].do \in Ends
  BY AskedIs, EndsIn
<1>2. Tail(run[r].do) = <<>> \/ Tail(run[r].do) \in
          {<<"remove", "quarantine">>, <<"quarantine">>, <<"refund">>, <<"APPROVAL_FAILED">>}
  BY <1>1, EndsIn
<1>3. {<<"remove", "quarantine">>, <<"quarantine">>, <<"refund">>, <<"APPROVAL_FAILED">>} \subseteq AnyTime
  BY DEF AnyTime, Ends, TwoEnds, OneEnd
<1> QED BY <1>2, <1>3 DEF Rest

LEMMA AnyTimeIs ==
    /\ \A s \in OneStep \cup OneEnd : <<s>> \in AnyTime
    /\ undo \in AnyTime /\ \A d \in TwoEnds : d \in AnyTime
BY DEF AnyTime, Ends

LEMMA PostGoes ==
    ASSUME Requested, NEW r \in Requests, PostStep(r) \/ Crash(r)
    PROVE  run[r] # None /\ UNCHANGED begun /\ \E d \in AnyTime \cup {<<>>} : Do(r, d)
<1>1. CASE \/ dataItemIsInFlight(r) \/ getExistingDataItemIds(r) \/ markInFlight(r)
           \/ checkBalanceForData(r)
  <2>1. run[r] # None /\ UNCHANGED begun
    BY <1>1 DEF dataItemIsInFlight, getExistingDataItemIds, markInFlight, checkBalanceForData, At
  <2>2. \E s \in {"lookup", "mark", "balance", "store", "remove"} : Do(r, <<>>) \/ Do(r, <<s>>)
    BY <1>1 DEF dataItemIsInFlight, getExistingDataItemIds, markInFlight, checkBalanceForData, End
  <2>3. {"lookup", "mark", "balance", "store", "remove"} \subseteq OneStep \cup OneEnd
    BY DEF OneStep, OneEnd
  <2> QED BY <2>1, <2>2, <2>3, AnyTimeIs
<1>2. CASE cacheDataItem(r) \/ reserveBalanceForData(r)
  <2>1. run[r] # None /\ UNCHANGED begun
    BY <1>2 DEF cacheDataItem, reserveBalanceForData, At
  <2>2. \/ Do(r, <<"remove">>) \/ Do(r, <<"reserve">>) \/ Do(r, <<"tags">>)
        \/ Do(r, <<"remove", "quarantine">>)
    BY <1>2 DEF cacheDataItem, reserveBalanceForData
  <2>3. {"remove", "reserve", "tags"} \subseteq OneStep \cup OneEnd /\ <<"remove", "quarantine">> \in TwoEnds
    BY DEF OneStep, OneEnd, TwoEnds
  <2> QED BY <2>1, <2>2, <2>3, AnyTimeIs
<1>3. CASE createDelegatedPaymentApproval(r) \/ signReceipt(r) \/ enqueueNewDataItem(r)
  <2>1. run[r] # None /\ UNCHANGED begun
    BY <1>3 DEF createDelegatedPaymentApproval, signReceipt, enqueueNewDataItem, At
  <2>2. \/ Do(r, <<"remove">>) \/ Do(r, <<"sign">>) \/ Do(r, <<"enqueue">>) \/ Do(r, undo)
        \/ Do(r, <<"remove", "refund">>) \/ Do(r, <<>>)
    BY <1>3 DEF createDelegatedPaymentApproval, signReceipt, enqueueNewDataItem, End
  <2>3. {"remove", "sign", "enqueue"} \subseteq OneStep \cup OneEnd /\ <<"remove", "refund">> \in TwoEnds
    BY DEF OneStep, OneEnd, TwoEnds
  <2> QED BY <2>1, <2>2, <2>3, AnyTimeIs
<1>4. CASE refundBalanceForData(r) \/ removeFromInFlight(r) \/ performQuarantine(r)
  <2>1. /\ run[r] # None /\ UNCHANGED begun /\ Rest(r)
        /\ Head(run[r].do) \in {"refund", "remove", "quarantine"} \cup Reasons
    BY <1>4 DEF refundBalanceForData, removeFromInFlight, performQuarantine, At
  <2> QED BY <2>1, RestIs
<1>5. CASE Crash(r)
  BY <1>5 DEF Crash, End
<1> QED BY <1>1, <1>2, <1>3, <1>4, <1>5 DEF PostStep

LEMMA PostingStep ==
    ASSUME Assembling, Next, NEW r \in Requests, PostStep(r) \/ Crash(r), UNCHANGED mpuVars
    PROVE  Assembling'
<1>1. happened \subseteq happened'
  BY Grows
<1>2. run[r] # None /\ UNCHANGED begun /\ \E d \in AnyTime \cup {<<>>} : Do(r, d)
  BY PostGoes DEF Assembling
<1>3. UNCHANGED <<begun, row, copies, object, parts, sent, jobs>>
  BY <1>2 DEF mpuVars
<1> QED BY <1>1, <1>2, <1>3, PlainlyOnward

\* The steps of a finalization once the object was moved, and the first of all.
LEMMA PayingStep ==
    ASSUME Assembling, Next, NEW r \in Requests,
           \/ reserveForMultipart(r) \/ approveForMultipart(r) \/ failFinishedMultiPartUpload(r)
           \/ insertNewDataItem(r)
    PROVE  Assembling'
<1>1. happened \subseteq happened'
  BY Grows
<1>2. run[r] # None /\ UNCHANGED <<begun, row, copies, object, parts, sent, jobs>>
  BY DEF reserveForMultipart, approveForMultipart, failFinishedMultiPartUpload, insertNewDataItem,
         mpuVars, At
<1>3. \E d \in AnyTime \cup {<<>>} : Do(r, d)
  <2>1. CASE reserveForMultipart(r) \/ approveForMultipart(r) \/ insertNewDataItem(r)
    <3>1. \/ Do(r, <<"approve">>) \/ Do(r, <<"UNDERFUNDED">>) \/ Do(r, <<"insert">>)
          \/ Do(r, <<"refund">>) \/ Do(r, <<>>)
          \/ Do(r, <<"refund", "APPROVAL_FAILED">>) \/ Do(r, <<"refund", "quarantine">>)
      BY <2>1 DEF reserveForMultipart, approveForMultipart, insertNewDataItem, End
    <3>2. /\ {"approve", "UNDERFUNDED", "insert", "refund"} \subseteq OneStep \cup OneEnd
          /\ {<<"refund", "APPROVAL_FAILED">>, <<"refund", "quarantine">>} \subseteq TwoEnds
      BY DEF OneStep, OneEnd, TwoEnds
    <3> QED BY <3>1, <3>2, AnyTimeIs
  <2>2. CASE failFinishedMultiPartUpload(r)
    <3>1. Head(run[r].do) \in {"refund", "remove", "quarantine"} \cup Reasons /\ Rest(r)
      BY <2>2 DEF failFinishedMultiPartUpload
    <3> QED BY <1>2, <3>1, RestIs DEF Assembling
  <2> QED BY <2>1, <2>2
<1> QED BY <1>1, <1>2, <1>3, PlainlyOnward

(***************************************************************************)
(* The parts of all chunks, assembled.                                     *)
(***************************************************************************)
LEMMA MatchedInOrder ==
    ASSUME NEW x \in Items, parts[x] \in SUBSET (Nat \X Chunks), sent[x] = Chunks, Matched(x)
    PROVE  InOrder(x)
<1>1. \A q \in parts[x] : q[1] \in Nat /\ q[2] \in Chunks /\ q[2] \in Nat /\ q[2] <= Last
  BY SizesAre
<1>2. {q[2] : q \in parts[x]} = Chunks
  BY <1>1 DEF Matched
<1>3. ASSUME NEW q \in parts[x], NEW q2 \in parts[x] PROVE q[1] < q2[1] <=> q[2] < q2[2]
  <2>1. /\ IF q[2] = Last THEN q[1] >= Last ELSE q[1] = q[2]
        /\ IF q2[2] = Last THEN q2[1] >= Last ELSE q2[1] = q2[2]
        /\ q[2] = q2[2] => q = q2
    BY DEF Matched
  <2>2. /\ q[1] \in Nat /\ q[2] \in Nat /\ q[2] <= Last
        /\ q2[1] \in Nat /\ q2[2] \in Nat /\ q2[2] <= Last
    BY <1>1
  <2>3. CASE q[2] = q2[2]
    BY <2>1, <2>2, <2>3
  <2>4. CASE q[2] # q2[2]
    BY <2>1, <2>2, <2>4, SizesAre
  <2> QED BY <2>3, <2>4
<1> QED BY <1>2, <1>3 DEF InOrder

LEMMA ReadyAt ==
    ASSUME Assembling, NEW r \in Requests, NEW step \in ReadySteps, At(r, step)
    PROVE  run[r] # None /\ run[r].x \in Items /\ Ready(run[r].x)
BY AskedIs DEF Assembling, AskedWhenReady, At

LEMMA FirstStep ==
    ASSUME Assembling, Next, NEW r \in Requests, finalizeMultipartUpload(r)
    PROVE  Assembling'
<1>1. run[r] # None /\ Ready(run[r].x)
  BY ReadyAt DEF finalizeMultipartUpload, ReadySteps
<1>2. UNCHANGED <<begun, row, copies, object, parts, sent, jobs>> /\ happened \subseteq happened'
  BY Grows DEF finalizeMultipartUpload, mpuVars
<1>3. \E d \in {<<"assemble">>, <<"assemble", "async">>, <<"place">>, <<>>} : Do(r, d)
  BY DEF finalizeMultipartUpload, End
<1>4. {<<"assemble">>, <<"assemble", "async">>, <<"place">>} \subseteq WhenReady
  BY DEF WhenReady
<1> QED BY <1>1, <1>2, <1>3, <1>4, PlainlyOnward

LEMMA ReadyBegun == ASSUME Tables, NEW x \in Items, Ready(x) PROVE begun[x] # 0
<1>1. begun[x] \in Nat /\ begun[x] > 0
  BY DEF Tables, Ready
<1> QED BY <1>1

\* Where the chunks of an item that is ready are assembled, or the object is moved.
LEMMA Moves ==
    ASSUME Assembling, NEW x \in Items, Ready(x), NEW o \in {None, "whole", "jumbled"},
           object' = [object EXCEPT ![x] = o], parts' \in {parts, [parts EXCEPT ![x] = {}]},
           UNCHANGED <<begun, row, copies, sent, jobs>>, happened \subseteq happened',
           "repeated chunk" \notin happened' => o # "jumbled"
    PROVE  /\ Tables' /\ Unstarted' /\ InPlace'
           /\ \A y \in Items : (Ready(y) => Ready(y)') /\ (jobs'[y] > 0 => Ready(y)')
<1>1. Tables
  BY DEF Assembling
<1>2. /\ object' \in [Items -> {None, "parts", "whole", "jumbled"}]
      /\ parts' \in [Items -> SUBSET (Nat \X Chunks)]
  BY <1>1 DEF Tables
<1>3. object'[x] = o /\ \A y \in Items \ {x} : object'[y] = object[y] /\ parts'[y] = parts[y]
  BY <1>1 DEF Tables
<1>4. o # "parts"
  BY MultipartAssumption
<1>5. Tables'
  BY <1>1, <1>2 DEF Tables
<1>6. begun[x] # 0
  BY <1>1, ReadyBegun
<1>7. Unstarted'
  BY <1>3, <1>6 DEF Assembling, Unstarted
<1>8. InPlace'
  <2> SUFFICES ASSUME "repeated chunk" \notin happened', NEW y \in Items
               PROVE  object'[y] # "jumbled" /\ (object'[y] = "parts" => Matched(y)')
    BY DEF InPlace
  <2>1. object[y] # "jumbled" /\ (object[y] = "parts" => Matched(y))
    BY DEF Assembling, InPlace
  <2>2. CASE y = x
    BY <1>3, <1>4, <2>2
  <2>3. CASE y # x
    <3>1. object'[y] = object[y] /\ parts'[y] = parts[y] /\ sent'[y] = sent[y]
      BY <1>3, <2>3
    <3> QED BY <2>1, <3>1 DEF Matched
  <2> QED BY <2>2, <2>3
<1>9. \A y \in Items : (Ready(y) => Ready(y)') /\ (jobs'[y] > 0 => Ready(y)')
  BY DEF Ready, Assembling, AskedWhenReady
<1> QED BY <1>5, <1>7, <1>8, <1>9

LEMMA AssembleStep ==
    ASSUME Assembling, Next, NEW r \in Requests, finalizeMPUWithInFlightEntity(r)
    PROVE  Assembling'
<1> DEFINE x == run[r].x
<1>1. run[r] # None /\ x \in Items /\ Ready(x)
  BY ReadyAt DEF finalizeMPUWithInFlightEntity, ReadySteps
<1>2. UNCHANGED <<begun, row, copies, sent, jobs>> /\ happened \subseteq happened'
  BY Grows DEF finalizeMPUWithInFlightEntity
<1>3. \E d \in {<<"validate">>, <<"enqueue job">>, <<>>} : Do(r, d)
  BY DEF finalizeMPUWithInFlightEntity, End
<1>4. {<<"validate">>, <<"enqueue job">>} \subseteq WhenReady
  BY DEF WhenReady
<1>5. CASE UNCHANGED <<object, parts>>
  <2>1. UNCHANGED <<begun, row, copies, object, parts, sent, jobs>>
    BY <1>2, <1>5
  <2> QED BY <1>1, <1>2, <1>3, <1>4, <2>1, PlainlyOnward
<1>6. CASE ~UNCHANGED <<object, parts>>
  <2> DEFINE o == IF InOrder(x) THEN "whole" ELSE "jumbled"
  <2>1. /\ object[x] = "parts" /\ object' = [object EXCEPT ![x] = o]
        /\ parts' = [parts EXCEPT ![x] = {}]
    BY <1>6 DEF finalizeMPUWithInFlightEntity
  <2>2. "repeated chunk" \notin happened' => InOrder(x)
    <3>1. "repeated chunk" \notin happened' => Matched(x)
      BY <1>1, <1>2, <2>1 DEF Assembling, InPlace
    <3>2. parts[x] \in SUBSET (Nat \X Chunks) /\ sent[x] = Chunks
      BY <1>1 DEF Assembling, Tables, Ready
    <3> QED BY <1>1, <3>1, <3>2, MatchedInOrder
  <2>3. o \in {None, "whole", "jumbled"} /\ ("repeated chunk" \notin happened' => o # "jumbled")
    BY <2>2
  <2> HIDE DEF o, x
  <2>4. parts' \in {parts, [parts EXCEPT ![x] = {}]}
    BY <2>1
  <2>5. /\ Tables' /\ Unstarted' /\ InPlace'
        /\ \A y \in Items : (Ready(y) => Ready(y)') /\ (jobs'[y] > 0 => Ready(y)')
    BY <1>1, <1>2, <2>1, <2>3, <2>4, Moves
  <2>6. PICK y \in Items : y = run[r].x /\ Ready(y)
    BY <1>1 DEF x
  <2>7. Requested' /\ AskedWhenReady'
    BY <1>1, <1>3, <1>4, <2>5, <2>6, Onward DEF Assembling
  <2> QED BY <2>5, <2>7 DEF Assembling
<1> QED BY <1>5, <1>6

LEMMA PlaceStep ==
    ASSUME Assembling, Next, NEW r \in Requests, finalizeMPUWithValidatedInfo(r)
    PROVE  Assembling'
<1> DEFINE x == run[r].x
<1>1. run[r] # None /\ x \in Items /\ Ready(x)
  BY ReadyAt DEF finalizeMPUWithValidatedInfo, ReadySteps
<1>2. UNCHANGED <<begun, row, copies, parts, sent, jobs>> /\ happened \subseteq happened'
  BY Grows DEF finalizeMPUWithValidatedInfo, faultVars
<1>3. \E d \in {<<"pay">>, <<>>} : Do(r, d)
  BY DEF finalizeMPUWithValidatedInfo, End
<1>4. <<"pay">> \in AnyTime
  BY AnyTimeIs DEF OneStep
<1>5. CASE UNCHANGED object
  <2>1. UNCHANGED <<begun, row, copies, object, parts, sent, jobs>>
    BY <1>2, <1>5
  <2> QED BY <1>1, <1>2, <1>3, <1>4, <2>1, PlainlyOnward
<1>6. CASE object' = [object EXCEPT ![x] = None]
  <2>1. parts' \in {parts, [parts EXCEPT ![x] = {}]}
    BY <1>2
  <2>2. None \in {None, "whole", "jumbled"} /\ None # "jumbled"
    BY MultipartAssumption
  <2> HIDE DEF x
  <2>3. /\ Tables' /\ Unstarted' /\ InPlace'
        /\ \A y \in Items : (Ready(y) => Ready(y)') /\ (jobs'[y] > 0 => Ready(y)')
    BY <1>1, <1>2, <1>6, <2>1, <2>2, Moves
  <2>4. Requested' /\ AskedWhenReady'
    BY <1>1, <1>3, <1>4, <2>3, Onward DEF Assembling
  <2> QED BY <2>3, <2>4 DEF Assembling
<1> QED BY <1>5, <1>6 DEF finalizeMPUWithValidatedInfo

\* Steps that change the upload's row, or the jobs.
LEMMA RowStep ==
    ASSUME Assembling, Next, NEW r \in Requests,
           enqueueFinalizeUpload(r) \/ validateMultipartUpload(r) \/ finalizeMultiPartUpload(r)
    PROVE  Assembling'
<1> DEFINE x == run[r].x
<1>1. run[r] # None /\ x \in Items /\ Ready(x)
  BY ReadyAt DEF enqueueFinalizeUpload, validateMultipartUpload, finalizeMultiPartUpload, ReadySteps
<1>2. UNCHANGED <<begun, copies, object, parts, sent>> /\ happened \subseteq happened'
  BY Grows DEF enqueueFinalizeUpload, validateMultipartUpload, finalizeMultiPartUpload
<1>3. \E d \in {<<"finish">>, <<"place">>, <<>>} : Do(r, d)
  BY DEF enqueueFinalizeUpload, validateMultipartUpload, finalizeMultiPartUpload, End
<1>4. {<<"finish">>, <<"place">>} \subseteq WhenReady
  BY DEF WhenReady
<1>5. Tables
  BY DEF Assembling
<1>6. row' \in [Items -> Upload \cup {None}]
  <2>1. row[x] # None => [row[x] EXCEPT !.failed = TRUE] \in Upload
    BY <1>1, <1>5 DEF Tables, Upload
  <2>2. row' \in {row, [row EXCEPT ![x] = None]} \/ (row[x] # None /\ row' = [row EXCEPT ![x].failed = TRUE])
    BY DEF enqueueFinalizeUpload, validateMultipartUpload, finalizeMultiPartUpload
  <2> QED BY <1>1, <1>5, <2>1, <2>2 DEF Tables
<1>7. jobs' = jobs \/ jobs' = [jobs EXCEPT ![x] = Attempts]
  BY DEF enqueueFinalizeUpload, validateMultipartUpload, finalizeMultiPartUpload
<1>8. jobs' \in [Items -> Nat]
  BY <1>1, <1>5, <1>7, MultipartAssumption DEF Tables
<1>9. begun' \in [Items -> Nat] /\ \A y \in Items : begun'[y] >= begun[y]
  BY <1>2, <1>5 DEF Tables
<1>10. Tables' /\ Unstarted' /\ InPlace' /\ \A y \in Items : Ready(y) => Ready(y)'
  BY <1>2, <1>6, <1>8, <1>9, Kept
<1>11. \A y \in Items : jobs'[y] > 0 => Ready(y)'
  BY <1>1, <1>5, <1>7, <1>10 DEF Tables, Assembling, AskedWhenReady
<1>12. PICK y \in Items : y = run[r].x /\ Ready(y)
  BY <1>1
<1> HIDE DEF x
<1>13. Requested' /\ AskedWhenReady'
  BY <1>1, <1>3, <1>4, <1>10, <1>11, <1>12, Onward DEF Assembling
<1> QED BY <1>10, <1>13 DEF Assembling

(***************************************************************************)
(* Requests that begin, workers, the clock and the chunks themselves.      *)
(***************************************************************************)
LEMMA BeginningStep ==
    ASSUME Assembling, Next, NEW x \in Items,
           \/ dataItemRoute(x) /\ UNCHANGED mpuVars
           \/ finalizeMultipartUploadWithHttpRequest(x) \/ finalizeUploadWorker(x)
    PROVE  Assembling'
<1>1. UNCHANGED <<row, copies, object, parts, sent>> /\ happened \subseteq happened'
  BY Grows DEF dataItemRoute, finalizeMultipartUploadWithHttpRequest, finalizeUploadWorker, mpuVars
<1>2. Tables
  BY DEF Assembling
<1>3. begun' = begun \/ begun' = [begun EXCEPT ![x] = @ + 1]
  BY DEF dataItemRoute, finalizeMultipartUploadWithHttpRequest, finalizeUploadWorker
<1>4. \/ jobs' = jobs
      \/ jobs[x] > 0 /\ (jobs' = [jobs EXCEPT ![x] = 0] \/ jobs' = [jobs EXCEPT ![x] = @ - 1])
  BY DEF dataItemRoute, finalizeMultipartUploadWithHttpRequest, finalizeUploadWorker, mpuVars
<1>5. begun' \in [Items -> Nat] /\ \A y \in Items : begun'[y] >= begun[y]
  BY <1>2, <1>3 DEF Tables
<1>6. jobs' \in [Items -> Nat] /\ \A y \in Items : jobs'[y] > 0 => jobs[y] > 0
  <2>1. jobs \in [Items -> Nat]
    BY <1>2 DEF Tables
  <2> QED BY <1>4, <2>1
<1>7. row' \in [Items -> Upload \cup {None}]
  BY <1>1, <1>2 DEF Tables
<1>8. Tables' /\ Unstarted' /\ InPlace' /\ \A y \in Items : Ready(y) => Ready(y)'
  BY <1>1, <1>5, <1>6, <1>7, Kept
<1>9. \A y \in Items : (Ready(y) => Ready(y)') /\ (jobs'[y] > 0 => Ready(y)')
  BY <1>6, <1>8 DEF Assembling, AskedWhenReady
<1>10. <<"check">> \in AnyTime /\ {<<"finalize">>, <<"finalize", "async">>} \subseteq WhenReady
  BY AnyTimeIs DEF OneStep, WhenReady
<1>11. Requested /\ AskedWhenReady
  BY DEF Assembling
<1>12. CASE dataItemRoute(x)
  <2>1. Begin(x, "post", <<"check">>)
    BY <1>12 DEF dataItemRoute
  <2>2. Requested' /\ AskedWhenReady'
    BY <1>9, <1>10, <1>11, <2>1, Asks
  <2> QED BY <1>8, <2>2 DEF Assembling
<1>13. CASE finalizeMultipartUploadWithHttpRequest(x)
  <2>1. \E d \in WhenReady : Begin(x, "finalize", d)
    BY <1>10, <1>13 DEF finalizeMultipartUploadWithHttpRequest
  <2>2. sent[x] = Chunks /\ begun' = [begun EXCEPT ![x] = @ + 1] /\ begun \in [Items -> Nat]
    BY <1>2, <1>13 DEF finalizeMultipartUploadWithHttpRequest, Tables
  <2>3. Ready(x)'
    BY <1>1, <2>2 DEF Ready
  <2>4. Requested' /\ AskedWhenReady'
    BY <1>9, <1>11, <2>1, <2>3, Asks
  <2> QED BY <1>8, <2>4 DEF Assembling
<1>14. CASE finalizeUploadWorker(x)
  <2>1. Begin(x, "finalize", <<"finalize">>) \/ UNCHANGED run
    BY <1>14 DEF finalizeUploadWorker
  <2>2. Ready(x)'
    BY <1>9, <1>14 DEF finalizeUploadWorker, Assembling, AskedWhenReady
  <2>3. CASE Begin(x, "finalize", <<"finalize">>)
    <3>1. Requested' /\ AskedWhenReady'
      BY <1>9, <1>10, <1>11, <2>2, <2>3, Asks
    <3> QED BY <1>8, <3>1 DEF Assembling
  <2>4. CASE UNCHANGED run
    <3>1. Requested'
      BY <1>11, <2>4 DEF Requested
    <3>2. AskedWhenReady'
      BY <1>9, <1>11, <2>4, AskedIs DEF AskedWhenReady, Ready
    <3> QED BY <1>8, <3>1, <3>2 DEF Assembling
  <2> QED BY <2>1, <2>3, <2>4
<1> QED BY <1>12, <1>13, <1>14

LEMMA RunKept ==
    ASSUME Assembling, UNCHANGED run,
           \A y \in Items : (Ready(y) => Ready(y)') /\ (jobs'[y] > 0 => Ready(y)')
    PROVE  Requested' /\ AskedWhenReady'
<1>1. Requested'
  BY DEF Assembling, Requested
<1>2. \A r \in Requests : run[r] # None => run[r].x \in Items
  BY AskedIs DEF Assembling
<1>3. AskedWhenReady'
  BY <1>2 DEF Assembling, AskedWhenReady, Ready
<1> QED BY <1>1, <1>3

LEMMA Elsewhere ==
    ASSUME Assembling, UNCHANGED <<run, begun, mpuVars>>, happened \subseteq happened'
    PROVE  Assembling'
<1>1. UNCHANGED <<begun, row, copies, object, parts, sent, jobs>>
  BY DEF mpuVars
<1>2. /\ Tables' /\ Unstarted' /\ InPlace'
      /\ \A x \in Items : (Ready(x) => Ready(x)') /\ (jobs'[x] > 0 => Ready(x)')
  BY <1>1, KeptTables
<1>3. Requested' /\ AskedWhenReady'
  BY <1>2, RunKept
<1> QED BY <1>2, <1>3 DEF Assembling

LEMMA CreateStep ==
    ASSUME Assembling, NEW x \in Items, createMultiPartUpload(x)
    PROVE  Assembling'
<1>1. Tables
  BY DEF Assembling
<1>2. /\ UNCHANGED <<run, begun, parts, sent, jobs, happened>> /\ begun[x] = 0 /\ object[x] = None
      /\ object' = [object EXCEPT ![x] = "parts"]
  BY DEF createMultiPartUpload, ingestVars, faultVars
<1>3. PICK size \in {0, FullSize} : /\ row' = [row EXCEPT ![x] = [size |-> size, failed |-> FALSE]]
                                   /\ copies' = [copies EXCEPT ![x] = {size}]
  BY DEF createMultiPartUpload, FullSize
<1>4. size \in Sizes /\ [size |-> size, failed |-> FALSE] \in Upload
  BY DEF Sizes, Upload
<1>5. row' \in [Items -> Upload \cup {None}] /\ copies' \in [Items -> SUBSET Sizes]
  BY <1>1, <1>3, <1>4 DEF Tables
<1>6. /\ object' \in [Items -> {None, "parts", "whole", "jumbled"}] /\ object'[x] = "parts"
      /\ \A y \in Items \ {x} : object'[y] = object[y]
  BY <1>1, <1>2 DEF Tables
<1>7. Tables'
  BY <1>1, <1>2, <1>5, <1>6 DEF Tables
<1>8. sent[x] = {} /\ parts[x] = {}
  BY <1>2, MultipartAssumption DEF Assembling, Unstarted
<1>9. Unstarted'
  BY <1>2, <1>6 DEF Assembling, Unstarted
<1>10. InPlace'
  <2> SUFFICES ASSUME "repeated chunk" \notin happened', NEW y \in Items
               PROVE  object'[y] # "jumbled" /\ (object'[y] = "parts" => Matched(y)')
    BY DEF InPlace
  <2>1. CASE y = x
    <3>1. Matched(x)'
      BY <1>2, <1>8 DEF Matched
    <3> QED BY <1>6, <2>1, <3>1
  <2>2. CASE y # x
    <3>1. object'[y] # "jumbled" /\ (object'[y] = "parts" => Matched(y))
      BY <1>2, <1>6, <2>2 DEF Assembling, InPlace
    <3> QED BY <1>2, <3>1 DEF Matched
  <2> QED BY <2>1, <2>2
<1>11. \A y \in Items : (Ready(y) => Ready(y)') /\ (jobs'[y] > 0 => Ready(y)')
  BY <1>2 DEF Ready, Assembling, AskedWhenReady
<1>12. Requested' /\ AskedWhenReady'
  BY <1>2, <1>11, RunKept
<1> QED BY <1>7, <1>9, <1>10, <1>12 DEF Assembling

LEMMA TakenIs ==
    ASSUME Tables, NEW x \in Items, NEW size \in Taken(x)
    PROVE  size \in Sizes
<1>1. CASE size \in copies[x]
  BY <1>1 DEF Tables
<1>2. CASE size \notin copies[x]
  <2>1. row[x] # None /\ size = row[x].size
    BY <1>2 DEF Taken, Open
  <2>2. row[x] \in Upload
    BY <2>1 DEF Tables
  <2> QED BY <2>1, <2>2 DEF Upload
<1> QED BY <1>1, <1>2

\* A part of a chunk that has none yet: its number is no other's.
LEMMA PartAdded ==
    ASSUME NEW x \in Items, parts[x] \in SUBSET (Nat \X Chunks), Matched(x), NEW i \in Chunks \ sent[x],
           NEW n \in Nat, i # Last => n = i, i = Last => n >= Last,
           parts'[x] = {q \in parts[x] : q[1] # n} \cup {<<n, i>>}, sent'[x] = sent[x] \cup {i}
    PROVE  Matched(x)'
<1>1. i \in Nat /\ i <= Last /\ Last \in Nat
  BY SizesAre
<1>2. ASSUME NEW q \in parts[x] PROVE q[1] # n /\ q[2] # i
  <2>1. q[1] \in Nat /\ q[2] \in Nat /\ q[2] <= Last /\ q[2] # i
    BY SizesAre DEF Matched
  <2>2. IF q[2] = Last THEN q[1] >= Last ELSE q[1] = q[2]
    BY DEF Matched
  <2> QED BY <1>1, <2>1, <2>2
<1> DEFINE new == <<n, i>>
<1>3. new[1] = n /\ new[2] = i
  OBVIOUS
<1>4. parts'[x] = parts[x] \cup {new}
  BY <1>2
<1> HIDE DEF new
<1>5. \A q \in parts'[x] : q[2] \in sent'[x] /\ IF q[2] = Last THEN q[1] >= Last ELSE q[1] = q[2]
  BY <1>1, <1>3, <1>4 DEF Matched
<1>6. \A j \in sent'[x] : \E q \in parts'[x] : q[2] = j
  BY <1>3, <1>4 DEF Matched
<1>7. \A q, q2 \in parts'[x] : q[2] = q2[2] => q = q2
  BY <1>2, <1>3, <1>4 DEF Matched
<1> QED BY <1>5, <1>6, <1>7 DEF Matched

LEMMA ChunkStep ==
    ASSUME Assembling, Next, NEW x \in Items, NEW i \in Chunks, postDataItemChunk(x, i)
    PROVE  Assembling'
<1>1. Tables
  BY DEF Assembling
<1>2. UNCHANGED <<run, begun, object, jobs>> /\ happened \subseteq happened'
  BY Grows DEF postDataItemChunk
<1>3. PICK size \in Taken(x) :
          LET expected == Expected(x, i, size)
              fits == Offset(i) % expected = 0
              number == Number(x, i, size)
          IN  /\ IF Raises(size, i) THEN row' = [row EXCEPT ![x] = Raised(x, ChunkSizes[i])]
                                    ELSE UNCHANGED row
              /\ copies' = [copies EXCEPT ![x] = IF fits THEN @ \cup {expected} ELSE @]
              /\ IF fits /\ object[x] = "parts"
                 THEN /\ parts' = [parts EXCEPT ![x] =
                              {q \in @ : q[1] # number} \cup {<<number, i>>}]
                      /\ sent' = [sent EXCEPT ![x] = @ \cup {i}]
                 ELSE UNCHANGED <<parts, sent>>
  BY DEF postDataItemChunk, Expected, Number
<1> DEFINE expected == Expected(x, i, size)
           number == Number(x, i, size)
<1>4. row[x] \in Upload \cup {None} /\ size \in Sizes
  BY <1>1, TakenIs DEF Tables
<1>5. /\ expected \in Sizes /\ number \in Nat
      /\ i # Last => number = i
      /\ i = Last => number >= Last
  BY <1>4, NumberIs
<1>6. Raised(x, ChunkSizes[i]) \in Upload
  BY <1>4, RaisedIs
<1> HIDE DEF expected, number
<1>7. row' \in [Items -> Upload \cup {None}]
  BY <1>1, <1>3, <1>6 DEF Tables
<1>8. copies' \in [Items -> SUBSET Sizes]
  BY <1>1, <1>3, <1>5 DEF Tables, expected
<1>9. \/ UNCHANGED <<parts, sent>>
      \/ /\ object[x] = "parts" /\ sent' = [sent EXCEPT ![x] = @ \cup {i}]
         /\ parts' = [parts EXCEPT ![x] = {q \in @ : q[1] # number} \cup {<<number, i>>}]
  BY <1>3 DEF number
<1>10. /\ parts \in [Items -> SUBSET (Nat \X Chunks)] /\ sent \in [Items -> SUBSET Chunks]
  BY <1>1 DEF Tables
<1>11. /\ parts' \in [Items -> SUBSET (Nat \X Chunks)] /\ sent' \in [Items -> SUBSET Chunks]
       /\ \A y \in Items \ {x} : parts'[y] = parts[y] /\ sent'[y] = sent[y]
       /\ sent[x] \subseteq sent'[x]
  <2>1. <<number, i>> \in Nat \X Chunks
    BY <1>5
  <2> QED BY <1>5, <1>9, <1>10, <2>1
<1>12. Tables'
  BY <1>1, <1>2, <1>7, <1>8, <1>11 DEF Tables
<1>13. Unstarted'
  BY <1>2, <1>9, <1>11 DEF Assembling, Unstarted
<1>14. InPlace'
  <2> SUFFICES ASSUME "repeated chunk" \notin happened', NEW y \in Items
               PROVE  object'[y] # "jumbled" /\ (object'[y] = "parts" => Matched(y)')
    BY DEF InPlace
  <2>1. object[y] # "jumbled" /\ (object[y] = "parts" => Matched(y))
    BY <1>2 DEF Assembling, InPlace
  <2>2. CASE parts'[y] = parts[y] /\ sent'[y] = sent[y]
    BY <1>2, <2>1, <2>2 DEF Matched
  <2>3. CASE ~(parts'[y] = parts[y] /\ sent'[y] = sent[y])
    <3>1. y = x /\ ~UNCHANGED <<parts, sent>>
      BY <1>11, <2>3
    <3>2. /\ object[x] = "parts" /\ sent'[x] = sent[x] \cup {i}
          /\ parts'[x] = {q \in parts[x] : q[1] # number} \cup {<<number, i>>}
      BY <1>9, <1>10, <3>1
    <3>3. i \notin sent[x]
      BY DEF postDataItemChunk, Fault
    <3>4. Matched(x)'
      <4>1. Matched(x) /\ parts[x] \in SUBSET (Nat \X Chunks) /\ i \in Chunks \ sent[x]
        BY <1>10, <2>1, <3>1, <3>2, <3>3
      <4> QED BY <1>5, <3>2, <4>1, PartAdded
    <3> QED BY <1>2, <2>1, <3>1, <3>4
  <2> QED BY <2>2, <2>3
<1>15. \A y \in Items : (Ready(y) => Ready(y)') /\ (jobs'[y] > 0 => Ready(y)')
  <2>1. \A y \in Items : Ready(y) => Ready(y)'
    BY <1>2, <1>11 DEF Ready
  <2> QED BY <1>2, <2>1 DEF Assembling, AskedWhenReady
<1>16. Requested' /\ AskedWhenReady'
  BY <1>2, <1>15, RunKept
<1> QED BY <1>12, <1>13, <1>14, <1>16 DEF Assembling

LEMMA InitAssembling == Init => Assembling
<1> SUFFICES ASSUME Init PROVE Assembling
  OBVIOUS
<1>1. Requested /\ \A r \in Requests : run[r] = None
  BY DEF Init, IngestInit, Requested
<1>2. \A x \in Items : jobs[x] = 0 /\ object[x] = None /\ sent[x] = {} /\ parts[x] = {}
  BY DEF Init
<1>3. AskedWhenReady
  BY <1>1, <1>2 DEF AskedWhenReady
<1>4. Tables
  BY DEF Init, IngestInit, Tables
<1>5. Unstarted
  BY <1>2 DEF Unstarted
<1>6. InPlace
  BY <1>2, MultipartAssumption DEF InPlace
<1> QED BY <1>1, <1>3, <1>4, <1>5, <1>6 DEF Assembling

LEMMA NextAssembling == Assembling /\ [Next]_allVars => Assembling'
<1> SUFFICES ASSUME Assembling, [Next]_allVars PROVE Assembling'
  OBVIOUS
<1>1. CASE UNCHANGED allVars
  BY <1>1, Elsewhere DEF allVars, ingestVars, faultVars
<1>2. CASE Next
  <2>1. ASSUME NEW r \in Requests, (PostStep(r) \/ Crash(r)) /\ UNCHANGED mpuVars PROVE Assembling'
    BY <1>2, <2>1, PostingStep
  <2>2. ASSUME NEW r \in Requests, FinalizeStep(r) PROVE Assembling'
    BY <1>2, <2>2, FirstStep, AssembleStep, PlaceStep, RowStep, PayingStep DEF FinalizeStep
  <2>3. ASSUME NEW x \in Items,
               \/ dataItemRoute(x) /\ UNCHANGED mpuVars
               \/ finalizeMultipartUploadWithHttpRequest(x) \/ finalizeUploadWorker(x)
        PROVE  Assembling'
    BY <1>2, <2>3, BeginningStep
  <2>4. ASSUME NEW x \in Items, (Worker(x) \/ Expire(x)) /\ UNCHANGED mpuVars PROVE Assembling'
    <3>1. UNCHANGED <<run, begun, mpuVars>>
      BY <2>4 DEF Worker, quarantineDataItem, newDataItemWorker, refundBalanceWorker, Expire
    <3> QED BY <1>2, <3>1, Grows, Elsewhere
  <2>5. ASSUME NEW x \in Items, createMultiPartUpload(x) PROVE Assembling'
    BY <2>5, CreateStep
  <2>6. ASSUME NEW x \in Items, NEW i \in Chunks, postDataItemChunk(x, i) PROVE Assembling'
    BY <1>2, <2>6, ChunkStep
  <2> QED BY <1>2, <2>1, <2>2, <2>3, <2>4, <2>5, <2>6 DEF Next
<1> QED BY <1>1, <1>2

\* Chunks posted in any order, to any process, whatever size the client gave and
\* whichever came first, are assembled in their order (postDataItemChunk,
\* finalizeMPUWithInFlightEntity): each chunk has a part, a full chunk's number is its
\* place, and the last one's, which a small expected size may raise, is behind them all.
THEOREM AssembledInOrderAlways == Spec => []AssembledInOrder
<1>1. Assembling => AssembledInOrder
  BY DEF Assembling, InPlace, AssembledInOrder
<1> QED BY <1>1, InitAssembling, NextAssembling, PTL DEF Spec
=============================================================================
