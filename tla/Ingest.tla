------------------------------- MODULE Ingest -------------------------------
(***************************************************************************)
(* A data item posted to the upload service: the in-flight mark, the       *)
(* reservation of its price, the object, the receipt, the job that puts it *)
(* in the database, and what each way of failing undoes.  Requests for one *)
(* item overlap, and each call to the cache, the database, the object      *)
(* store or the payment service is a step.  Every item has a price;        *)
(* Multipart adds uploads in parts, which share these steps' services.     *)
(***************************************************************************)
EXTENDS Integers, Sequences, FiniteSets

CONSTANTS
    Items,
    Requests,     \* slots: requests and jobs that run side by side
    None,
    Faults,       \* what may go wrong, of FaultKinds
    MaxFaults,    \* bound: how often it does
    MaxBegun      \* bound: requests an item sees

FaultKinds ==
    {"cache", "lookup", "step", "approval", "no reserve answer", "refund",
     "no refund answer", "dropped refund", "expired", "crash", "overlap", "repeated chunk"}

\* An item the service takes, one that is no item, one it refuses (too large, a blocked
\* owner), one whose tags ask for an approval without the amount, and one whose tags say
\* that it is a bundle, which cannot be read as one.
Contents == {"good", "invalid", "refused", "no amount", "bad bundle"}

ASSUME IngestAssumption ==
    None \notin Items /\ Faults \subseteq FaultKinds /\ MaxFaults \in Nat /\ MaxBegun \in Nat

VARIABLES
    content,      \* what the client sends for each item, of Contents
    inFlight,     \* Redis' in-flight keys
    stored,       \* raw data items in the stores
    quarantining, \* quarantines under way: before and after the look in the database
    reserved,     \* active reservations of the payment service
    paid,         \* charges for each item, less refunds
    refundJobs,   \* durable refunds that wait, per item
    queue,        \* newDataItem jobs
    db,           \* items in a table of the database
    run,          \* what each request has still to do
    begun,        \* requests each item has seen
    faults,       \* how many faults there were
    happened      \* of which kinds

paymentVars == <<reserved, paid, refundJobs>>
faultVars == <<faults, happened>>
ingestVars == <<content, inFlight, stored, quarantining, paymentVars, queue, db, run, begun,
                faultVars>>

Fault(kind) ==
    /\ kind \in Faults /\ faults < MaxFaults
    /\ faults' = faults + 1 /\ happened' = happened \cup {kind}
NoFault == UNCHANGED faultVars

At(r, step) == run[r] # None /\ Head(run[r].do) = step
Do(r, steps) ==
    run' = [run EXCEPT ![r] = IF steps = <<>> THEN None ELSE [@ EXCEPT !.do = steps]]
Rest(r) == Do(r, Tail(run[r].do))
End(r) == Do(r, <<>>)
Runs(x) == {r \in Requests : run[r] # None /\ run[r].x = x}

\* A finalization beside another request for the item, which nothing prevents (two
\* posts are what the in-flight mark is for), or a request before a quarantine ended.
Beside(x, via) ==
    \/ \E r \in Runs(x) : "finalize" \in {via, run[r].via}
    \/ \E q \in quarantining : q[1] = x
Begin(x, via, steps) ==
    /\ \E r \in Requests : run[r] = None
    /\ IF Beside(x, via) THEN Fault("overlap") ELSE NoFault
    /\ run' = [run EXCEPT ![CHOOSE r \in Requests : run[r] = None] =
                    [x |-> x, via |-> via, do |-> steps]]

(***************************************************************************)
(* What the payment service does.  A reservation is made once per item; a  *)
(* refund pays whether or not there is one.                                *)
(***************************************************************************)
Reserve(x) ==
    /\ reserved' = reserved \cup {x}
    /\ paid' = [paid EXCEPT ![x] = IF x \in reserved THEN @ ELSE @ + 1]
GiveBack(x) ==
    /\ reserved' = reserved \ {x}
    /\ paid' = [paid EXCEPT ![x] = @ - 1]

(***************************************************************************)
(* POST /tx.                                                               *)
(***************************************************************************)
dataItemRoute(x) ==
    /\ begun[x] < MaxBegun /\ begun' = [begun EXCEPT ![x] = @ + 1]
    /\ Begin(x, "post", <<"check">>)
    /\ UNCHANGED <<content, inFlight, stored, quarantining, paymentVars, queue, db>>

\* In flight: 202.  With Redis away, or an older answer in the process's own cache,
\* either answer is possible.
dataItemIsInFlight(r) ==
    /\ At(r, "check")
    /\ \/ run[r].x \in inFlight /\ End(r) /\ NoFault
       \/ run[r].x \notin inFlight /\ Do(r, <<"lookup">>) /\ NoFault
       \/ Fault("cache") /\ (End(r) \/ Do(r, <<"lookup">>))
    /\ UNCHANGED <<content, inFlight, stored, quarantining, paymentVars, queue, db, begun>>

\* In the database: 202.  A lookup that fails lets the upload go on.
getExistingDataItemIds(r) ==
    /\ At(r, "lookup")
    /\ \/ run[r].x \in db /\ End(r) /\ NoFault
       \/ run[r].x \notin db /\ Do(r, <<"mark">>) /\ NoFault
       \/ Fault("lookup") /\ Do(r, <<"mark">>)
    /\ UNCHANGED <<content, inFlight, stored, quarantining, paymentVars, queue, db, begun>>

\* Mutant: SET without NX.
MarkAnyway(r) ==
    /\ At(r, "mark")
    /\ \/ inFlight' = inFlight \cup {run[r].x} /\ Do(r, <<"balance">>) /\ NoFault
       \/ Fault("cache") /\ Do(r, <<"balance">>) /\ UNCHANGED inFlight
    /\ UNCHANGED <<content, stored, quarantining, paymentVars, queue, db, begun>>
\* SET NX: where another request has marked since the check, the request fails.  With
\* Redis away the mark is the process's own.
markInFlight(r) ==
    /\ At(r, "mark")
    /\ \/ run[r].x \notin inFlight /\ inFlight' = inFlight \cup {run[r].x}
          /\ Do(r, <<"balance">>) /\ NoFault
       \/ run[r].x \in inFlight /\ End(r) /\ UNCHANGED inFlight /\ NoFault
       \/ Fault("cache") /\ Do(r, <<"balance">>) /\ UNCHANGED inFlight
    /\ UNCHANGED <<content, stored, quarantining, paymentVars, queue, db, begun>>

checkBalanceForData(r) ==
    /\ At(r, "balance")
    /\ Do(r, <<"store">>) \/ Do(r, <<"remove">>)
    /\ UNCHANGED <<content, inFlight, stored, quarantining, paymentVars, queue, db, begun,
                   faultVars>>

\* The bytes are stored as they are read; whether they make a valid item, of a size,
\* an owner and a shape the service accepts, is known when they are.
cacheDataItem(r) ==
    LET x == run[r].x IN
    /\ At(r, "store")
    /\ \/ /\ stored' = stored \cup {x}
          /\ Do(r, IF content[x] \notin {"invalid", "refused"} THEN <<"reserve">>
                   ELSE <<"remove", "quarantine">>)
       \/ Do(r, <<"remove">>) /\ UNCHANGED stored
    /\ UNCHANGED <<content, inFlight, quarantining, paymentVars, queue, db, begun, faultVars>>

\* Reserved, or refused for want of credits; a call that fails may have reserved.
reserveBalanceForData(r) ==
    LET x == run[r].x IN
    /\ At(r, "reserve")
    /\ \/ Reserve(x) /\ Do(r, <<"tags">>) /\ NoFault
       \/ x \notin reserved /\ Do(r, <<"remove">>) /\ NoFault /\ UNCHANGED <<reserved, paid>>
       \/ Fault("no reserve answer") /\ Reserve(x) /\ Do(r, <<"remove">>)
    /\ UNCHANGED <<content, inFlight, stored, quarantining, refundJobs, queue, db, begun>>

\* The approvals an item's tags make or revoke.  Tags without the amount end the upload;
\* only a call that fails is followed by a refund.
createDelegatedPaymentApproval(r) ==
    /\ At(r, "tags")
    /\ IF content[run[r].x] = "no amount" THEN Do(r, <<"remove">>) /\ NoFault
       ELSE \/ Do(r, <<"sign">>) /\ NoFault
            \/ Fault("approval") /\ Do(r, <<"remove", "refund">>)
    /\ UNCHANGED <<content, inFlight, stored, quarantining, paymentVars, queue, db, begun>>

undo == <<"refund", "remove", "quarantine">>
signReceipt(r) ==
    /\ At(r, "sign")
    /\ \/ run[r].x \in stored /\ Do(r, <<"enqueue">>) /\ NoFault
       \/ run[r].x \notin stored /\ Do(r, undo) /\ NoFault
       \/ Fault("step") /\ Do(r, undo)
    /\ UNCHANGED <<content, inFlight, stored, quarantining, paymentVars, queue, db, begun>>

\* The job is queued and the answer is 200: the item is accepted.  A bundle is read first,
\* outside any try: where it cannot be, the request ends, and nothing is undone.
enqueueNewDataItem(r) ==
    /\ At(r, "enqueue")
    /\ \/ content[run[r].x] = "bad bundle" /\ End(r) /\ NoFault /\ UNCHANGED queue
       \/ content[run[r].x] # "bad bundle"
          /\ queue' = queue \cup {run[r].x} /\ Do(r, <<"remove">>) /\ NoFault
       \/ /\ content[run[r].x] # "bad bundle"
          /\ Fault("step") /\ Do(r, undo) /\ UNCHANGED queue
    /\ UNCHANGED <<content, inFlight, stored, quarantining, paymentVars, db, begun>>

(***************************************************************************)
(* Undoing.                                                                *)
(***************************************************************************)
\* Mutant: a refund that fails is only logged, though it could be queued.
RefundDropped(r) ==
    LET x == run[r].x IN
    /\ At(r, "refund") /\ Rest(r) /\ UNCHANGED refundJobs
    /\ \/ GiveBack(x) /\ NoFault
       \/ Fault("refund") /\ UNCHANGED <<reserved, paid>>
       \/ Fault("no refund answer") /\ GiveBack(x)
    /\ UNCHANGED <<content, inFlight, stored, quarantining, queue, db, begun>>
\* A refund that fails, or whose answer is lost, is queued; one that fails and cannot be
\* queued either is dropped.
refundBalanceForData(r) ==
    LET x == run[r].x
        Queued == refundJobs' = [refundJobs EXCEPT ![x] = @ + 1]
    IN  /\ At(r, "refund") /\ Rest(r)
        /\ \/ GiveBack(x) /\ UNCHANGED refundJobs /\ NoFault
           \/ Fault("refund") /\ Queued /\ UNCHANGED <<reserved, paid>>
           \/ Fault("no refund answer") /\ Queued /\ GiveBack(x)
           \/ Fault("dropped refund") /\ UNCHANGED <<reserved, paid, refundJobs>>
        /\ UNCHANGED <<content, inFlight, stored, quarantining, queue, db, begun>>

removeFromInFlight(r) ==
    /\ At(r, "remove") /\ Rest(r)
    /\ \/ inFlight' = inFlight \ {run[r].x} /\ NoFault
       \/ Fault("cache") /\ UNCHANGED inFlight
    /\ UNCHANGED <<content, stored, quarantining, paymentVars, queue, db, begun>>

performQuarantine(r) ==
    /\ At(r, "quarantine") /\ Rest(r)
    /\ quarantining' = quarantining \cup {<<run[r].x, "look">>}
    /\ UNCHANGED <<content, inFlight, stored, paymentVars, queue, db, begun, faultVars>>

\* After 100 ms: an item in the database is left alone; otherwise its object is moved away.
quarantineDataItem(x) ==
    /\ \/ /\ <<x, "look">> \in quarantining
          /\ quarantining' = (quarantining \ {<<x, "look">>}) \cup
                (IF x \in db THEN {} ELSE {<<x, "move">>})
          /\ UNCHANGED stored
       \/ /\ <<x, "move">> \in quarantining
          /\ quarantining' = quarantining \ {<<x, "move">>} /\ stored' = stored \ {x}
    /\ UNCHANGED <<content, inFlight, paymentVars, queue, db, run, begun, faultVars>>

(***************************************************************************)
(* The workers, the clock and crashes.                                     *)
(***************************************************************************)
newDataItemWorker(x) ==
    /\ x \in queue /\ queue' = queue \ {x} /\ db' = db \cup {x}
    /\ UNCHANGED <<content, inFlight, stored, quarantining, paymentVars, run, begun, faultVars>>

\* Retried until the payment service answers, or the job's attempts are used up.
refundBalanceWorker(x) ==
    LET Done == refundJobs' = [refundJobs EXCEPT ![x] = @ - 1] IN
    /\ refundJobs[x] > 0
    /\ \/ GiveBack(x) /\ Done /\ NoFault
       \/ Fault("no refund answer") /\ GiveBack(x) /\ UNCHANGED refundJobs
       \/ Fault("dropped refund") /\ Done /\ UNCHANGED <<reserved, paid>>
    /\ UNCHANGED <<content, inFlight, stored, quarantining, queue, db, run, begun>>

\* The key outlives the longest upload; a request that takes longer still loses it.
Expire(x) ==
    /\ x \in inFlight /\ inFlight' = inFlight \ {x}
    /\ IF Runs(x) = {} THEN NoFault ELSE Fault("expired")
    /\ UNCHANGED <<content, stored, quarantining, paymentVars, queue, db, run, begun>>

Crash(r) ==
    /\ run[r] # None /\ Fault("crash") /\ End(r)
    /\ UNCHANGED <<content, inFlight, stored, quarantining, paymentVars, queue, db, begun>>

(***************************************************************************)
(* Behaviours.                                                             *)
(***************************************************************************)
IngestInit ==
    /\ content \in [Items -> Contents]
    /\ inFlight = {} /\ stored = {} /\ quarantining = {}
    /\ reserved = {} /\ paid = [x \in Items |-> 0] /\ refundJobs = [x \in Items |-> 0]
    /\ queue = {} /\ db = {}
    /\ run = [r \in Requests |-> None] /\ begun = [x \in Items |-> 0]
    /\ faults = 0 /\ happened = {}

PostStep(r) ==
    \/ dataItemIsInFlight(r) \/ getExistingDataItemIds(r) \/ markInFlight(r)
    \/ checkBalanceForData(r) \/ cacheDataItem(r) \/ reserveBalanceForData(r)
    \/ createDelegatedPaymentApproval(r) \/ signReceipt(r) \/ enqueueNewDataItem(r)
    \/ refundBalanceForData(r) \/ removeFromInFlight(r) \/ performQuarantine(r)
Worker(x) == quarantineDataItem(x) \/ newDataItemWorker(x) \/ refundBalanceWorker(x)

(***************************************************************************)
(* Properties.                                                             *)
(***************************************************************************)

\* No item is refunded more often than it was charged: although the check for an upload
\* in flight and the mark are separate calls, two requests never get past the mark
\* together, so they never both refund the reservation the second one finds made.  It
\* takes Redis (its key kept while the upload lasts), refunds that are answered, and no
\* failed approval, whose handling removes the mark before it refunds.
NoFreeCredit ==
    happened \cap {"cache", "expired", "overlap", "approval", "refund", "no refund answer"} = {} =>
        \A x \in Items : paid[x] >= 0

\* An upload that was not accepted is in the end not charged for, even if the payment
\* service could not be reached to refund it: the durable job does, unless the job could
\* not be queued or used up its attempts.  (Not one rejected for an approval without an
\* amount, or for a bundle that cannot be read: those are not refunded.)
RejectedRefunded ==
    \A x \in Items :
        <>[](/\ happened \cap {"crash", "no reserve answer", "dropped refund"} = {}
             /\ content[x] \notin {"no amount", "bad bundle"}
             => x \in queue \cup db \/ paid[x] <= 0)

\* An accepted upload stays paid for: of an upload that succeeds the credits are
\* consumed, of one that fails they are refunded.
AcceptedStaysPaid == \A x \in queue \cup db : paid[x] >= 1
=============================================================================
