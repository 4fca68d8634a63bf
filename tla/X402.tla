-------------------------------- MODULE X402 --------------------------------
(***************************************************************************)
(* Payments by x402: a request carries an authorization the wallet signed, *)
(* which a facilitator settles on the chain, once.  It buys a top-up, a    *)
(* top-up with a reservation (hybrid), a signed item the upload service    *)
(* takes and finalizes with the payment service, or a raw item the upload  *)
(* service settles for and records by itself.  A payment of method "x402"  *)
(* is an authorization; requests may carry it again.                       *)
(***************************************************************************)
EXTENDS ArNSPurchases

CONSTANTS
    Goods,        \* signed items, and items hybrid payments name
    MaxRequests   \* bound: requests with an authorization

Statuses == {"confirmed", "refunded", "fraud_penalty"}
Transactions == [kind : {"top-up", "hybrid", "signed"}, good : Goods \cup {None},
                 status : Statuses \cup {"pending_validation"}]

ASSUME X402Assumption ==
    None \notin Goods /\ None \notin Transactions /\ MaxRequests \in Nat

VARIABLES
    txn,        \* x402_payment_transaction: None or [kind, good, status]
    held,       \* x402_payment_reservation: the payment a good is reserved by
    inFlight,   \* signed items in flight
    accepted,   \* signed items that were accepted
    bought,     \* what each authorization bought so far
    given,      \* credits for it, as a top-up, an excess or a refund, in quarters
    repeated,   \* authorizations a facilitator settled, and answered for, again
    requests    \* requests so far

x402 == <<txn, held, inFlight, accepted, bought, given, repeated, requests>>
x402Vars == <<allVars, x402>>

Full == 4       \* what a payment is worth; a hybrid one covers its good with half of it
Excess == 2
Overpaid == 3   \* refunded where a quarter of the declared bytes came

Ask(h, p, kind, good) ==
    /\ method[p] = "x402" /\ run[h] = None /\ requests < MaxRequests /\ requests' = requests + 1
    /\ run' = [run EXCEPT ![h] = [p |-> p, step |-> "verify", kind |-> kind,
                               good |-> good, of |-> p]]
Kind(h) == run[h].kind
Give(p, n) == given' = [given EXCEPT ![p] = @ + n]
Bought(p) == bought' = [bought EXCEPT ![p] = @ + 1]

\* The request fails; the upload service takes the mark of a signed item away.
Fails(h) ==
    /\ End(h)
    /\ inFlight' = IF Kind(h) = "signed" THEN inFlight \ {run[h].good} ELSE inFlight
Unchanged == UNCHANGED <<method, looks, stale, credited, events, alerted, names>>

(***************************************************************************)
(* Requests.                                                               *)
(***************************************************************************)
\* A signed item to the upload service, not in flight nor in its database.
postSignedItem(h, p, x) ==
    /\ x \notin inFlight \cup accepted /\ inFlight' = inFlight \cup {x}
    /\ Ask(h, p, "signed", x)
    /\ UNCHANGED <<rows, money, troubles, txn, held, accepted, bought, given, repeated>> /\ Unchanged

rawDataUploadRoute(h, p) ==
    /\ Ask(h, p, "raw", None)
    /\ UNCHANGED <<rows, money, troubles, txn, held, inFlight, accepted, bought, given, repeated>>
    /\ Unchanged

x402TopUpRoute(h, p) ==
    /\ Ask(h, p, "top-up", None)
    /\ UNCHANGED <<rows, money, troubles, txn, held, inFlight, accepted, bought, given, repeated>>
    /\ Unchanged

\* The payment service's own route, to which a client may turn too.
x402PaymentRoute(h, p, x) ==
    /\ Ask(h, p, "hybrid", x)
    /\ UNCHANGED <<rows, money, troubles, txn, held, inFlight, accepted, bought, given, repeated>>
    /\ Unchanged

(***************************************************************************)
(* Verification and settlement, which each service has of its own.         *)
(***************************************************************************)
Verify(h) ==
    /\ At(h, "verify")
    /\ (Then(h, "settle") /\ UNCHANGED inFlight) \/ Fails(h)
    /\ UNCHANGED <<rows, money, troubles, txn, held, accepted, bought, given, repeated, requests>>
    /\ Unchanged

\* The transfer is made once.  A facilitator that is asked again refuses, or answers with
\* the transaction there is; one whose answer is lost, or has no transaction hash, leaves
\* a transfer nobody knows of.
Settle(h) ==
    LET p == run[h].p IN
    /\ At(h, "settle")
    /\ \/ /\ Then(h, "record") /\ NoTrouble /\ money' = [money EXCEPT ![p] = "paid"]
          /\ repeated' = IF money[p] = "paid" THEN repeated \cup {p} ELSE repeated
          /\ UNCHANGED inFlight
       \/ Fails(h) /\ NoTrouble /\ UNCHANGED <<money, repeated>>
       \/ /\ money[p] = "unpaid" /\ Fails(h) /\ Trouble
          /\ money' = [money EXCEPT ![p] = "paid"] /\ UNCHANGED repeated
    /\ UNCHANGED <<rows, txn, held, accepted, bought, given, requests>> /\ Unchanged

Raw(h) == run[h] # None /\ method[run[h].p] = "x402" /\ Kind(h) = "raw"
verifyPayment(h) == ~Raw(h) /\ Verify(h)
rawVerifyPayment(h) == Raw(h) /\ Verify(h)
settlePayment(h) == ~Raw(h) /\ Settle(h)
rawSettlePayment(h) == Raw(h) /\ Settle(h)

(***************************************************************************)
(* The payment service's record, reservation and credits: one statement or *)
(* transaction each.  What failed after the settlement is not made good.   *)
(***************************************************************************)
\* Mutant: the transaction hash is indexed, but not unique.
RecordAgain(h) ==
    LET p == run[h].p IN
    /\ At(h, "record") /\ ~Raw(h)
    /\ \/ /\ txn' = [txn EXCEPT ![p] = [kind |-> Kind(h), good |-> run[h].good,
                                       status |-> "pending_validation"]]
          /\ Move(p, {}, {"x402_payment_transaction"})
          /\ Then(h, IF Kind(h) = "top-up" THEN "top up" ELSE "reserve")
          /\ UNCHANGED inFlight /\ NoTrouble
       \/ txn[p] # None /\ Fails(h) /\ UNCHANGED <<rows, txn>> /\ NoTrouble
       \/ Fails(h) /\ UNCHANGED <<rows, txn>> /\ Trouble
    /\ UNCHANGED <<money, held, accepted, bought, given, repeated, requests>> /\ Unchanged
\* The transaction hash is unique.
createX402Payment(h) ==
    LET p == run[h].p IN
    /\ At(h, "record") /\ ~Raw(h)
    /\ \/ /\ txn[p] = None
          /\ txn' = [txn EXCEPT ![p] = [kind |-> Kind(h), good |-> run[h].good,
                                       status |-> "pending_validation"]]
          /\ Move(p, {}, {"x402_payment_transaction"})
          /\ Then(h, IF Kind(h) = "top-up" THEN "top up" ELSE "reserve")
          /\ UNCHANGED inFlight /\ NoTrouble
       \/ txn[p] # None /\ Fails(h) /\ UNCHANGED <<rows, txn>> /\ NoTrouble
       \/ Fails(h) /\ UNCHANGED <<rows, txn>> /\ Trouble
    /\ UNCHANGED <<money, held, accepted, bought, given, repeated, requests>> /\ Unchanged

\* One reservation per good: of a payment that was not finalized it stays (nothing calls
\* cleanupExpiredX402Reservations), and refuses the next one, which is settled by then.
createX402PaymentReservation(h) ==
    LET p == run[h].p  x == run[h].good IN
    /\ At(h, "reserve")
    /\ \/ /\ held[x] = None /\ held' = [held EXCEPT ![x] = p]
          /\ Then(h, IF Kind(h) = "hybrid" THEN "top up" ELSE "receive")
          /\ UNCHANGED inFlight /\ NoTrouble
       \/ held[x] # None /\ Fails(h) /\ UNCHANGED held /\ NoTrouble
       \/ Fails(h) /\ UNCHANGED held /\ Trouble
    /\ UNCHANGED <<rows, money, txn, accepted, bought, given, repeated, requests>> /\ Unchanged

adjustUserWinstonBalance(h) ==
    LET p == run[h].p IN
    /\ At(h, "top up") /\ End(h)
    /\ \/ Give(p, IF Kind(h) = "top-up" THEN Full ELSE Excess) /\ Bought(p) /\ NoTrouble
       \/ UNCHANGED <<given, bought>> /\ Trouble
    /\ UNCHANGED <<rows, money, txn, held, inFlight, accepted, repeated, requests>> /\ Unchanged

(***************************************************************************)
(* The upload service: a signed item is received and its payment finalized *)
(* with the bytes that came.                                               *)
(***************************************************************************)
\* The answer is lost, and the call made again or the upload refused; or the item has
\* been read, and is finalized, or is not because that call failed.
verifyAndSettleX402Payment(h) ==
    /\ At(h, "receive")
    /\ \/ Then(h, "finalize") /\ NoTrouble /\ UNCHANGED inFlight
       \/ Then(h, "accept") /\ Trouble /\ UNCHANGED inFlight
       \/ Then(h, "verify") /\ Trouble /\ UNCHANGED inFlight
       \/ Fails(h) /\ Trouble
    /\ UNCHANGED <<rows, money, txn, held, accepted, bought, given, repeated, requests>>
    /\ Unchanged

Finalizes(h, q) == \E to \in Statuses : run' = [run EXCEPT ![h].step = to, ![h].of = q]

\* Mutant: the status is not looked at.
FinalizeAny(h) ==
    /\ At(h, "finalize")
    /\ \E q \in Payments : /\ txn[q] # None /\ txn[q].good = run[h].good
                           /\ Finalizes(h, q)
    /\ UNCHANGED <<rows, money, troubles, x402>> /\ Unchanged
\* The first row of the good, of whatever payment: as many bytes came as were declared,
\* fewer or more.  One finalized before is refused, and the upload goes on.
x402FinalizeRoute(h) ==
    /\ At(h, "finalize")
    /\ \E q \in Payments :
          /\ txn[q] # None /\ txn[q].good = run[h].good
          /\ IF txn[q].status = "pending_validation" THEN Finalizes(h, q) ELSE Then(h, "accept")
    /\ UNCHANGED <<rows, money, troubles, x402>> /\ Unchanged

\* Too many bytes: the payment is kept and the upload refused; an answer that is lost
\* lets it go on.
finalizeX402Payment(h) ==
    LET q == run[h].of  to == run[h].step IN
    /\ run[h] # None /\ to \in Statuses
    /\ \/ /\ txn' = [txn EXCEPT ![q].status = to]
          /\ held' = [held EXCEPT ![run[h].good] = None]
          /\ IF to = "refunded" THEN Give(q, Overpaid) ELSE UNCHANGED given
          /\ \/ to = "fraud_penalty" /\ Fails(h) /\ NoTrouble
             \/ /\ Then(h, "accept") /\ UNCHANGED inFlight
                /\ IF to = "fraud_penalty" THEN Trouble ELSE NoTrouble
       \/ Then(h, "accept") /\ Trouble /\ UNCHANGED <<txn, held, given, inFlight>>
    /\ UNCHANGED <<rows, money, accepted, bought, repeated, requests>> /\ Unchanged

\* What is left of the upload (Ingest) takes the item or refuses it; the payment stays.
acceptSignedItem(h) ==
    /\ At(h, "accept") /\ Fails(h)
    /\ \/ accepted' = accepted \cup {run[h].good} /\ Bought(run[h].p)
       \/ UNCHANGED <<accepted, bought>>
    /\ UNCHANGED <<rows, money, troubles, txn, held, given, repeated, requests>> /\ Unchanged

(***************************************************************************)
(* A raw item: signed by the service, recorded, stored and inserted.       *)
(***************************************************************************)
\* x402_payments has a key of its own and takes a transaction twice.
insertX402Payment(h) ==
    /\ At(h, "record") /\ Raw(h)
    /\ \/ Move(run[h].p, {}, {"x402_payments"}) /\ Then(h, "store raw") /\ NoTrouble
       \/ End(h) /\ UNCHANGED rows /\ Trouble
    /\ UNCHANGED <<money, txn, held, inFlight, accepted, bought, given, repeated, requests>>
    /\ Unchanged

storeRawDataItem(h) ==
    /\ At(h, "store raw") /\ End(h)
    /\ (Bought(run[h].p) /\ NoTrouble) \/ (UNCHANGED bought /\ Trouble)
    /\ UNCHANGED <<rows, money, txn, held, inFlight, accepted, given, repeated, requests>>
    /\ Unchanged

\* A process dies with its request; the mark it leaves expires.
Die(h) ==
    /\ run[h] # None /\ method[run[h].p] = "x402" /\ End(h) /\ Trouble
    /\ UNCHANGED <<rows, money, x402>> /\ Unchanged

ExpireMark(x) ==
    /\ x \in inFlight /\ inFlight' = inFlight \ {x}
    /\ \A h \in Handlers : run[h] # None => Kind(h) # "signed" \/ run[h].good # x
    /\ UNCHANGED <<rows, money, run, troubles, txn, held, accepted, bought, given, repeated,
                   requests>> /\ Unchanged

(***************************************************************************)
(* Behaviours.                                                             *)
(***************************************************************************)
X402Init ==
    /\ NamesInit
    /\ txn = [p \in Payments |-> None] /\ held = [x \in Goods |-> None]
    /\ inFlight = {} /\ accepted = {} /\ repeated = {} /\ requests = 0
    /\ bought = [p \in Payments |-> 0] /\ given = [p \in Payments |-> 0]

X402Step(h) ==
    \/ verifyPayment(h) \/ rawVerifyPayment(h) \/ settlePayment(h) \/ rawSettlePayment(h)
    \/ createX402Payment(h) \/ createX402PaymentReservation(h) \/ adjustUserWinstonBalance(h)
    \/ verifyAndSettleX402Payment(h) \/ x402FinalizeRoute(h) \/ finalizeX402Payment(h)
    \/ acceptSignedItem(h) \/ insertX402Payment(h) \/ storeRawDataItem(h)

X402Next ==
    \/ NamesNext /\ UNCHANGED x402
    \/ \E h \in Handlers : X402Step(h) \/ Die(h)
    \/ \E h \in Handlers, p \in Payments :
          \/ rawDataUploadRoute(h, p) \/ x402TopUpRoute(h, p)
          \/ \E x \in Goods : postSignedItem(h, p, x) \/ x402PaymentRoute(h, p, x)
    \/ \E x \in Goods : ExpireMark(x)

X402Spec == X402Init /\ [][X402Next]_x402Vars
\* As for names; requests with an authorization run on too.
X402FairSpec == X402Spec /\ NamesFair /\ \A h \in Handlers : WF_x402Vars(X402Step(h))

(***************************************************************************)
(* Properties.                                                             *)
(***************************************************************************)

\* Every variable has its type, and what is recorded, reserved or accepted was settled
\* for: a reservation is of a payment recorded for its good, an accepted item has one.
X402TypeOK ==
    /\ txn \in [Payments -> Transactions \cup {None}]
    /\ held \in [Goods -> Payments \cup {None}]
    /\ inFlight \subseteq Goods /\ accepted \subseteq Goods /\ repeated \subseteq Payments
    /\ \A p \in Payments : txn[p] # None => money[p] = "paid"
    /\ \A x \in Goods :
          /\ held[x] # None => txn[held[x]] # None /\ txn[held[x]].good = x
          /\ x \in accepted => \E p \in Payments : txn[p] # None /\ txn[p].good = x
    /\ given \in [Payments -> Nat] /\ bought \in [Payments -> Nat] /\ requests \in 0..MaxRequests

\* An authorization buys one thing, whatever requests carry it at once or again, to
\* either service.  (A raw item can be bought with it besides where a facilitator answers
\* a second settlement with the transaction of the first: x402_payments takes it again.)
OnePurchase ==
    \A p \in Payments :
        bought[p] <= 1 \/ (p \in repeated /\ "x402_payments" \in rows[p])

\* No more credits are given for an authorization than it paid, and none for one that was
\* not settled: a top-up once, a refund once, although finalizations look up the payment
\* by its good and lock nothing.  (For a hybrid payment the refund is of all it paid, its
\* excess included.)
CreditsWithinPayment ==
    \A p \in Payments :
        /\ given[p] > 0 => money[p] = "paid"
        /\ given[p] > Full => txn[p].kind = "hybrid"
=============================================================================
