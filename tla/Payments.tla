------------------------------ MODULE Payments ------------------------------
(***************************************************************************)
(* How credits are bought: card payments and gifts through Stripe, and     *)
(* transactions of other chains.  Webhooks, requests and the cron job are  *)
(* handlers that run side by side; each database transaction is one step.  *)
(* ArNSPurchases adds the purchases of names, which Stripe's webhook and   *)
(* the refund of a card payment also serve, X402 payments by x402.         *)
(***************************************************************************)
EXTENDS Integers, FiniteSets

CONSTANTS
    Payments,
    Purchases,    \* what the payments may be for, each a function to Methods
    Handlers,     \* webhook deliveries, requests and cron jobs that overlap
    None,
    MaxTroubles   \* bound: duplicate events, failed calls and wrong answers

\* Credits by card, for oneself or as a gift, or by a transaction of another chain; a name
\* by card or with credits; anything by x402 (X402); or nothing is bought.
Methods == {"card", "gift", "crypto", "name", "name on credit", "x402", "nothing"}

\* Where a handler begins, those of x402 apart, which carry more (X402).
Starts == {"create", "quote", "redeem", "status", "job credit", "job fail", "spawn"}

ASSUME PaymentsAssumption ==
    /\ Purchases \subseteq [Payments -> Methods]
    /\ None \notin Payments /\ None \notin [p : Payments, step : Starts]
    /\ MaxTroubles \in Nat

VARIABLES
    method,    \* how each payment is made
    rows,      \* the tables that hold a row of the payment
    money,     \* where the money is, as Stripe or the chain has it
    stale,     \* quotes that expired, pending transactions older than a day, receipts
               \* of names older than 90 minutes
    credited,  \* how often its credits were added to a balance, less clawbacks
    events,    \* payments whose success event was delivered
    alerted,   \* payments an operator was told of
    looks,     \* (history) second looks at a payment that saw an old copy, or failed
    run,       \* what each handler is at
    troubles

vars == <<method, rows, money, stale, credited, events, alerted, looks, run, troubles>>

Card == {p \in Payments : method[p] \in {"card", "gift"}}
Credits == Card \cup {p \in Payments : method[p] = "crypto"}
Stripe == Card \cup {p \in Payments : method[p] = "name"}
Tables == {"top_up_quote", "payment_receipt", "chargeback_receipt", "unredeemed_gift",
           "redeemed_gift", "pending", "credited", "failed",
           "arns_purchase_quote", "arns_purchase_receipt", "failed_arns_purchase",
           "x402_payment_transaction", "x402_payments"}
Outdated(p) == <<p, "outdated">> \in looks
Unanswered(p) == <<p, "unanswered">> \in looks
Trouble == troubles < MaxTroubles /\ troubles' = troubles + 1
NoTrouble == UNCHANGED troubles
\* A database that failed a handler may still fail: the same trouble.
Still == IF troubles > 0 THEN NoTrouble ELSE Trouble

Begin(h, p, step) == run[h] = None /\ run' = [run EXCEPT ![h] = [p |-> p, step |-> step]]
At(h, step) == run[h] # None /\ run[h].step = step
Then(h, step) == run' = [run EXCEPT ![h].step = step]
End(h) == run' = [run EXCEPT ![h] = None]
Resting(p) == \A h \in Handlers : run[h] # None => run[h].p # p
Move(p, from, to) == rows' = [rows EXCEPT ![p] = (@ \ from) \cup to]
Credit(p, n) == credited' = [credited EXCEPT ![p] = @ + n]

(***************************************************************************)
(* Outside: the customer, Stripe, the chain and the clock.                 *)
(***************************************************************************)
topUp(p) ==
    /\ p \in Card /\ rows[p] = {} /\ money[p] = "unpaid"
    /\ Move(p, {}, {"top_up_quote"})
    /\ UNCHANGED <<method, looks, money, stale, credited, events, alerted, run, troubles>>

Pay(p) ==
    /\ \/ /\ p \in Stripe /\ rows[p] # {} /\ money[p] = "unpaid"
          /\ money' = [money EXCEPT ![p] = "paid"]
       \/ /\ method[p] = "crypto" /\ money[p] = "unpaid"
          /\ money' = [money EXCEPT ![p] = "sent"]
       \/ money[p] = "sent" /\ \E to \in {"paid", "lost"} : money' = [money EXCEPT ![p] = to]
    /\ UNCHANGED <<method, looks, rows, stale, credited, events, alerted, run, troubles>>

Age(p) ==
    /\ p \notin stale
    /\ \/ rows[p] \cap {"top_up_quote", "arns_purchase_quote", "pending"} # {}
       \/ "arns_purchase_receipt" \in rows[p] /\ Resting(p)
    /\ stale' = stale \cup {p}
    /\ UNCHANGED <<method, looks, rows, money, credited, events, alerted, run, troubles>>

(***************************************************************************)
(* Stripe's payment_intent.succeeded, which it may deliver again.          *)
(***************************************************************************)
handlePaymentSuccessEvent(h, p) ==
    /\ p \in Stripe /\ money[p] # "unpaid"
    /\ IF p \in events THEN Trouble ELSE NoTrouble
    /\ events' = events \cup {p} /\ Begin(h, p, IF p \in Card THEN "create" ELSE "quote")
    /\ UNCHANGED <<method, looks, rows, money, stale, credited, alerted>>

\* Mutant: the quote is kept.
ReceiptKeepsQuote(h) ==
    LET p == run[h].p IN
    /\ At(h, "create")
    /\ \/ /\ "top_up_quote" \in rows[p] /\ p \notin stale
          /\ Move(p, {}, {"payment_receipt"} \cup
                (IF method[p] = "gift" THEN {"unredeemed_gift"} ELSE {}))
          /\ Credit(p, IF method[p] = "gift" THEN 0 ELSE 1)
          /\ End(h) /\ NoTrouble
       \/ /\ IF "top_up_quote" \in rows[p] /\ p \notin stale THEN Trouble ELSE NoTrouble
          /\ Then(h, "check") /\ UNCHANGED <<rows, credited>>
    /\ UNCHANGED <<method, looks, money, stale, events, alerted>>
\* The quote row becomes the receipt, once: a second delivery finds no quote.  An
\* email that fails afterwards changes nothing, as the receipt is found below.
createPaymentReceipt(h) ==
    LET p == run[h].p IN
    /\ At(h, "create")
    /\ \/ /\ "top_up_quote" \in rows[p] /\ p \notin stale
          /\ Move(p, {"top_up_quote"}, {"payment_receipt"} \cup
                (IF method[p] = "gift" THEN {"unredeemed_gift"} ELSE {}))
          /\ Credit(p, IF method[p] = "gift" THEN 0 ELSE 1)
          /\ End(h) /\ NoTrouble
       \/ /\ IF "top_up_quote" \in rows[p] /\ p \notin stale THEN Trouble ELSE NoTrouble
          /\ Then(h, "check") /\ UNCHANGED <<rows, credited>>
    /\ UNCHANGED <<method, looks, money, stale, events, alerted>>

\* Mutant: refunds without looking for a receipt.
RefundUnchecked(h) ==
    /\ At(h, "check") /\ Then(h, "refund")
    /\ UNCHANGED <<method, looks, rows, money, stale, credited, events, alerted, troubles>>
\* Second thoughts, by the pool of readers: a replica may not have the receipt yet, and a
\* look that fails ends the handler, which nobody awaits, before refund and alert.
checkForExistingPaymentByTopUpQuoteId(h) ==
    LET p == run[h].p
        known == rows[p] \cap {"payment_receipt", "chargeback_receipt"} # {} IN
    /\ At(h, "check")
    /\ \/ known /\ End(h) /\ UNCHANGED looks /\ NoTrouble
       \/ ~known /\ Then(h, "refund") /\ UNCHANGED looks /\ NoTrouble
       \/ known /\ Then(h, "refund") /\ looks' = looks \cup {<<p, "outdated">>} /\ NoTrouble
       \/ End(h) /\ looks' = looks \cup {<<p, "unanswered">>} /\ Still
    /\ UNCHANGED <<method, rows, money, stale, credited, events, alerted>>

\* Mutant: a refund that fails is only logged.
RefundSilent(h) ==
    LET p == run[h].p IN
    /\ At(h, "refund") /\ End(h)
    /\ \/ /\ money[p] = "paid" /\ money' = [money EXCEPT ![p] = "returned"]
          /\ UNCHANGED alerted /\ NoTrouble
       \/ /\ IF money[p] = "paid" THEN Trouble ELSE NoTrouble
          /\ UNCHANGED <<alerted, money>>
    /\ UNCHANGED <<method, looks, rows, stale, credited, events>>
refundPayment(h) ==
    LET p == run[h].p IN
    /\ At(h, "refund") /\ End(h)
    /\ \/ /\ money[p] = "paid" /\ money' = [money EXCEPT ![p] = "returned"]
          /\ UNCHANGED alerted /\ NoTrouble
       \/ /\ IF money[p] = "paid" THEN Trouble ELSE NoTrouble
          /\ alerted' = alerted \cup {p} /\ UNCHANGED money
    /\ UNCHANGED <<method, looks, rows, stale, credited, events>>

(***************************************************************************)
(* Gifts and disputes.                                                     *)
(***************************************************************************)
redeemGift(h, p) ==
    /\ {"unredeemed_gift", "payment_receipt"} \subseteq rows[p]
    /\ Begin(h, p, "redeem")
    /\ UNCHANGED <<method, looks, rows, money, stale, credited, events, alerted, troubles>>

\* Mutant: the row count of the deletion is all there is to go by, and is not looked at.
RedeemTwice(h) ==
    LET p == run[h].p IN
    /\ At(h, "redeem") /\ End(h)
    /\ Move(p, {"unredeemed_gift"}, {"redeemed_gift"}) /\ Credit(p, 1)
    /\ UNCHANGED <<method, looks, money, stale, events, alerted, troubles>>
\* Two requests may have read the gift: the key of redeemed_gift lets one commit.
RedeemCommit(h) ==
    LET p == run[h].p IN
    /\ At(h, "redeem") /\ End(h)
    /\ IF "redeemed_gift" \in rows[p] THEN UNCHANGED <<rows, credited>>
       ELSE Move(p, {"unredeemed_gift"}, {"redeemed_gift"}) /\ Credit(p, 1)
    /\ UNCHANGED <<method, looks, money, stale, events, alerted, troubles>>

\* A dispute comes after the payment was handled.  A gift is looked up among the
\* unredeemed ones, so neither is it deleted nor are its credits taken back.
handleDisputeCreatedEvent(p) ==
    /\ p \in Card /\ money[p] = "paid" /\ p \in events /\ Resting(p)
    /\ money' = [money EXCEPT ![p] = "disputed"]
    /\ IF "payment_receipt" \notin rows[p] THEN UNCHANGED <<rows, credited>>
       ELSE /\ Move(p, {"payment_receipt"}, {"chargeback_receipt"})
            /\ Credit(p, IF method[p] = "gift" THEN 0 ELSE -1)
    /\ UNCHANGED <<method, looks, stale, events, alerted, run, troubles>>

(***************************************************************************)
(* Transactions of other chains: a request to watch one, and the cron job. *)
(***************************************************************************)
addPendingPaymentTx(h, p) ==
    /\ method[p] = "crypto" /\ money[p] # "unpaid" /\ rows[p] = {}
    /\ Begin(h, p, "status")
    /\ UNCHANGED <<method, looks, rows, money, stale, credited, events, alerted, troubles>>

\* A transaction the gateway does not know is refused, or watched if it just knew it.
getTransactionStatus(h) ==
    /\ At(h, "status")
    /\ \/ money[run[h].p] = "paid" /\ Then(h, "credit")
       \/ money[run[h].p] \in {"sent", "lost"} /\ Then(h, "pend")
       \/ money[run[h].p] = "lost" /\ End(h)
    /\ UNCHANGED <<method, looks, rows, money, stale, credited, events, alerted, troubles>>

createPendingTransaction(h) ==
    /\ At(h, "pend") /\ End(h) /\ Move(run[h].p, {}, {"pending"})
    /\ UNCHANGED <<method, looks, money, stale, credited, events, alerted, troubles>>

createNewCreditedTransaction(h) ==
    LET p == run[h].p IN
    /\ At(h, "credit") /\ End(h)
    /\ IF "credited" \in rows[p] THEN UNCHANGED <<rows, credited>>
       ELSE Move(p, {}, {"credited"}) /\ Credit(p, 1)
    /\ UNCHANGED <<method, looks, money, stale, events, alerted, troubles>>

\* The job lists the pending rows and asks for the status of one; a gateway that
\* does not know a transaction of a day ago, or says so wrongly, fails it.
creditPendingTransactionsHandler(h, p) ==
    /\ "pending" \in rows[p]
    /\ \/ money[p] = "paid" /\ Begin(h, p, "job credit") /\ NoTrouble
       \/ /\ p \in stale /\ Begin(h, p, "job fail")
          /\ IF money[p] = "lost" THEN NoTrouble ELSE Trouble
    /\ UNCHANGED <<method, looks, rows, money, stale, credited, events, alerted>>

\* No row left to delete, or a credited row there already: rolled back.
creditPendingTransaction(h) ==
    LET p == run[h].p IN
    /\ At(h, "job credit") /\ End(h)
    /\ IF "pending" \in rows[p] /\ "credited" \notin rows[p]
       THEN Move(p, {"pending"}, {"credited"}) /\ Credit(p, 1)
       ELSE UNCHANGED <<rows, credited>>
    /\ UNCHANGED <<method, looks, money, stale, events, alerted, troubles>>

\* Mutant: the failed transaction stays among the pending ones.
FailKeepsPending(h) ==
    LET p == run[h].p IN
    /\ At(h, "job fail") /\ End(h)
    /\ IF "pending" \in rows[p] THEN Move(p, {}, {"failed"}) ELSE UNCHANGED rows
    /\ UNCHANGED <<method, looks, money, stale, credited, events, alerted, troubles>>
failPendingTransaction(h) ==
    LET p == run[h].p IN
    /\ At(h, "job fail") /\ End(h)
    /\ IF "pending" \in rows[p] THEN Move(p, {"pending"}, {"failed"}) ELSE UNCHANGED rows
    /\ UNCHANGED <<method, looks, money, stale, credited, events, alerted, troubles>>

(***************************************************************************)
(* Behaviours.                                                             *)
(***************************************************************************)
Init ==
    /\ method \in Purchases
    /\ rows = [p \in Payments |-> {}] /\ money = [p \in Payments |-> "unpaid"]
    /\ stale = {} /\ credited = [p \in Payments |-> 0]
    /\ events = {} /\ alerted = {} /\ looks = {}
    /\ run = [h \in Handlers |-> None] /\ troubles = 0

Step(h) ==
    \/ createPaymentReceipt(h) \/ checkForExistingPaymentByTopUpQuoteId(h)
    \/ refundPayment(h) \/ RedeemCommit(h)
    \/ getTransactionStatus(h) \/ createPendingTransaction(h)
    \/ createNewCreditedTransaction(h)
    \/ creditPendingTransaction(h) \/ failPendingTransaction(h)
FirstEvent(h, p) == p \notin events /\ handlePaymentSuccessEvent(h, p)
Job(h, p) == creditPendingTransactionsHandler(h, p)
Next ==
    \/ \E p \in Payments : topUp(p) \/ Pay(p) \/ Age(p) \/ handleDisputeCreatedEvent(p)
    \/ \E h \in Handlers, p \in Payments :
          \/ handlePaymentSuccessEvent(h, p) \/ redeemGift(h, p)
          \/ addPendingPaymentTx(h, p) \/ Job(h, p)
    \/ \E h \in Handlers : Step(h)

Spec == Init /\ [][Next]_vars
\* Handlers run on, Stripe delivers its event, the cron job comes round to every
\* pending transaction.
Fair ==
    /\ \A h \in Handlers : WF_vars(Step(h))
    /\ \A p \in Payments : /\ SF_vars(\E h \in Handlers : FirstEvent(h, p))
                           /\ SF_vars(\E h \in Handlers : Job(h, p))
FairSpec == Spec /\ Fair

(***************************************************************************)
(* Properties.                                                             *)
(***************************************************************************)

\* Every variable has its type, and no payment's credits are added twice.
TypeOK ==
    /\ method \in Purchases /\ rows \in [Payments -> SUBSET Tables]
    /\ money \in [Payments -> {"unpaid", "sent", "lost", "paid", "returned", "disputed"}]
    /\ credited \in [Payments -> {-1, 0, 1}]
    /\ stale \subseteq Payments /\ events \subseteq Payments /\ alerted \subseteq Payments
    /\ looks \subseteq Payments \X {"outdated", "unanswered"}
    /\ \A h \in Handlers : run[h] # None => run[h].p \in Payments
    /\ troubles \in 0..MaxTroubles

\* No payment is given back and credited too, whatever deliveries of one event, or
\* requests and runs of the cron job, overlap; only a gift that was redeemed keeps
\* its credits when the payment is disputed.  (Not so where the look that decides on a
\* refund asked a replica that had not got the receipt: nothing waits for it here.)
NotBothWays ==
    \A p \in Credits : credited[p] = 1 =>
        money[p] = "paid" \/ (money[p] = "disputed" /\ method[p] = "gift") \/ Outdated(p)

\* A card payment is a quote, a receipt or a chargeback, never two of them, and a gift
\* is waiting or redeemed; credits exist only with the row that accounts for them.
\* (A transaction two requests saw at once may be credited, or failed, and pending.)
OneOutcome ==
    \A p \in Credits :
        /\ Cardinality(rows[p] \cap {"top_up_quote", "payment_receipt", "chargeback_receipt"}) <= 1
        /\ ~({"unredeemed_gift", "redeemed_gift"} \subseteq rows[p])
        /\ credited[p] = 1 => rows[p] \cap {"payment_receipt", "redeemed_gift", "credited"} # {}

\* Money Stripe took is credited (a gift is put aside for its recipient), given back,
\* or an operator is told, although the webhook answers before the work is done (the
\* process lives on: Stripe has its 200 and does not ask again).  Not so where the
\* database fails the second look too: nothing is tried then, and nobody told.
NoMoneyKept ==
    \A p \in Payments : (p \in Card /\ money[p] = "paid") ~>
        (credited[p] = 1 \/ "unredeemed_gift" \in rows[p] \/ money[p] # "paid" \/ p \in alerted
         \/ Unanswered(p))

\* A confirmed transaction the service was told of is credited or recorded as failed.
PendingIsDecided ==
    \A p \in Payments : ("pending" \in rows[p] /\ money[p] # "sent") ~>
        ("pending" \notin rows[p] \/ credited[p] = 1 \/ (money[p] = "lost" /\ p \notin stale))
=============================================================================
