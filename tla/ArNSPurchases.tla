---------------------------- MODULE ArNSPurchases ----------------------------
(***************************************************************************)
(* Names bought with credits, by a request, or by card, by Stripe's        *)
(* webhook: a debit or a payment, a transaction on the chain that may land *)
(* although its sender sees an error, and what refunds a name that was not *)
(* bought: the handler, a durable job, and a cron job for what was left.   *)
(***************************************************************************)
EXTENDS Payments

CONSTANT Intents  \* "fresh": buy, with an ANT made for it; "own": buy for an ANT the
                  \* buyer has; "change": extend, upgrade, more undernames

ASSUME IntentsAssumption == Intents \subseteq {"fresh", "own", "change"}

VARIABLES
    intent,    \* the intent of each purchase
    status,    \* status column of its receipt, or None
    antKnown,  \* purchases whose row holds the ANT the name is to resolve to
    landed,    \* purchases the chain holds
    jobs       \* jobs on payment-arns-refund

names == <<intent, status, antKnown, landed, jobs>>
allVars == <<vars, names>>

OnCredit(p) == method[p] = "name on credit"
Receipt(p) == "arns_purchase_receipt" \in rows[p]
Undecided(p) == Receipt(p) /\ status[p] \in {"reserved", "spawned"}
SetStatus(p, to) == status' = [status EXCEPT ![p] = to]

(***************************************************************************)
(* Database operations of the handlers and the jobs.                       *)
(***************************************************************************)
\* Deletes the row, gives the credits back, keeps a failed row; ArNSPurchaseNotFound,
\* which every caller takes for done, when the receipt is decided or gone.
updateFailedArNSPurchase(p) ==
    IF Undecided(p)
    THEN /\ Move(p, {"arns_purchase_receipt"}, {"failed_arns_purchase"}) /\ Credit(p, 1)
         /\ SetStatus(p, None)
    ELSE UNCHANGED <<rows, credited, status>>

markArNSPurchaseBought(p) == IF Undecided(p) THEN SetStatus(p, "bought") ELSE UNCHANGED status

addMessageIdToPurchaseReceipt(p) ==
    IF Receipt(p) THEN SetStatus(p, "recorded") ELSE UNCHANGED status

(***************************************************************************)
(* initiateArNSPurchase, with credits.                                     *)
(***************************************************************************)
createArNSPurchaseReceipt(h, p) ==
    /\ OnCredit(p) /\ rows[p] = {} /\ Begin(h, p, "spawn")
    /\ Move(p, {}, {"arns_purchase_receipt"}) /\ Credit(p, -1) /\ SetStatus(p, "reserved")
    /\ antKnown' = IF intent[p] = "own" THEN antKnown \cup {p} ELSE antKnown
    /\ UNCHANGED <<method, looks, money, stale, events, alerted, troubles, intent, landed, jobs>>

\* A fresh ANT is spawned and its id is persisted before the name is bought.
persistSpawnedAntId(h) ==
    LET p == run[h].p IN
    /\ At(h, "spawn")
    /\ \/ /\ Then(h, "write")
          /\ IF intent[p] = "fresh"
             THEN antKnown' = antKnown \cup {p} /\ SetStatus(p, "spawned")
             ELSE UNCHANGED <<antKnown, status>>
       \/ intent[p] = "fresh" /\ Then(h, "threw") /\ UNCHANGED <<antKnown, status>>
    /\ UNCHANGED <<method, looks, rows, money, stale, credited, events, alerted, troubles,
                   intent, landed, jobs>>

\* The gateway's transaction: it lands, is refused, or lands with an error for its
\* sender.  A name already bought cannot be bought again.
Write(h, good, bad) ==
    LET p == run[h].p IN
    /\ \/ /\ p \in landed => intent[p] = "change"
          /\ landed' = landed \cup {p}
          /\ (Then(h, good) /\ NoTrouble) \/ (Then(h, bad) /\ Trouble)
       \/ Then(h, bad) /\ UNCHANGED landed /\ NoTrouble
    /\ UNCHANGED <<method, looks, rows, money, stale, credited, events, alerted,
                   intent, status, antKnown, jobs>>
\* A chain that cannot be read counts as not landed.
confirmArNSWriteLanded(h) ==
    /\ At(h, "threw")
    /\ \/ run[h].p \in landed /\ Then(h, "landed") /\ NoTrouble
       \/ /\ Then(h, "not bought")
          /\ IF run[h].p \in landed THEN Trouble ELSE NoTrouble
    /\ UNCHANGED <<method, looks, rows, money, stale, credited, events, alerted, names>>

\* The mark comes first; when it fails it is only logged.
MarkBought(h) ==
    LET p == run[h].p IN
    /\ \/ At(h, "landed") /\ End(h)
       \/ At(h, "bought") /\ Then(h, "store")
    /\ \/ markArNSPurchaseBought(p) /\ NoTrouble
       \/ UNCHANGED status /\ Trouble
    /\ UNCHANGED <<method, looks, rows, money, stale, credited, events, alerted,
                   intent, antKnown, landed, jobs>>

StoreMessageId(h) ==
    LET p == run[h].p IN
    /\ At(h, "store") /\ End(h)
    /\ \/ addMessageIdToPurchaseReceipt(p) /\ UNCHANGED jobs /\ NoTrouble
       \/ jobs' = jobs \cup {<<"store-message-id", p>>} /\ UNCHANGED status /\ Trouble
    /\ UNCHANGED <<method, looks, rows, money, stale, credited, events, alerted,
                   intent, antKnown, landed>>

\* Inline, or by a job when the database does not answer.
durableRefundArNSPurchase(h) ==
    LET p == run[h].p IN
    /\ At(h, "not bought") /\ End(h)
    /\ \/ updateFailedArNSPurchase(p) /\ UNCHANGED jobs /\ NoTrouble
       \/ /\ jobs' = jobs \cup {<<"refund", p>>} /\ Trouble
          /\ UNCHANGED <<rows, credited, status>>
    /\ UNCHANGED <<method, looks, money, stale, events, alerted, intent, antKnown, landed>>

\* The request dies with its process.
Crash(h) ==
    /\ run[h] # None /\ OnCredit(run[h].p) /\ Trouble /\ End(h)
    /\ UNCHANGED <<method, looks, rows, money, stale, credited, events, alerted, names>>

(***************************************************************************)
(* The worker of payment-arns-refund.                                      *)
(***************************************************************************)
\* A job that throws is tried again.
arnsRefundWorker(j) ==
    LET p == j[2] IN
    /\ j \in jobs /\ jobs' = jobs \ {j}
    /\ IF j[1] = "refund" THEN updateFailedArNSPurchase(p)
       ELSE addMessageIdToPurchaseReceipt(p) /\ UNCHANGED <<rows, credited>>
    /\ UNCHANGED <<method, looks, money, stale, events, alerted, run, troubles,
                   intent, antKnown, landed>>

\* Mutant: a stale receipt is refunded without a look at the chain.
ReconcileBlindly(p) ==
    /\ Undecided(p) /\ p \in stale
    /\ jobs' = jobs \cup {<<"refund", p>>} /\ UNCHANGED status
    /\ UNCHANGED <<vars, intent, antKnown, landed>>
\* Mutant: only receipts whose ANT was spawned are looked at.
ReconcileSpawned(p) ==
    /\ status[p] = "spawned" /\ Undecided(p) /\ p \in stale
    /\ IF intent[p] # "change" /\ p \in landed /\ p \in antKnown
       THEN markArNSPurchaseBought(p) /\ UNCHANGED jobs
       ELSE jobs' = jobs \cup {<<"refund", p>>} /\ UNCHANGED status
    /\ UNCHANGED <<vars, intent, antKnown, landed>>
\* That the name resolves to the ANT proves a purchase, not a change; a chain that
\* cannot be read leaves the receipt for the next time.
reconcileStaleArNSPurchases(p) ==
    /\ Undecided(p) /\ p \in stale
    /\ IF intent[p] # "change" /\ p \in landed /\ p \in antKnown
       THEN markArNSPurchaseBought(p) /\ UNCHANGED jobs
       ELSE jobs' = jobs \cup {<<"refund", p>>} /\ UNCHANGED status
    /\ UNCHANGED <<vars, intent, antKnown, landed>>

(***************************************************************************)
(* handleArNSPurchaseEvent: the webhook, for a name paid by card.          *)
(***************************************************************************)
createArNSPurchaseQuote(p) ==
    /\ method[p] = "name" /\ rows[p] = {} /\ money[p] = "unpaid"
    /\ Move(p, {}, {"arns_purchase_quote"})
    /\ antKnown' = IF intent[p] = "own" THEN antKnown \cup {p} ELSE antKnown
    /\ UNCHANGED <<method, looks, money, stale, credited, events, alerted, run, troubles,
                   intent, status, landed, jobs>>

\* The webhook lets a quote that expired a little ago pass.
getArNSPurchaseQuote(h) ==
    LET quoted == "arns_purchase_quote" \in rows[run[h].p] IN
    /\ At(h, "quote")
    /\ \/ quoted /\ Then(h, "write by card") /\ NoTrouble
       \/ /\ Then(h, "check status")
          /\ IF quoted /\ run[h].p \notin stale THEN Trouble ELSE NoTrouble
    /\ UNCHANGED <<method, looks, rows, money, stale, credited, events, alerted, names>>

\* The receipt is inserted without a status: the column's default is reserved.  For a
\* quote that expired meanwhile a second transaction waits for the row this one deleted.
updateArNSPurchaseQuoteToSuccess(h) ==
    LET p == run[h].p
        quoted == "arns_purchase_quote" \in rows[p] IN
    /\ At(h, "bought by card")
    /\ \/ /\ quoted /\ p \notin stale /\ End(h)
          /\ Move(p, {"arns_purchase_quote"}, {"arns_purchase_receipt"})
          /\ SetStatus(p, "reserved") /\ NoTrouble
       \/ quoted /\ p \in stale /\ Then(h, "waits") /\ UNCHANGED <<rows, status>> /\ NoTrouble
       \/ ~quoted /\ Then(h, "not bought by card") /\ UNCHANGED <<rows, status>> /\ NoTrouble
       \/ quoted /\ Then(h, "not bought by card") /\ UNCHANGED <<rows, status>> /\ Trouble
    /\ UNCHANGED <<method, looks, money, stale, credited, events, alerted,
                   intent, antKnown, landed, jobs>>

updateArNSPurchaseQuoteToFailure(h) ==
    LET p == run[h].p
        locked == \E g \in Handlers : At(g, "waits") /\ run[g].p = p IN
    /\ At(h, "not bought by card") /\ ~locked /\ Then(h, "check status")
    /\ \/ /\ "arns_purchase_quote" \in rows[p] /\ NoTrouble
          /\ Move(p, {"arns_purchase_quote"}, {"failed_arns_purchase"})
       \/ "arns_purchase_quote" \notin rows[p] /\ UNCHANGED rows /\ NoTrouble
       \/ "arns_purchase_quote" \in rows[p] /\ UNCHANGED rows /\ Still
    /\ UNCHANGED <<method, looks, money, stale, credited, events, alerted, names>>

\* Mutant: the payment is not looked at again.
GiveUpName(h) ==
    /\ At(h, "check status") /\ End(h)
    /\ UNCHANGED <<method, looks, rows, money, stale, credited, events, alerted, troubles, names>>
\* A second read, for deliveries that overlap: a receipt means the name was bought.  One
\* that fails finds nothing (of three rejected queries Promise.any makes the error that
\* stands for no rows), nor does one by a replica more than a second behind.
getArNSPurchaseStatus(h) ==
    LET bought == Receipt(run[h].p) IN
    /\ At(h, "check status")
    /\ \/ bought /\ End(h) /\ NoTrouble
       \/ Then(h, "refund") /\ IF bought THEN Still ELSE NoTrouble
    /\ UNCHANGED <<method, looks, rows, money, stale, credited, events, alerted, names>>

(***************************************************************************)
(* Behaviours.                                                             *)
(***************************************************************************)
NamesInit ==
    /\ Init /\ intent \in [Payments -> Intents]
    /\ \A p \in Payments : method[p] \notin {"name", "name on credit"} =>
                             intent[p] = CHOOSE i \in Intents : TRUE
    /\ status = [p \in Payments |-> None]
    /\ antKnown = {} /\ landed = {} /\ jobs = {}

NameStep(h) ==
    \/ persistSpawnedAntId(h) \/ confirmArNSWriteLanded(h) \/ MarkBought(h)
    \/ At(h, "write") /\ Write(h, "bought", "threw")
    \/ At(h, "write by card") /\ Write(h, "bought by card", "not bought by card")
    \/ StoreMessageId(h) \/ durableRefundArNSPurchase(h)
    \/ getArNSPurchaseQuote(h) \/ updateArNSPurchaseQuoteToSuccess(h)
    \/ updateArNSPurchaseQuoteToFailure(h) \/ getArNSPurchaseStatus(h)

Worker(p) ==
    reconcileStaleArNSPurchases(p) \/ \E kind \in {"refund", "store-message-id"} :
                                          arnsRefundWorker(<<kind, p>>)

NamesNext ==
    \/ Next /\ UNCHANGED names
    \/ \E h \in Handlers : NameStep(h) \/ Crash(h)
    \/ \E h \in Handlers, p \in Payments : createArNSPurchaseReceipt(h, p)
    \/ \E p \in Payments : createArNSPurchaseQuote(p) \/ Worker(p)

NamesSpec == NamesInit /\ [][NamesNext]_allVars
\* As for Payments; besides, time passes, and the worker and its cron job go on.
NamesFair ==
    /\ \A h \in Handlers : WF_allVars((Step(h) /\ UNCHANGED names) \/ NameStep(h))
    /\ \A p \in Payments :
          /\ SF_allVars((\E h \in Handlers : FirstEvent(h, p)) /\ UNCHANGED names)
          /\ SF_allVars((\E h \in Handlers : Job(h, p)) /\ UNCHANGED names)
          /\ WF_allVars(Age(p) /\ Receipt(p) /\ UNCHANGED names)
          /\ WF_allVars(Worker(p))
NamesFairSpec == NamesSpec /\ NamesFair

(***************************************************************************)
(* Properties.                                                             *)
(***************************************************************************)

\* A name bought with credits is never refunded, and a name that was not bought is
\* refunded once: whatever lands with an error, dies, or is done by handler, job and
\* cron job at once, if only one thing goes wrong.  (Of a change to a name, nothing
\* but the handler can tell that it landed.)
NameOrCredits ==
    \A p \in Payments : OnCredit(p) =>
        /\ credited[p] \in {-1, 0}
        /\ p \in landed /\ intent[p] # "change" /\ rows[p] # {} => credited[p] = -1

\* What is bought with credits is marked so in the end, and what is not is refunded.
NamesSettled ==
    \A p \in Payments : (OnCredit(p) /\ rows[p] # {}) ~>
        (credited[p] = 0 \/ status[p] \in {"bought", "recorded"})

\* Money taken by card for a name buys it, is given back, or an operator is told.
NoMoneyKeptForNames ==
    \A p \in Payments : (method[p] = "name" /\ money[p] = "paid") ~>
        (p \in landed \/ money[p] # "paid" \/ p \in alerted)

\* "a name that was actually bought can never be refunded": neither the money nor the
\* credits of a transaction that landed are given back, when nothing went wrong.
LandedNeverRefunded ==
    \A p \in landed : /\ method[p] = "name" => credited[p] = 0 /\ money[p] # "returned"
                      /\ OnCredit(p) => credited[p] = -1
=============================================================================
