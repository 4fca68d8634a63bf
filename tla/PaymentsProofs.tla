--------------------------- MODULE PaymentsProofs ---------------------------
(***************************************************************************)
(* That the books of the payment service are right, for any payments,      *)
(* handlers, requests and troubles: what a handler is at fits what its     *)
(* payment is for, the rows of a payment say how often it was credited,    *)
(* an authorization buys one thing and gives no more credits than it paid, *)
(* and a payment is credited or given back, a name kept or refunded, and   *)
(* never both while at most one thing went wrong.                          *)
(***************************************************************************)
EXTENDS X402, FiniteSetTheorems, TLAPS

(***************************************************************************)
(* Handlers.                                                               *)
(***************************************************************************)
\* The steps of a handler, by what its payment is for.
Fit(m, s) ==
    \/ m \in {"card", "gift"} /\ s \in {"create", "check", "refund"}
    \/ m = "gift" /\ s = "redeem"
    \/ m = "crypto" /\ s \in {"status", "pend", "credit", "job credit", "job fail"}
    \/ m = "name" /\ s \in {"quote", "write by card", "bought by card", "waits",
                            "not bought by card", "check status", "refund"}
    \/ m = "name on credit" /\ s \in {"spawn", "write", "threw", "landed", "not bought",
                                      "bought", "store"}
    \/ m = "x402" /\ s \in {"verify", "settle", "record", "reserve", "top up", "receive",
                            "finalize", "confirmed", "refunded", "fraud_penalty", "accept",
                            "store raw"}

\* The tables a payment may have rows in.
Proper(m, t) ==
    \/ m \in {"card", "gift"} /\ t \in {"top_up_quote", "payment_receipt", "chargeback_receipt"}
    \/ m = "gift" /\ t \in {"unredeemed_gift", "redeemed_gift"}
    \/ m = "crypto" /\ t \in {"pending", "credited", "failed"}
    \/ m = "name" /\ t = "arns_purchase_quote"
    \/ m \in {"name", "name on credit"} /\ t \in {"arns_purchase_receipt", "failed_arns_purchase"}
    \/ m = "x402" /\ t \in {"x402_payment_transaction", "x402_payments"}

Steps == {"create", "check", "refund", "redeem", "status", "pend", "credit", "job credit",
          "job fail", "quote", "write by card", "bought by card", "waits",
          "not bought by card", "check status", "spawn", "write", "threw", "landed",
          "not bought", "bought", "store", "verify", "settle", "record", "reserve",
          "top up", "receive", "finalize", "confirmed", "refunded", "fraud_penalty",
          "accept", "store raw"}
Plain == [p : Payments, step : Steps]
Carried == [p : Payments, step : Steps, kind : {"signed", "raw", "top-up", "hybrid"},
            good : Goods \cup {None}, of : Payments]
Running(h) ==
    /\ Fit(method[run[h].p], run[h].step)
    /\ IF method[run[h].p] = "x402" THEN run[h] \in Carried ELSE run[h] \in Plain
Runs == run \in [Handlers -> Plain \cup Carried \cup {None}]
        /\ \A h \in Handlers : run[h] # None => Running(h)

Typed ==
    /\ method \in Purchases /\ method \in [Payments -> Methods] /\ Runs
    /\ rows \in [Payments -> SUBSET Tables]
    /\ \A p \in Payments : \A t \in rows[p] : Proper(method[p], t)
    /\ money \in [Payments -> {"unpaid", "sent", "lost", "paid", "returned", "disputed"}]
    /\ credited \in [Payments -> Int] /\ troubles \in 0..MaxTroubles
    /\ stale \subseteq Payments /\ events \subseteq Payments /\ alerted \subseteq Payments
    /\ looks \subseteq Payments \X {"outdated", "unanswered"}
    /\ jobs \subseteq {"refund", "store-message-id"} \X Payments

LEMMA SameRuns ==
    ASSUME Runs, UNCHANGED <<run, method>> PROVE Runs'
BY DEF Runs, Running

LEMMA BeginRuns ==
    ASSUME Runs, NEW h \in Handlers, NEW p \in Payments, NEW s,
           Fit(method[p], s), method[p] # "x402", Begin(h, p, s), UNCHANGED method
    PROVE  Runs'
<1> DEFINE r == [p |-> p, step |-> s]
<1>1. r \in Plain /\ r.p = p /\ r.step = s
  BY DEF Plain, Fit, Steps
<1>2. run' = [run EXCEPT ![h] = r]
  BY DEF Begin
<1>3. run' \in [Handlers -> Plain \cup Carried \cup {None}]
  BY <1>1, <1>2 DEF Runs
<1>4. ASSUME NEW g \in Handlers, run'[g] # None PROVE Running(g)'
  <2>1. CASE g = h
    BY <1>1, <1>2, <2>1 DEF Runs, Running
  <2>2. CASE g # h
    BY <1>2, <1>4, <2>2 DEF Runs, Running
  <2> QED BY <2>1, <2>2
<1> QED BY <1>3, <1>4 DEF Runs

LEMMA FitsAreSteps == ASSUME NEW m, NEW s, Fit(m, s) PROVE s \in Steps
BY Zenon DEF Fit, Steps

LEMMA ThenRuns ==
    ASSUME Runs, NEW h \in Handlers, run[h] # None, NEW s,
           Fit(method[run[h].p], s), Then(h, s), UNCHANGED method
    PROVE  /\ Runs' /\ run'[h] = [run[h] EXCEPT !.step = s]
           /\ run'[h].p = run[h].p /\ run'[h].step = s
           /\ \A g \in Handlers \ {h} : run'[g] = run[g]
<1> DEFINE r == [run[h] EXCEPT !.step = s]
<1>1. run' = [run EXCEPT ![h] = r]
  BY DEF Then
<1>2. run[h] \in Plain \cup Carried /\ Running(h)
  BY DEF Runs, Running
<1>3. /\ r.p = run[h].p /\ r.step = s
      /\ run[h] \in Plain => r \in Plain
      /\ run[h] \in Carried => r \in Carried
  <2>1. s \in Steps
    BY FitsAreSteps
  <2> QED BY <1>2, <2>1 DEF Plain, Carried
<1>4. run' \in [Handlers -> Plain \cup Carried \cup {None}]
  BY <1>1, <1>2, <1>3 DEF Runs
<1>5. run'[h] = r /\ \A g \in Handlers \ {h} : run'[g] = run[g]
  BY <1>1 DEF Runs
<1>6. ASSUME NEW g \in Handlers, run'[g] # None PROVE Running(g)'
  <2>1. CASE g = h
    BY <1>2, <1>3, <1>5, <2>1 DEF Running
  <2>2. CASE g # h
    BY <1>5, <1>6, <2>2 DEF Runs, Running
  <2> QED BY <2>1, <2>2
<1> QED BY <1>3, <1>4, <1>5, <1>6 DEF Runs

LEMMA EndRuns ==
    ASSUME Runs, NEW h \in Handlers, End(h), UNCHANGED method
    PROVE  Runs' /\ run'[h] = None /\ \A g \in Handlers \ {h} : run'[g] = run[g]
<1>1. run'[h] = None /\ \A g \in Handlers \ {h} : run'[g] = run[g]
  BY DEF Runs, End
<1>2. run' \in [Handlers -> Plain \cup Carried \cup {None}]
  BY DEF Runs, End
<1>3. ASSUME NEW g \in Handlers, run'[g] # None PROVE Running(g)'
  BY <1>1, <1>3 DEF Runs, Running
<1> QED BY <1>1, <1>2, <1>3 DEF Runs

LEMMA AtPayment ==
    ASSUME Typed, NEW h \in Handlers, run[h] # None
    PROVE  /\ run[h].p \in Payments /\ Fit(method[run[h].p], run[h].step)
           /\ method[run[h].p] = "x402" => run[h] \in Carried
BY DEF Typed, Runs, Running, Plain, Carried

LEMMA MoveTyped ==
    ASSUME Typed, UNCHANGED method, NEW p \in Payments, NEW from, NEW to \in SUBSET Tables,
           \A t \in to : Proper(method[p], t), Move(p, from, to)
    PROVE  /\ rows' \in [Payments -> SUBSET Tables]
           /\ \A q \in Payments : \A t \in rows'[q] : Proper(method'[q], t)
<1>1. rows' = [rows EXCEPT ![p] = (rows[p] \ from) \cup to]
  BY DEF Move
<1>2. rows' \in [Payments -> SUBSET Tables]
  BY <1>1 DEF Typed
<1>3. ASSUME NEW q \in Payments, NEW t \in rows'[q] PROVE Proper(method[q], t)
  BY <1>1, <1>3 DEF Typed
<1> QED BY <1>2, <1>3

LEMMA TroubleTyped ==
    ASSUME Typed, Trouble \/ NoTrouble PROVE troubles' \in 0..MaxTroubles
BY PaymentsAssumption DEF Typed, Trouble, NoTrouble

(***************************************************************************)
(* Types: the steps of Payments.                                           *)
(***************************************************************************)
LEMMA OutsideTyped ==
    ASSUME Typed, UNCHANGED jobs, NEW p \in Payments,
           topUp(p) \/ Pay(p) \/ Age(p) \/ handleDisputeCreatedEvent(p)
    PROVE  Typed'
<1>1. run' = run /\ method' = method /\ troubles' = troubles /\ events' = events
      /\ alerted' = alerted /\ looks' = looks
  BY DEF topUp, Pay, Age, handleDisputeCreatedEvent
<1>2. Runs'
  BY <1>1, SameRuns DEF Typed
<1>3. /\ rows' \in [Payments -> SUBSET Tables]
      /\ \A q \in Payments : \A t \in rows'[q] : Proper(method'[q], t)
  <2>1. CASE UNCHANGED rows
    BY <1>1, <2>1 DEF Typed
  <2>2. CASE topUp(p)
    <3>1. \A t \in {"top_up_quote"} : Proper(method[p], t)
      BY <2>2 DEF topUp, Card, Proper
    <3>2. Move(p, {}, {"top_up_quote"}) /\ {"top_up_quote"} \in SUBSET Tables
      BY <2>2 DEF topUp, Tables
    <3> QED BY <1>1, <3>1, <3>2, MoveTyped
  <2>3. CASE handleDisputeCreatedEvent(p) /\ Move(p, {"payment_receipt"}, {"chargeback_receipt"})
    <3>1. \A t \in {"chargeback_receipt"} : Proper(method[p], t)
      BY <2>3 DEF handleDisputeCreatedEvent, Card, Proper
    <3>2. {"chargeback_receipt"} \in SUBSET Tables
      BY DEF Tables
    <3> QED BY <1>1, <2>3, <3>1, <3>2, MoveTyped
  <2> QED BY <2>1, <2>2, <2>3 DEF topUp, Pay, Age, handleDisputeCreatedEvent
<1>4. money' \in [Payments -> {"unpaid", "sent", "lost", "paid", "returned", "disputed"}]
  BY DEF topUp, Pay, Age, handleDisputeCreatedEvent, Typed
<1>5. credited' \in [Payments -> Int]
  BY DEF topUp, Pay, Age, handleDisputeCreatedEvent, Typed, Credit
<1>6. stale' \subseteq Payments
  BY DEF topUp, Pay, Age, handleDisputeCreatedEvent, Typed
<1> QED BY <1>1, <1>2, <1>3, <1>4, <1>5, <1>6 DEF Typed

LEMMA BeginTyped ==
    ASSUME Typed, UNCHANGED jobs, NEW h \in Handlers, NEW p \in Payments,
           \/ handlePaymentSuccessEvent(h, p) \/ redeemGift(h, p) \/ addPendingPaymentTx(h, p)
           \/ Job(h, p)
    PROVE  Typed'
<1>1. Runs'
  <2>0. Runs /\ UNCHANGED method
    BY DEF Typed, handlePaymentSuccessEvent, redeemGift, addPendingPaymentTx, Job,
           creditPendingTransactionsHandler
  <2>1. CASE handlePaymentSuccessEvent(h, p) /\ p \in Card
    <3>1. Begin(h, p, "create") /\ Fit(method[p], "create") /\ method[p] # "x402"
      BY <2>1 DEF handlePaymentSuccessEvent, Card, Fit
    <3> QED BY <2>0, <3>1, BeginRuns
  <2>2. CASE handlePaymentSuccessEvent(h, p) /\ p \notin Card
    <3>1. Begin(h, p, "quote") /\ Fit(method[p], "quote") /\ method[p] # "x402"
      BY <2>2 DEF handlePaymentSuccessEvent, Stripe, Fit
    <3> QED BY <2>0, <3>1, BeginRuns
  <2>3. CASE redeemGift(h, p)
    <3>1. Proper(method[p], "unredeemed_gift")
      BY <2>3 DEF redeemGift, Typed
    <3>2. Begin(h, p, "redeem") /\ Fit(method[p], "redeem") /\ method[p] # "x402"
      BY <2>3, <3>1 DEF redeemGift, Proper, Fit
    <3> QED BY <2>0, <3>2, BeginRuns
  <2>4. CASE addPendingPaymentTx(h, p)
    <3>1. Begin(h, p, "status") /\ Fit(method[p], "status") /\ method[p] # "x402"
      BY <2>4 DEF addPendingPaymentTx, Fit
    <3> QED BY <2>0, <3>1, BeginRuns
  <2>5. CASE Job(h, p)
    <3>1. Proper(method[p], "pending")
      BY <2>5 DEF Job, creditPendingTransactionsHandler, Typed
    <3>2. method[p] = "crypto"
      BY <3>1 DEF Proper
    <3>3. Fit(method[p], "job credit") /\ Fit(method[p], "job fail")
      BY <3>2 DEF Fit
    <3>4. CASE Begin(h, p, "job credit")
      BY <2>0, <3>2, <3>3, <3>4, BeginRuns
    <3>5. CASE Begin(h, p, "job fail")
      BY <2>0, <3>2, <3>3, <3>5, BeginRuns
    <3> QED BY <2>5, <3>4, <3>5 DEF Job, creditPendingTransactionsHandler
  <2> QED BY <2>1, <2>2, <2>3, <2>4, <2>5
<1>2. troubles' \in 0..MaxTroubles
  BY TroubleTyped DEF handlePaymentSuccessEvent, redeemGift, addPendingPaymentTx, Job,
                      creditPendingTransactionsHandler, NoTrouble
<1> QED BY <1>1, <1>2
        DEF Typed, handlePaymentSuccessEvent, redeemGift, addPendingPaymentTx, Job,
            creditPendingTransactionsHandler

\* A step of a handler that ends it, or leads it on, and touches nothing but rows.
LEMMA HandlerTyped ==
    ASSUME Typed, NEW h \in Handlers, run[h] # None,
           End(h) \/ \E s \in Steps : Then(h, s) /\ Fit(method[run[h].p], s),
           UNCHANGED <<method, stale, events>>, Trouble \/ NoTrouble,
           looks' \subseteq looks \cup ({run[h].p} \X {"outdated", "unanswered"}),
           alerted' \subseteq alerted \cup {run[h].p},
           jobs' \subseteq jobs \cup ({"refund", "store-message-id"} \X {run[h].p}),
           credited' \in [Payments -> Int],
           money' = money \/ money' = [money EXCEPT ![run[h].p] = "returned"]
                          \/ money' = [money EXCEPT ![run[h].p] = "paid"],
           rows' = rows \/ \E from, to \in SUBSET Tables :
                              /\ Move(run[h].p, from, to)
                              /\ \A t \in to : Proper(method[run[h].p], t)
    PROVE  Typed'
<1>1. run[h].p \in Payments
  BY AtPayment
<1>2. Runs'
  <2>1. CASE End(h)
    BY <2>1, EndRuns DEF Typed
  <2>2. CASE \E s \in Steps : Then(h, s) /\ Fit(method[run[h].p], s)
    BY <2>2, ThenRuns DEF Typed
  <2> QED BY <2>1, <2>2
<1>3. /\ rows' \in [Payments -> SUBSET Tables]
      /\ \A q \in Payments : \A t \in rows'[q] : Proper(method'[q], t)
  <2>1. CASE rows' = rows
    BY <2>1 DEF Typed
  <2>2. CASE rows' # rows
    <3>1. PICK from, to \in SUBSET Tables :
             /\ Move(run[h].p, from, to)
             /\ \A t \in to : Proper(method[run[h].p], t)
      BY <2>2
    <3> QED BY <1>1, <3>1, MoveTyped
  <2> QED BY <2>1, <2>2
<1>4. troubles' \in 0..MaxTroubles
  BY TroubleTyped
<1>5. money' \in [Payments -> {"unpaid", "sent", "lost", "paid", "returned", "disputed"}]
  BY <1>1 DEF Typed
<1>6. /\ alerted' \subseteq Payments /\ looks' \subseteq Payments \X {"outdated", "unanswered"}
      /\ jobs' \subseteq {"refund", "store-message-id"} \X Payments
  BY <1>1 DEF Typed
<1> QED BY <1>2, <1>3, <1>4, <1>5, <1>6 DEF Typed

LEMMA StepTyped ==
    ASSUME Typed, UNCHANGED jobs, NEW h \in Handlers, Step(h)
    PROVE  Typed'
<1>0. run[h] # None
  BY DEF Step, createPaymentReceipt, checkForExistingPaymentByTopUpQuoteId, refundPayment,
         RedeemCommit, getTransactionStatus, createPendingTransaction,
         createNewCreditedTransaction, creditPendingTransaction, failPendingTransaction, At
<1> DEFINE p == run[h].p
<1>1. p \in Payments /\ Fit(method[p], run[h].step) /\ credited[p] \in Int
  BY <1>0, AtPayment DEF Typed
<1>2. CASE createPaymentReceipt(h)
  <2>1. method[p] \in {"card", "gift"} /\ Fit(method[p], "check")
    BY <1>1, <1>2 DEF createPaymentReceipt, At, Fit
  <2>2. credited' \in [Payments -> Int]
    BY <1>1, <1>2 DEF createPaymentReceipt, Credit, Typed
  <2> DEFINE to == {"payment_receipt"} \cup (IF method[p] = "gift" THEN {"unredeemed_gift"} ELSE {})
  <2>3. to \in SUBSET Tables /\ \A t \in to : Proper(method[p], t)
    BY <2>1 DEF Tables, Proper
  <2>4. rows' = rows \/ (Move(p, {"top_up_quote"}, to) /\ {"top_up_quote"} \in SUBSET Tables)
    BY <1>2 DEF createPaymentReceipt, Tables
  <2>5. End(h) \/ Then(h, "check")
    BY <1>2 DEF createPaymentReceipt
  <2> QED BY <1>0, <1>2, <2>1, <2>2, <2>3, <2>4, <2>5, HandlerTyped
          DEF createPaymentReceipt, Steps
<1>3. CASE checkForExistingPaymentByTopUpQuoteId(h)
  <2>1. Fit(method[p], "refund") /\ (End(h) \/ Then(h, "refund")) /\ (Trouble \/ NoTrouble)
    BY <1>1, <1>3 DEF checkForExistingPaymentByTopUpQuoteId, At, Fit, Still
  <2>2. looks' \subseteq looks \cup ({p} \X {"outdated", "unanswered"})
    BY <1>3 DEF checkForExistingPaymentByTopUpQuoteId
  <2> QED BY <1>0, <1>3, <2>1, <2>2, HandlerTyped
          DEF checkForExistingPaymentByTopUpQuoteId, Steps, Typed
<1>4. CASE refundPayment(h)
  BY <1>0, <1>4, HandlerTyped DEF refundPayment, Typed
<1>5. CASE RedeemCommit(h)
  <2>1. method[p] = "gift" /\ NoTrouble
    BY <1>1, <1>5 DEF RedeemCommit, At, Fit, NoTrouble
  <2>2. credited' \in [Payments -> Int]
    BY <1>1, <1>5 DEF RedeemCommit, Credit, Typed
  <2>3. {"unredeemed_gift"} \in SUBSET Tables /\ {"redeemed_gift"} \in SUBSET Tables
    BY DEF Tables
  <2>4. \A t \in {"redeemed_gift"} : Proper(method[p], t)
    BY <2>1 DEF Proper
  <2>5. rows' = rows \/ Move(p, {"unredeemed_gift"}, {"redeemed_gift"})
    BY <1>5 DEF RedeemCommit
  <2> QED BY <1>0, <1>5, <2>1, <2>2, <2>3, <2>4, <2>5, HandlerTyped DEF RedeemCommit
<1>6. CASE \/ getTransactionStatus(h) \/ createPendingTransaction(h) \/ failPendingTransaction(h)
           \/ createNewCreditedTransaction(h) \/ creditPendingTransaction(h)
  <2>1. method[p] = "crypto"
    BY <1>1, <1>6 DEF getTransactionStatus, createPendingTransaction, failPendingTransaction,
       createNewCreditedTransaction, creditPendingTransaction, At, Fit
  <2>2. credited' = credited \/ Credit(p, 1)
    BY <1>6 DEF getTransactionStatus, createPendingTransaction, failPendingTransaction,
       createNewCreditedTransaction, creditPendingTransaction
  <2>9. credited' \in [Payments -> Int]
    BY <1>1, <2>2 DEF Credit, Typed
  <2>10. NoTrouble
    BY <1>6 DEF getTransactionStatus, createPendingTransaction, failPendingTransaction,
       createNewCreditedTransaction, creditPendingTransaction, NoTrouble
  <2>11. Fit(method[p], "credit") /\ Fit(method[p], "pend")
    BY <2>1 DEF Fit
  <2>3. \A t \in {"pending", "credited", "failed"} : t \in Tables /\ Proper(method[p], t)
    BY <2>1 DEF Tables, Proper
  <2>4. rows' = rows \/ \E from, to \in SUBSET {"pending", "credited", "failed"} : Move(p, from, to)
    BY <1>6 DEF getTransactionStatus, createPendingTransaction, failPendingTransaction,
       createNewCreditedTransaction, creditPendingTransaction
  <2>5. End(h) \/ Then(h, "credit") \/ Then(h, "pend")
    BY <1>6 DEF getTransactionStatus, createPendingTransaction, failPendingTransaction,
       createNewCreditedTransaction, creditPendingTransaction
  <2>6. UNCHANGED <<method, looks, money, stale, events, alerted>>
    BY <1>6 DEF getTransactionStatus, createPendingTransaction, failPendingTransaction,
       createNewCreditedTransaction, creditPendingTransaction
  <2>7. rows' = rows \/ \E from, to \in SUBSET Tables :
                            Move(p, from, to) /\ \A t \in to : Proper(method[p], t)
    BY <2>3, <2>4
  <2>8. End(h) \/ \E s \in Steps : Then(h, s) /\ Fit(method[p], s)
    BY <2>11, <2>5 DEF Steps
  <2> QED BY <1>0, <2>6, <2>7, <2>8, <2>9, <2>10, HandlerTyped
<1> QED BY <1>2, <1>3, <1>4, <1>5, <1>6 DEF Step

(***************************************************************************)
(* Types: the steps of ArNSPurchases.                                      *)
(***************************************************************************)
\* What the database operations of a purchase may change.
LEMMA FailedTyped ==
    ASSUME Typed, NEW p \in Payments, updateFailedArNSPurchase(p)
    PROVE  /\ credited' \in [Payments -> Int]
           /\ \/ rows' = rows
              \/ /\ Move(p, {"arns_purchase_receipt"}, {"failed_arns_purchase"})
                 /\ Proper(method[p], "failed_arns_purchase")
<1>1. credited' \in [Payments -> Int]
  BY DEF updateFailedArNSPurchase, Credit, Typed
<1>2. CASE Undecided(p)
  <2>1. Proper(method[p], "arns_purchase_receipt")
    BY <1>2 DEF Undecided, Receipt, Typed
  <2>2. Proper(method[p], "failed_arns_purchase")
    BY <2>1 DEF Proper
  <2> QED BY <1>1, <1>2, <2>2 DEF updateFailedArNSPurchase
<1>3. CASE ~Undecided(p)
  BY <1>1, <1>3 DEF updateFailedArNSPurchase
<1> QED BY <1>2, <1>3

LEMMA NameStepTyped ==
    ASSUME Typed, NEW h \in Handlers, NameStep(h)
    PROVE  Typed'
<1>0. run[h] # None
  BY DEF NameStep, persistSpawnedAntId, confirmArNSWriteLanded, MarkBought, Write,
         StoreMessageId, durableRefundArNSPurchase, getArNSPurchaseQuote,
         updateArNSPurchaseQuoteToSuccess, updateArNSPurchaseQuoteToFailure,
         getArNSPurchaseStatus, At
<1> DEFINE p == run[h].p
           m == method[p]
<1>1. p \in Payments /\ Fit(m, run[h].step)
  BY <1>0, AtPayment
<1>2. credited \in [Payments -> Int] /\ {} \in SUBSET Tables
  BY DEF Typed
<1>3. CASE persistSpawnedAntId(h)
  <2>1. At(h, "spawn")
    BY <1>3 DEF persistSpawnedAntId
  <2>2. m = "name on credit"
    BY <1>1, <2>1 DEF At, Fit
  <2>3. Fit(m, "write") /\ Fit(m, "threw")
    BY <2>2 DEF Fit
  <2>4. Then(h, "write") \/ Then(h, "threw")
    BY <1>3 DEF persistSpawnedAntId
  <2>5. UNCHANGED <<method, looks, rows, money, stale, credited, events, alerted, troubles, jobs>>
    BY <1>3 DEF persistSpawnedAntId
  <2>6. End(h) \/ \E s \in Steps : Then(h, s) /\ Fit(m, s)
    BY <2>3, <2>4 DEF Steps
  <2> QED BY <1>0, <1>2, <2>5, <2>6, HandlerTyped DEF NoTrouble
<1>4. CASE confirmArNSWriteLanded(h)
  <2>1. At(h, "threw") /\ (Then(h, "landed") \/ Then(h, "not bought")) /\ (Trouble \/ NoTrouble)
    BY <1>4 DEF confirmArNSWriteLanded
  <2>2. m = "name on credit"
    BY <1>1, <2>1 DEF At, Fit
  <2>3. Fit(m, "landed") /\ Fit(m, "not bought")
    BY <2>2 DEF Fit
  <2>5. UNCHANGED <<method, looks, rows, money, stale, credited, events, alerted, jobs>>
    BY <1>4 DEF confirmArNSWriteLanded, names
  <2>6. End(h) \/ \E s \in Steps : Then(h, s) /\ Fit(m, s)
    BY <2>1, <2>3 DEF Steps
  <2> QED BY <1>0, <1>2, <2>1, <2>5, <2>6, HandlerTyped
<1>5. CASE MarkBought(h)
  <2>1. (End(h) \/ (At(h, "bought") /\ Then(h, "store"))) /\ (Trouble \/ NoTrouble)
    BY <1>5 DEF MarkBought
  <2>2. At(h, "bought") => m = "name on credit"
    BY <1>1 DEF At, Fit
  <2>3. At(h, "bought") => Fit(m, "store")
    BY <2>2 DEF Fit
  <2>5. UNCHANGED <<method, looks, rows, money, stale, credited, events, alerted, jobs>>
    BY <1>5 DEF MarkBought
  <2>6. End(h) \/ \E s \in Steps : Then(h, s) /\ Fit(m, s)
    BY <2>1, <2>3 DEF Steps
  <2> QED BY <1>0, <1>2, <2>1, <2>5, <2>6, HandlerTyped
<1>6. CASE At(h, "write") /\ Write(h, "bought", "threw")
  <2>1. m = "name on credit"
    BY <1>1, <1>6 DEF At, Fit
  <2>2. Fit(m, "bought") /\ Fit(m, "threw")
    BY <2>1 DEF Fit
  <2>3. (Then(h, "bought") \/ Then(h, "threw")) /\ (Trouble \/ NoTrouble)
    BY <1>6 DEF Write
  <2>5. UNCHANGED <<method, looks, rows, money, stale, credited, events, alerted, jobs>>
    BY <1>6 DEF Write
  <2>6. End(h) \/ \E s \in Steps : Then(h, s) /\ Fit(m, s)
    BY <2>2, <2>3 DEF Steps
  <2> QED BY <1>0, <1>2, <2>3, <2>5, <2>6, HandlerTyped
<1>7. CASE At(h, "write by card") /\ Write(h, "bought by card", "not bought by card")
  <2>1. m = "name"
    BY <1>1, <1>7 DEF At, Fit
  <2>2. Fit(m, "bought by card") /\ Fit(m, "not bought by card")
    BY <2>1 DEF Fit
  <2>3. (Then(h, "bought by card") \/ Then(h, "not bought by card")) /\ (Trouble \/ NoTrouble)
    BY <1>7 DEF Write
  <2>5. UNCHANGED <<method, looks, rows, money, stale, credited, events, alerted, jobs>>
    BY <1>7 DEF Write
  <2>6. End(h) \/ \E s \in Steps : Then(h, s) /\ Fit(m, s)
    BY <2>2, <2>3 DEF Steps
  <2> QED BY <1>0, <1>2, <2>3, <2>5, <2>6, HandlerTyped
<1>8. CASE StoreMessageId(h)
  <2>1. End(h) /\ (Trouble \/ NoTrouble)
    BY <1>8 DEF StoreMessageId
  <2>2. jobs' \subseteq jobs \cup ({"refund", "store-message-id"} \X {p})
    BY <1>8 DEF StoreMessageId
  <2>3. UNCHANGED <<method, looks, rows, money, stale, credited, events, alerted>>
    BY <1>8 DEF StoreMessageId
  <2> QED BY <1>0, <1>2, <2>1, <2>2, <2>3, HandlerTyped
<1>9. CASE durableRefundArNSPurchase(h)
  <2>1. End(h) /\ (Trouble \/ NoTrouble)
    BY <1>9 DEF durableRefundArNSPurchase
  <2>2. jobs' \subseteq jobs \cup ({"refund", "store-message-id"} \X {p})
    <3>1. jobs' = jobs \/ jobs' = jobs \cup {<<"refund", p>>}
      BY <1>9 DEF durableRefundArNSPurchase
    <3> QED BY <3>1
  <2>3. UNCHANGED <<method, looks, money, stale, events, alerted>>
    BY <1>9 DEF durableRefundArNSPurchase
  <2>4. updateFailedArNSPurchase(p) \/ UNCHANGED <<rows, credited>>
    BY <1>9 DEF durableRefundArNSPurchase
  <2>5. /\ credited' \in [Payments -> Int]
        /\ \/ rows' = rows
           \/ /\ Move(p, {"arns_purchase_receipt"}, {"failed_arns_purchase"})
              /\ Proper(m, "failed_arns_purchase")
    BY <1>1, <1>2, <2>4, FailedTyped
  <2>6. {"arns_purchase_receipt"} \in SUBSET Tables /\ {"failed_arns_purchase"} \in SUBSET Tables
    BY DEF Tables
  <2>7. rows' = rows \/ \E from, to \in SUBSET Tables :
                            Move(p, from, to) /\ \A t \in to : Proper(m, t)
    BY <2>5, <2>6
  <2> QED BY <1>0, <2>1, <2>2, <2>3, <2>5, <2>7, HandlerTyped
<1>10. CASE getArNSPurchaseQuote(h)
  <2>1. At(h, "quote") /\ (Then(h, "write by card") \/ Then(h, "check status"))
        /\ (Trouble \/ NoTrouble)
    BY <1>10 DEF getArNSPurchaseQuote
  <2>2. m = "name"
    BY <1>1, <2>1 DEF At, Fit
  <2>3. Fit(m, "write by card") /\ Fit(m, "check status")
    BY <2>2 DEF Fit
  <2>5. UNCHANGED <<method, looks, rows, money, stale, credited, events, alerted, jobs>>
    BY <1>10 DEF getArNSPurchaseQuote, names
  <2>6. End(h) \/ \E s \in Steps : Then(h, s) /\ Fit(m, s)
    BY <2>1, <2>3 DEF Steps
  <2> QED BY <1>0, <1>2, <2>1, <2>5, <2>6, HandlerTyped
<1>11. CASE updateArNSPurchaseQuoteToSuccess(h)
  <2>1. /\ At(h, "bought by card")
        /\ End(h) \/ Then(h, "waits") \/ Then(h, "not bought by card")
        /\ Trouble \/ NoTrouble
    BY <1>11 DEF updateArNSPurchaseQuoteToSuccess
  <2>2. m = "name"
    BY <1>1, <2>1 DEF At, Fit
  <2>3. Fit(m, "waits") /\ Fit(m, "not bought by card")
    BY <2>2 DEF Fit
  <2>5. UNCHANGED <<method, looks, money, stale, credited, events, alerted, jobs>>
    BY <1>11 DEF updateArNSPurchaseQuoteToSuccess
  <2>6. End(h) \/ \E s \in Steps : Then(h, s) /\ Fit(m, s)
    BY <2>1, <2>3 DEF Steps
  <2>7. /\ {"arns_purchase_quote"} \in SUBSET Tables /\ {"arns_purchase_receipt"} \in SUBSET Tables
        /\ \A t \in {"arns_purchase_receipt"} : Proper(m, t)
    BY <2>2 DEF Tables, Proper
  <2>8. rows' = rows \/ Move(p, {"arns_purchase_quote"}, {"arns_purchase_receipt"})
    BY <1>11 DEF updateArNSPurchaseQuoteToSuccess
  <2> QED BY <1>0, <1>2, <2>1, <2>5, <2>6, <2>7, <2>8, HandlerTyped
<1>12. CASE updateArNSPurchaseQuoteToFailure(h)
  <2>1. At(h, "not bought by card") /\ Then(h, "check status") /\ (Trouble \/ NoTrouble)
    BY <1>12 DEF updateArNSPurchaseQuoteToFailure, Still
  <2>2. m = "name"
    BY <1>1, <2>1 DEF At, Fit
  <2>3. Fit(m, "check status") /\ "check status" \in Steps
    BY <2>2 DEF Fit, Steps
  <2>5. UNCHANGED <<method, looks, money, stale, credited, events, alerted, jobs>>
    BY <1>12 DEF updateArNSPurchaseQuoteToFailure, names
  <2>7. /\ {"arns_purchase_quote"} \in SUBSET Tables /\ {"failed_arns_purchase"} \in SUBSET Tables
        /\ \A t \in {"failed_arns_purchase"} : Proper(m, t)
    BY <2>2 DEF Tables, Proper
  <2>8. rows' = rows \/ Move(p, {"arns_purchase_quote"}, {"failed_arns_purchase"})
    BY <1>12 DEF updateArNSPurchaseQuoteToFailure
  <2> QED BY <1>0, <1>2, <2>1, <2>3, <2>5, <2>7, <2>8, HandlerTyped
<1>13. CASE getArNSPurchaseStatus(h)
  <2>1. At(h, "check status") /\ (End(h) \/ Then(h, "refund"))
        /\ (Trouble \/ NoTrouble)
    BY <1>13 DEF getArNSPurchaseStatus, Still
  <2>2. m = "name"
    BY <1>1, <2>1 DEF At, Fit
  <2>3. Fit(m, "refund") /\ "refund" \in Steps
    BY <2>2 DEF Fit, Steps
  <2>5. UNCHANGED <<method, looks, rows, money, stale, credited, events, alerted, jobs>>
    BY <1>13 DEF getArNSPurchaseStatus, names
  <2> QED BY <1>0, <1>2, <2>1, <2>3, <2>5, HandlerTyped
<1> QED BY <1>3, <1>4, <1>5, <1>6, <1>7, <1>8, <1>9, <1>10, <1>11, <1>12, <1>13 DEF NameStep

LEMMA WorkerTyped ==
    ASSUME Typed, NEW p \in Payments, createArNSPurchaseQuote(p) \/ Worker(p)
    PROVE  Typed'
<1>1. CASE createArNSPurchaseQuote(p)
  <2>1. UNCHANGED <<method, looks, money, stale, credited, events, alerted, run, troubles, jobs>>
    BY <1>1 DEF createArNSPurchaseQuote
  <2>2. /\ {"arns_purchase_quote"} \in SUBSET Tables
        /\ \A t \in {"arns_purchase_quote"} : Proper(method[p], t)
    BY <1>1 DEF createArNSPurchaseQuote, Tables, Proper
  <2>3. Move(p, {}, {"arns_purchase_quote"})
    BY <1>1 DEF createArNSPurchaseQuote
  <2>4. /\ rows' \in [Payments -> SUBSET Tables]
        /\ \A q \in Payments : \A t \in rows'[q] : Proper(method'[q], t)
    BY <2>1, <2>2, <2>3, MoveTyped
  <2>5. Runs'
    BY <2>1, SameRuns DEF Typed
  <2> QED BY <2>1, <2>4, <2>5 DEF Typed
<1>2. CASE reconcileStaleArNSPurchases(p)
  <2>1. UNCHANGED vars /\ jobs' \subseteq {"refund", "store-message-id"} \X Payments
    BY <1>2 DEF reconcileStaleArNSPurchases, Typed
  <2>2. Runs'
    BY <2>1, SameRuns DEF Typed, vars
  <2> QED BY <2>1, <2>2 DEF Typed, vars
<1>3. ASSUME NEW kind \in {"refund", "store-message-id"}, arnsRefundWorker(<<kind, p>>)
      PROVE  Typed'
  <2>1. UNCHANGED <<method, looks, money, stale, events, alerted, run, troubles>> /\ jobs' \subseteq jobs
    BY <1>3 DEF arnsRefundWorker
  <2>2. updateFailedArNSPurchase(p) \/ UNCHANGED <<rows, credited>>
    BY <1>3 DEF arnsRefundWorker
  <2>3. /\ credited' \in [Payments -> Int]
        /\ \/ rows' = rows
           \/ /\ Move(p, {"arns_purchase_receipt"}, {"failed_arns_purchase"})
              /\ Proper(method[p], "failed_arns_purchase")
    BY <2>2, FailedTyped DEF Typed
  <2>4. /\ rows' \in [Payments -> SUBSET Tables]
        /\ \A q \in Payments : \A t \in rows'[q] : Proper(method'[q], t)
    <3>1. CASE rows' = rows
      BY <2>1, <3>1 DEF Typed
    <3>2. CASE Move(p, {"arns_purchase_receipt"}, {"failed_arns_purchase"})
               /\ Proper(method[p], "failed_arns_purchase")
      <4>1. {"failed_arns_purchase"} \in SUBSET Tables
        BY DEF Tables
      <4> QED BY <2>1, <3>2, <4>1, MoveTyped
    <3> QED BY <2>3, <3>1, <3>2
  <2>5. Runs'
    BY <2>1, SameRuns DEF Typed
  <2> QED BY <2>1, <2>3, <2>4, <2>5 DEF Typed
<1> QED BY <1>1, <1>2, <1>3 DEF Worker

LEMMA CreditPurchaseTyped ==
    ASSUME Typed, NEW h \in Handlers, NEW p \in Payments, createArNSPurchaseReceipt(h, p)
    PROVE  Typed'
<1>1. UNCHANGED <<method, looks, money, stale, events, alerted, troubles, jobs>>
  BY DEF createArNSPurchaseReceipt
<1>2. method[p] = "name on credit" /\ Begin(h, p, "spawn")
  BY DEF createArNSPurchaseReceipt, OnCredit
<1>3. Fit(method[p], "spawn") /\ Proper(method[p], "arns_purchase_receipt")
  BY <1>2 DEF Fit, Proper
<1>4. Runs'
  BY <1>1, <1>2, <1>3, BeginRuns DEF Typed
<1>5. Move(p, {}, {"arns_purchase_receipt"}) /\ {"arns_purchase_receipt"} \in SUBSET Tables
  BY DEF createArNSPurchaseReceipt, Tables
<1>6. /\ rows' \in [Payments -> SUBSET Tables]
      /\ \A q \in Payments : \A t \in rows'[q] : Proper(method'[q], t)
  BY <1>1, <1>3, <1>5, MoveTyped
<1>7. credited' \in [Payments -> Int]
  BY DEF createArNSPurchaseReceipt, Credit, Typed
<1> QED BY <1>1, <1>4, <1>6, <1>7 DEF Typed

LEMMA CrashTyped ==
    ASSUME Typed, NEW h \in Handlers, Crash(h) \/ Die(h)
    PROVE  Typed'
<1>1. run[h] # None /\ End(h) /\ Trouble
      /\ UNCHANGED <<method, looks, rows, money, stale, credited, events, alerted, jobs>>
  BY DEF Crash, Die, Unchanged, names
<1>2. credited' \in [Payments -> Int]
  BY <1>1 DEF Typed
<1> QED BY <1>1, <1>2, HandlerTyped

(***************************************************************************)
(* Types: the steps of X402.                                               *)
(***************************************************************************)
LEMMA AskTyped ==
    ASSUME Typed, NEW h \in Handlers, NEW p \in Payments,
           NEW kind \in {"signed", "raw", "top-up", "hybrid"}, NEW x \in Goods \cup {None},
           Ask(h, p, kind, x), UNCHANGED <<rows, money, troubles>>, Unchanged
    PROVE  Typed'
<1> DEFINE r == [p |-> p, step |-> "verify", kind |-> kind, good |-> x, of |-> p]
<1>1. r \in Carried /\ r.p = p /\ r.step = "verify"
  BY DEF Carried, Steps
<1>2. run' = [run EXCEPT ![h] = r] /\ method[p] = "x402"
      /\ UNCHANGED <<method, looks, stale, credited, events, alerted, jobs>>
  BY DEF Ask, Unchanged, names
<1>3. run' \in [Handlers -> Plain \cup Carried \cup {None}]
  BY <1>1, <1>2 DEF Typed, Runs
<1>4. ASSUME NEW g \in Handlers, run'[g] # None PROVE Running(g)'
  <2>1. CASE g = h
    <3>1. run'[g] = r
      BY <1>2, <2>1 DEF Typed, Runs
    <3>2. Fit("x402", "verify")
      BY DEF Fit
    <3> QED BY <1>1, <1>2, <3>1, <3>2 DEF Running
  <2>2. CASE g # h
    BY <1>2, <1>4, <2>2 DEF Typed, Runs, Running
  <2> QED BY <2>1, <2>2
<1>5. Runs'
  BY <1>3, <1>4 DEF Runs
<1> QED BY <1>2, <1>5 DEF Typed

LEMMA AsksTyped ==
    ASSUME Typed, NEW h \in Handlers, NEW p \in Payments,
           \/ rawDataUploadRoute(h, p) \/ x402TopUpRoute(h, p)
           \/ \E x \in Goods : postSignedItem(h, p, x) \/ x402PaymentRoute(h, p, x)
    PROVE  Typed'
<1>1. CASE rawDataUploadRoute(h, p)
  BY <1>1, AskTyped DEF rawDataUploadRoute
<1>2. CASE x402TopUpRoute(h, p)
  BY <1>2, AskTyped DEF x402TopUpRoute
<1>3. ASSUME NEW x \in Goods, postSignedItem(h, p, x) PROVE Typed'
  BY <1>3, AskTyped DEF postSignedItem
<1>4. ASSUME NEW x \in Goods, x402PaymentRoute(h, p, x) PROVE Typed'
  BY <1>4, AskTyped DEF x402PaymentRoute
<1> QED BY <1>1, <1>2, <1>3, <1>4

LEMMA ExpireTyped ==
    ASSUME Typed, NEW x \in Goods, ExpireMark(x) PROVE Typed'
<1>1. UNCHANGED <<method, looks, rows, money, stale, credited, events, alerted, run, troubles, jobs>>
  BY DEF ExpireMark, Unchanged, names
<1>2. Runs'
  BY <1>1, SameRuns DEF Typed
<1> QED BY <1>1, <1>2 DEF Typed

\* The handler that finalizes turns to the payment it found.
LEMMA FinalizesRuns ==
    ASSUME Typed, NEW h \in Handlers, run[h] # None, NEW q \in Payments,
           method[run[h].p] = "x402", Finalizes(h, q), UNCHANGED method
    PROVE  /\ Runs' /\ run'[h].p = run[h].p /\ run'[h].good = run[h].good
           /\ run'[h].kind = run[h].kind /\ run'[h].of = q /\ run'[h].step \in Statuses
           /\ \A g \in Handlers \ {h} : run'[g] = run[g]
<1>1. PICK to \in Statuses : run' = [run EXCEPT ![h].step = to, ![h].of = q]
  BY DEF Finalizes
<1> DEFINE r == [run[h] EXCEPT !.step = to, !.of = q]
<1>2. run[h] \in Carried
  BY AtPayment
<1>3. r \in Carried /\ r.p = run[h].p /\ r.good = run[h].good /\ r.kind = run[h].kind
      /\ r.of = q /\ r.step = to
  BY <1>1, <1>2 DEF Carried, Statuses, Steps
<1>4. run' = [run EXCEPT ![h] = r]
  BY <1>1
<1>5. run'[h] = r /\ \A g \in Handlers \ {h} : run'[g] = run[g]
  BY <1>4 DEF Typed, Runs
<1>6. run' \in [Handlers -> Plain \cup Carried \cup {None}]
  BY <1>3, <1>4 DEF Typed, Runs
<1>7. Fit("x402", to)
  BY <1>1 DEF Fit, Statuses
<1>8. ASSUME NEW g \in Handlers, run'[g] # None PROVE Running(g)'
  <2>1. CASE g = h
    BY <1>3, <1>5, <1>7, <2>1 DEF Running
  <2>2. CASE g # h
    BY <1>5, <1>8, <2>2 DEF Typed, Runs, Running
  <2> QED BY <2>1, <2>2
<1> QED BY <1>3, <1>5, <1>6, <1>8 DEF Runs

LEMMA X402StepTyped ==
    ASSUME Typed, NEW h \in Handlers, X402Step(h)
    PROVE  /\ Typed' /\ run[h] # None /\ method[run[h].p] = "x402"
<1> USE DEF X402Step, verifyPayment, rawVerifyPayment, settlePayment, rawSettlePayment
<1>0. /\ run[h] # None
      /\ run[h].step \in {"verify", "settle", "record", "reserve", "top up", "receive", "finalize",
                          "accept", "store raw"} \cup Statuses
  BY DEF Verify, Settle, createX402Payment, createX402PaymentReservation,
         adjustUserWinstonBalance, verifyAndSettleX402Payment, x402FinalizeRoute,
         finalizeX402Payment, acceptSignedItem, insertX402Payment, storeRawDataItem, At, Raw
<1> DEFINE p == run[h].p
<1>1. p \in Payments /\ method[p] = "x402" /\ run[h] \in Carried
  BY <1>0, AtPayment DEF Fit, Statuses
<1>2. /\ UNCHANGED <<method, looks, stale, credited, events, alerted, jobs>>
      /\ credited \in [Payments -> Int]
  BY DEF Verify, Settle, createX402Payment, createX402PaymentReservation,
         adjustUserWinstonBalance, verifyAndSettleX402Payment, x402FinalizeRoute,
         finalizeX402Payment, acceptSignedItem, insertX402Payment, storeRawDataItem,
         Unchanged, names, Typed
<1>3. Trouble \/ NoTrouble
  BY DEF Verify, Settle, createX402Payment, createX402PaymentReservation,
         adjustUserWinstonBalance, verifyAndSettleX402Payment, x402FinalizeRoute,
         finalizeX402Payment, acceptSignedItem, insertX402Payment, storeRawDataItem, NoTrouble
<1>4. money' = money \/ money' = [money EXCEPT ![p] = "paid"]
  BY DEF Verify, Settle, createX402Payment, createX402PaymentReservation,
         adjustUserWinstonBalance, verifyAndSettleX402Payment, x402FinalizeRoute,
         finalizeX402Payment, acceptSignedItem, insertX402Payment, storeRawDataItem
<1>5. \/ rows' = rows
      \/ Move(p, {}, {"x402_payment_transaction"}) \/ Move(p, {}, {"x402_payments"})
  BY DEF Verify, Settle, createX402Payment, createX402PaymentReservation,
         adjustUserWinstonBalance, verifyAndSettleX402Payment, x402FinalizeRoute,
         finalizeX402Payment, acceptSignedItem, insertX402Payment, storeRawDataItem
<1>6. rows' = rows \/ \E from, to \in SUBSET Tables :
                          Move(p, from, to) /\ \A t \in to : Proper(method[p], t)
  <2>1. \A t \in {"x402_payment_transaction", "x402_payments"} :
            t \in Tables /\ Proper(method[p], t)
    BY <1>1 DEF Tables, Proper
  <2>2. {} \in SUBSET Tables
    OBVIOUS
  <2> QED BY <1>5, <2>1, <2>2
<1>7. \/ End(h) \/ \E s \in Steps : Then(h, s) /\ Fit(method[p], s)
      \/ \E q \in Payments : Finalizes(h, q)
  <2>1. \A s \in {"verify", "settle", "record", "reserve", "top up", "receive", "finalize",
                  "accept", "store raw"} : s \in Steps /\ Fit(method[p], s)
    <3>1. \A s \in {"verify", "settle", "record", "reserve", "top up", "receive", "finalize",
                    "accept", "store raw"} : Fit("x402", s)
      BY Zenon DEF Fit
    <3> QED BY <1>1, <3>1, FitsAreSteps
  <2>2. \/ End(h) \/ \E q \in Payments : Finalizes(h, q)
        \/ \E s \in {"verify", "settle", "record", "reserve", "top up", "receive", "finalize",
                     "accept", "store raw"} : Then(h, s)
    BY DEF Verify, Settle, createX402Payment, createX402PaymentReservation,
           adjustUserWinstonBalance, verifyAndSettleX402Payment, x402FinalizeRoute,
           finalizeX402Payment, acceptSignedItem, insertX402Payment, storeRawDataItem, Fails
  <2> QED BY <2>1, <2>2
<1>8. Typed'
  <2>1. CASE End(h) \/ \E s \in Steps : Then(h, s) /\ Fit(method[p], s)
    BY <1>0, <1>2, <1>3, <1>4, <1>6, <2>1, HandlerTyped
  <2>2. CASE \E q \in Payments : Finalizes(h, q)
    <3>1. Runs'
      BY <1>0, <1>1, <1>2, <2>2, FinalizesRuns
    <3>2. /\ rows' \in [Payments -> SUBSET Tables]
          /\ \A q \in Payments : \A t \in rows'[q] : Proper(method'[q], t)
      <4>1. CASE rows' = rows
        BY <1>2, <4>1 DEF Typed
      <4>2. CASE rows' # rows
        <5>1. PICK from, to \in SUBSET Tables :
                  Move(p, from, to) /\ \A t \in to : Proper(method[p], t)
          BY <1>6, <4>2
        <5> QED BY <1>1, <1>2, <5>1, MoveTyped
      <4> QED BY <4>1, <4>2
    <3>3. troubles' \in 0..MaxTroubles
      BY <1>3, TroubleTyped
    <3>4. money' \in [Payments -> {"unpaid", "sent", "lost", "paid", "returned", "disputed"}]
      BY <1>1, <1>4 DEF Typed
    <3> QED BY <1>2, <3>1, <3>2, <3>3, <3>4 DEF Typed
  <2> QED BY <1>7, <2>1, <2>2
<1> QED BY <1>0, <1>1, <1>8

LEMMA InitTyped == ASSUME X402Init PROVE Typed
<1>1. Init /\ jobs = {}
  BY DEF X402Init, NamesInit
<1>2. method \in [Payments -> Methods] /\ method \in Purchases
  BY <1>1, PaymentsAssumption DEF PaymentsAssumption, Init
<1>3. Runs
  BY <1>1 DEF Init, Runs
<1>4. troubles \in 0..MaxTroubles
  <2>1. troubles = 0 /\ MaxTroubles \in Nat
    BY <1>1, PaymentsAssumption DEF PaymentsAssumption, Init
  <2> QED BY <2>1
<1>5. /\ rows = [p \in Payments |-> {}] /\ money = [p \in Payments |-> "unpaid"]
      /\ credited = [p \in Payments |-> 0] /\ stale = {} /\ events = {} /\ alerted = {} /\ looks = {}
  BY <1>1 DEF Init
<1> QED BY <1>1, <1>2, <1>3, <1>4, <1>5 DEF Typed

LEMMA NextTyped == ASSUME Typed, [X402Next]_x402Vars PROVE Typed'
<1>1. CASE UNCHANGED x402Vars
  <2>1. UNCHANGED <<vars, jobs>>
    BY <1>1 DEF x402Vars, allVars, names
  <2>2. Runs'
    BY <2>1, SameRuns DEF Typed, vars
  <2> QED BY <2>1, <2>2 DEF Typed, vars
<1>2. CASE NamesNext
  <2>1. CASE Next /\ UNCHANGED names
    <3>1. UNCHANGED jobs
      BY <2>1 DEF names
    <3> QED BY <2>1, <3>1, OutsideTyped, BeginTyped, StepTyped DEF Next
  <2> QED BY <1>2, <2>1, NameStepTyped, CrashTyped, CreditPurchaseTyped, WorkerTyped
          DEF NamesNext
<1> QED BY <1>1, <1>2, X402StepTyped, CrashTyped, AsksTyped, ExpireTyped DEF X402Next

(***************************************************************************)
(* The books: the rows of a payment exclude each other and say how often   *)
(* it was credited; a gift that is being redeemed was put aside.           *)
(***************************************************************************)
In(p, t) == t \in rows[p]

Books(p) ==
    /\ method[p] \in {"card", "gift"} =>
          /\ ~(In(p, "top_up_quote") /\ In(p, "payment_receipt"))
          /\ ~(In(p, "top_up_quote") /\ In(p, "chargeback_receipt"))
          /\ ~(In(p, "payment_receipt") /\ In(p, "chargeback_receipt"))
    /\ method[p] = "card" => credited[p] = IF In(p, "payment_receipt") THEN 1 ELSE 0
    /\ method[p] = "gift" =>
          /\ In(p, "top_up_quote") => ~In(p, "unredeemed_gift") /\ ~In(p, "redeemed_gift")
          /\ ~(In(p, "unredeemed_gift") /\ In(p, "redeemed_gift"))
          /\ credited[p] = IF In(p, "redeemed_gift") THEN 1 ELSE 0
    /\ method[p] = "crypto" => credited[p] = IF In(p, "credited") THEN 1 ELSE 0
    /\ method[p] = "name" =>
          /\ ~(In(p, "arns_purchase_quote") /\ In(p, "arns_purchase_receipt"))
          /\ ~(In(p, "arns_purchase_quote") /\ In(p, "failed_arns_purchase"))
          /\ ~(In(p, "arns_purchase_receipt") /\ In(p, "failed_arns_purchase"))
          /\ credited[p] \in {0, 1} /\ (~In(p, "failed_arns_purchase") => credited[p] = 0)
    /\ method[p] = "name on credit" =>
          credited[p] = IF In(p, "arns_purchase_receipt") THEN -1 ELSE 0
    /\ method[p] \in {"x402", "nothing"} => credited[p] = 0

SetAside(p) == In(p, "unredeemed_gift") \/ In(p, "redeemed_gift")
Accounts ==
    /\ \A p \in Payments : Books(p)
    /\ \A h \in Handlers : run[h] # None /\ run[h].step = "redeem" => SetAside(run[h].p)

LEMMA BooksOfOne ==
    ASSUME Accounts, UNCHANGED method, NEW p \in Payments, Books(p)',
           \A q \in Payments \ {p} : rows'[q] = rows[q] /\ credited'[q] = credited[q],
           SetAside(p) => SetAside(p)',
           \A h \in Handlers : run'[h] # None /\ run'[h].step = "redeem" =>
               run'[h] = run[h] \/ SetAside(run[h].p)',
           \A h \in Handlers : run[h] # None => run[h].p \in Payments
    PROVE  Accounts'
<1>1. ASSUME NEW q \in Payments PROVE Books(q)'
  <2>1. CASE q = p
    BY <2>1
  <2>2. CASE q # p
    BY <2>2 DEF Accounts, Books, In
  <2> QED BY <2>1, <2>2
<1>2. ASSUME NEW h \in Handlers, run'[h] # None, run'[h].step = "redeem"
      PROVE  SetAside(run[h].p)'
  <2>1. CASE run'[h] = run[h]
    <3>1. run[h].p \in Payments /\ SetAside(run[h].p)
      BY <1>2, <2>1 DEF Accounts
    <3>2. CASE run[h].p = p
      BY <2>1, <3>1, <3>2 DEF SetAside, In
    <3>3. CASE run[h].p # p
      BY <2>1, <3>1, <3>3 DEF SetAside, In
    <3> QED BY <3>2, <3>3
  <2>2. CASE run'[h] # run[h]
    BY <1>2, <2>2
  <2> QED BY <2>1, <2>2
<1> QED BY <1>1, <1>2 DEF Accounts

LEMMA SameBooks ==
    ASSUME Typed, Accounts, UNCHANGED <<method, rows, credited>>,
           \A h \in Handlers : run'[h] # None /\ run'[h].step = "redeem" =>
               run'[h] = run[h] \/ SetAside(run'[h].p)
    PROVE  Accounts'
<1>1. \A q \in Payments : Books(q)'
  BY DEF Accounts, Books, In
<1>2. ASSUME NEW h \in Handlers, run'[h] # None, run'[h].step = "redeem"
      PROVE  SetAside(run[h].p)'
  BY <1>2 DEF Accounts, SetAside, In
<1> QED BY <1>1, <1>2 DEF Accounts

\* A handler that goes on does not come to redeem a gift.
LEMMA GoesOn ==
    ASSUME Typed, NEW h \in Handlers, run[h] # None, UNCHANGED method,
           \/ End(h) \/ \E s \in Steps : Then(h, s) /\ s # "redeem"
           \/ method[run[h].p] = "x402" /\ \E q \in Payments : Finalizes(h, q)
    PROVE  \A g \in Handlers : run'[g] # None /\ run'[g].step = "redeem" => run'[g] = run[g]
<1>1. CASE End(h)
  BY <1>1, EndRuns DEF Typed
<1>2. ASSUME NEW s \in Steps, Then(h, s), s # "redeem"
      PROVE  \A g \in Handlers : run'[g] # None /\ run'[g].step = "redeem" => run'[g] = run[g]
  <2>1. run[h] \in Plain \cup Carried
    BY DEF Typed, Runs
  <2>2. run' = [run EXCEPT ![h] = [run[h] EXCEPT !.step = s]]
    BY <1>2 DEF Then
  <2>3. [run[h] EXCEPT !.step = s].step = s
    BY <2>1 DEF Plain, Carried
  <2> QED BY <1>2, <2>2, <2>3 DEF Typed, Runs
<1>3. CASE method[run[h].p] = "x402" /\ \E q \in Payments : Finalizes(h, q)
  <2>1. PICK q \in Payments : Finalizes(h, q)
    BY <1>3
  <2>2. run'[h].step \in Statuses /\ \A g \in Handlers \ {h} : run'[g] = run[g]
    BY <1>3, <2>1, FinalizesRuns
  <2> QED BY <2>2 DEF Statuses
<1> QED BY <1>1, <1>2, <1>3

\* The handler that begins redeems a gift only if there is one.
LEMMA Begins ==
    ASSUME Typed, NEW h \in Handlers, NEW p \in Payments, NEW s, Begin(h, p, s),
           s = "redeem" => SetAside(p)
    PROVE  \A g \in Handlers : run'[g] # None /\ run'[g].step = "redeem" =>
               run'[g] = run[g] \/ SetAside(run'[g].p)
<1>1. run'[h] = [p |-> p, step |-> s] /\ \A g \in Handlers \ {h} : run'[g] = run[g]
  BY DEF Begin, Typed, Runs
<1> QED BY <1>1

LEMMA OutsideBooks ==
    ASSUME Typed, Accounts, NEW p \in Payments,
           topUp(p) \/ Pay(p) \/ Age(p) \/ handleDisputeCreatedEvent(p)
    PROVE  Accounts'
<1>1. UNCHANGED <<method, run>> /\ \A h \in Handlers : run[h] # None => run[h].p \in Payments
  BY AtPayment DEF topUp, Pay, Age, handleDisputeCreatedEvent
<1>2. CASE UNCHANGED <<rows, credited>>
  BY <1>1, <1>2, SameBooks
<1>3. CASE topUp(p)
  <2>1. Books(p)
    BY DEF Accounts
  <2>2. /\ method[p] \in {"card", "gift"} /\ rows[p] = {} /\ credited' = credited
        /\ rows' = [rows EXCEPT ![p] = {"top_up_quote"}]
    BY <1>3 DEF topUp, Card, Move
  <2>3. Books(p)' /\ ~SetAside(p)
    BY <1>1, <2>1, <2>2 DEF Books, In, SetAside, Typed
  <2>4. \A q \in Payments \ {p} : rows'[q] = rows[q] /\ credited'[q] = credited[q]
    BY <2>2 DEF Typed
  <2> QED BY <1>1, <2>3, <2>4, BooksOfOne
<1>4. CASE handleDisputeCreatedEvent(p) /\ "payment_receipt" \in rows[p]
  <2>1. Books(p)
    BY DEF Accounts
  <2>2. /\ method[p] \in {"card", "gift"}
        /\ rows' = [rows EXCEPT ![p] = (rows[p] \ {"payment_receipt"}) \cup {"chargeback_receipt"}]
        /\ credited' = [credited EXCEPT ![p] = @ + IF method[p] = "gift" THEN 0 ELSE -1]
    BY <1>4 DEF handleDisputeCreatedEvent, Card, Move, Credit
  <2>3. /\ rows'[p] = (rows[p] \ {"payment_receipt"}) \cup {"chargeback_receipt"}
        /\ credited'[p] = credited[p] + IF method[p] = "gift" THEN 0 ELSE -1
        /\ \A q \in Payments \ {p} : rows'[q] = rows[q] /\ credited'[q] = credited[q]
    BY <2>2 DEF Typed
  <2>4. Books(p)' /\ (SetAside(p) => SetAside(p)')
    <3>1. SetAside(p) => SetAside(p)'
      BY <2>3 DEF SetAside, In
    <3>2. CASE method[p] = "card"
      BY <1>1, <1>4, <2>1, <2>3, <3>1, <3>2 DEF Books, In
    <3>3. CASE method[p] = "gift"
      BY <1>1, <1>4, <2>1, <2>3, <3>1, <3>3 DEF Books, In
    <3> QED BY <2>2, <3>2, <3>3
  <2> QED BY <1>1, <2>3, <2>4, BooksOfOne
<1> QED BY <1>2, <1>3, <1>4 DEF topUp, Pay, Age, handleDisputeCreatedEvent

LEMMA BeginBooks ==
    ASSUME Typed, Accounts, NEW h \in Handlers, NEW p \in Payments,
           \/ handlePaymentSuccessEvent(h, p) \/ redeemGift(h, p) \/ addPendingPaymentTx(h, p)
           \/ Job(h, p)
    PROVE  Accounts'
<1>1. UNCHANGED <<method, looks, rows, credited>>
  BY DEF handlePaymentSuccessEvent, redeemGift, addPendingPaymentTx, Job,
         creditPendingTransactionsHandler
<1>2. \/ Begin(h, p, "create") \/ Begin(h, p, "quote") \/ Begin(h, p, "status")
      \/ Begin(h, p, "job credit") \/ Begin(h, p, "job fail")
      \/ Begin(h, p, "redeem") /\ SetAside(p)
  BY DEF handlePaymentSuccessEvent, redeemGift, addPendingPaymentTx, Job, SetAside, In,
         creditPendingTransactionsHandler
<1>3. \A g \in Handlers : run'[g] # None /\ run'[g].step = "redeem" =>
          run'[g] = run[g] \/ SetAside(run'[g].p)
  BY <1>2, Begins
<1> QED BY <1>1, <1>3, SameBooks

\* What a handler does to the books of its own payment.
LEMMA HandlerBooks ==
    ASSUME Typed, Accounts, NEW h \in Handlers, run[h] # None, UNCHANGED method,
           NEW p \in Payments,
           \/ End(h) \/ \E s \in Steps : Then(h, s) /\ s # "redeem"
           \/ method[run[h].p] = "x402" /\ \E q \in Payments : Finalizes(h, q),
           \A q \in Payments \ {p} : rows'[q] = rows[q] /\ credited'[q] = credited[q],
           Books(p)', SetAside(p) => SetAside(p)'
    PROVE  Accounts'
<1>1. \A g \in Handlers : run[g] # None => run[g].p \in Payments
  BY AtPayment
<1>2. \A g \in Handlers : run'[g] # None /\ run'[g].step = "redeem" => run'[g] = run[g]
  BY GoesOn
<1> QED BY <1>1, <1>2, BooksOfOne

LEMMA StepBooks ==
    ASSUME Typed, Accounts, NEW h \in Handlers, Step(h)
    PROVE  Accounts'
<1> USE DEF Step, createPaymentReceipt, checkForExistingPaymentByTopUpQuoteId, refundPayment,
            RedeemCommit, getTransactionStatus, createPendingTransaction,
            createNewCreditedTransaction, creditPendingTransaction, failPendingTransaction
<1>0. run[h] # None
  BY DEF At
<1>1. UNCHANGED method
  OBVIOUS
<1>2. End(h) \/ \E s \in Steps : Then(h, s) /\ s # "redeem"
  <2>1. End(h) \/ \E s \in {"check", "refund", "credit", "pend"} : Then(h, s)
    OBVIOUS
  <2> QED BY <2>1 DEF Steps
<1>3. PICK p \in Payments : p = run[h].p /\ Fit(method[p], run[h].step)
  BY <1>0, AtPayment
<1>4. Books(p)
  BY DEF Accounts
<1> HIDE DEF Step, createPaymentReceipt, checkForExistingPaymentByTopUpQuoteId, refundPayment,
             RedeemCommit, getTransactionStatus, createPendingTransaction,
             createNewCreditedTransaction, creditPendingTransaction, failPendingTransaction
<1>5. CASE UNCHANGED <<rows, credited>>
  <2>1. \A g \in Handlers : run'[g] # None /\ run'[g].step = "redeem" => run'[g] = run[g]
    BY <1>0, <1>1, <1>2, GoesOn
  <2> QED BY <1>1, <1>5, <2>1, SameBooks
<1>6. CASE createPaymentReceipt(h) /\ ~UNCHANGED <<rows, credited>>
  <2>1. /\ method[p] \in {"card", "gift"} /\ "top_up_quote" \in rows[p]
        /\ Move(p, {"top_up_quote"}, {"payment_receipt"} \cup
                   (IF method[p] = "gift" THEN {"unredeemed_gift"} ELSE {}))
        /\ Credit(p, IF method[p] = "gift" THEN 0 ELSE 1)
    BY <1>3, <1>6 DEF createPaymentReceipt, At, Fit
  <2>2. /\ rows'[p] = (rows[p] \ {"top_up_quote"}) \cup ({"payment_receipt"} \cup
                          (IF method[p] = "gift" THEN {"unredeemed_gift"} ELSE {}))
        /\ credited'[p] = credited[p] + IF method[p] = "gift" THEN 0 ELSE 1
        /\ \A q \in Payments \ {p} : rows'[q] = rows[q] /\ credited'[q] = credited[q]
    BY <2>1 DEF Typed, Move, Credit
  <2>3. Books(p)'
    <3>1. CASE method[p] = "card"
      BY <1>1, <1>4, <2>1, <2>2, <3>1 DEF Books, In
    <3>2. CASE method[p] = "gift"
      BY <1>1, <1>4, <2>1, <2>2, <3>2 DEF Books, In
    <3> QED BY <2>1, <3>1, <3>2
  <2>4. SetAside(p) => SetAside(p)'
    BY <2>2 DEF SetAside, In
  <2> QED BY <1>0, <1>1, <1>2, <2>2, <2>3, <2>4, HandlerBooks
<1>7. CASE RedeemCommit(h) /\ "redeemed_gift" \notin rows[p]
  <2>1. method[p] = "gift" /\ SetAside(p)
    BY <1>3, <1>7 DEF RedeemCommit, At, Fit, Accounts
  <2>2. /\ rows' = [rows EXCEPT ![p] = (@ \ {"unredeemed_gift"}) \cup {"redeemed_gift"}]
        /\ credited' = [credited EXCEPT ![p] = @ + 1]
    BY <1>3, <1>7, <2>1 DEF RedeemCommit, Move, Credit
  <2>3. /\ rows'[p] = (rows[p] \ {"unredeemed_gift"}) \cup {"redeemed_gift"}
        /\ credited'[p] = credited[p] + 1
        /\ \A q \in Payments \ {p} : rows'[q] = rows[q] /\ credited'[q] = credited[q]
    BY <2>2 DEF Typed
  <2>4. Books(p)'
    BY <1>1, <1>4, <1>7, <2>1, <2>3 DEF Books, In, SetAside
  <2>5. SetAside(p) => SetAside(p)'
    BY <2>3 DEF SetAside, In
  <2> QED BY <1>0, <1>1, <1>2, <2>3, <2>4, <2>5, HandlerBooks
<1>8. CASE createPendingTransaction(h)
  <2>1. method[p] = "crypto"
    BY <1>3, <1>8 DEF createPendingTransaction, At, Fit
  <2>2. /\ rows' = [rows EXCEPT ![p] = (@ \ {}) \cup {"pending"}]
        /\ credited' = credited
    BY <1>3, <1>8, <2>1 DEF createPendingTransaction, Move, Credit
  <2>3. /\ rows'[p] = (rows[p] \ {}) \cup {"pending"}
        /\ credited'[p] = credited[p]
        /\ \A q \in Payments \ {p} : rows'[q] = rows[q] /\ credited'[q] = credited[q]
    BY <2>2 DEF Typed
  <2>4. Books(p)'
    BY <1>1, <1>4, <1>8, <2>1, <2>3 DEF Books, In
  <2>5. SetAside(p) => SetAside(p)'
    BY <2>3 DEF SetAside, In
  <2> QED BY <1>0, <1>1, <1>2, <2>3, <2>4, <2>5, HandlerBooks
<1>9. CASE createNewCreditedTransaction(h) /\ "credited" \notin rows[p]
  <2>1. method[p] = "crypto"
    BY <1>3, <1>9 DEF createNewCreditedTransaction, At, Fit
  <2>2. /\ rows' = [rows EXCEPT ![p] = (@ \ {}) \cup {"credited"}]
        /\ credited' = [credited EXCEPT ![p] = @ + 1]
    BY <1>3, <1>9, <2>1 DEF createNewCreditedTransaction, Move, Credit
  <2>3. /\ rows'[p] = (rows[p] \ {}) \cup {"credited"}
        /\ credited'[p] = credited[p] + 1
        /\ \A q \in Payments \ {p} : rows'[q] = rows[q] /\ credited'[q] = credited[q]
    BY <2>2 DEF Typed
  <2>4. Books(p)'
    BY <1>1, <1>4, <1>9, <2>1, <2>3 DEF Books, In
  <2>5. SetAside(p) => SetAside(p)'
    BY <2>3 DEF SetAside, In
  <2> QED BY <1>0, <1>1, <1>2, <2>3, <2>4, <2>5, HandlerBooks
<1>10. CASE creditPendingTransaction(h) /\ "pending" \in rows[p] /\ "credited" \notin rows[p]
  <2>1. method[p] = "crypto"
    BY <1>3, <1>10 DEF creditPendingTransaction, At, Fit
  <2>2. /\ rows' = [rows EXCEPT ![p] = (@ \ {"pending"}) \cup {"credited"}]
        /\ credited' = [credited EXCEPT ![p] = @ + 1]
    BY <1>3, <1>10, <2>1 DEF creditPendingTransaction, Move, Credit
  <2>3. /\ rows'[p] = (rows[p] \ {"pending"}) \cup {"credited"}
        /\ credited'[p] = credited[p] + 1
        /\ \A q \in Payments \ {p} : rows'[q] = rows[q] /\ credited'[q] = credited[q]
    BY <2>2 DEF Typed
  <2>4. Books(p)'
    BY <1>1, <1>4, <1>10, <2>1, <2>3 DEF Books, In
  <2>5. SetAside(p) => SetAside(p)'
    BY <2>3 DEF SetAside, In
  <2> QED BY <1>0, <1>1, <1>2, <2>3, <2>4, <2>5, HandlerBooks
<1>11. CASE failPendingTransaction(h) /\ "pending" \in rows[p]
  <2>1. method[p] = "crypto"
    BY <1>3, <1>11 DEF failPendingTransaction, At, Fit
  <2>2. /\ rows' = [rows EXCEPT ![p] = (@ \ {"pending"}) \cup {"failed"}]
        /\ credited' = credited
    BY <1>3, <1>11, <2>1 DEF failPendingTransaction, Move, Credit
  <2>3. /\ rows'[p] = (rows[p] \ {"pending"}) \cup {"failed"}
        /\ credited'[p] = credited[p]
        /\ \A q \in Payments \ {p} : rows'[q] = rows[q] /\ credited'[q] = credited[q]
    BY <2>2 DEF Typed
  <2>4. Books(p)'
    BY <1>1, <1>4, <1>11, <2>1, <2>3 DEF Books, In
  <2>5. SetAside(p) => SetAside(p)'
    BY <2>3 DEF SetAside, In
  <2> QED BY <1>0, <1>1, <1>2, <2>3, <2>4, <2>5, HandlerBooks
<1>12. \/ UNCHANGED <<rows, credited>>
       \/ createPaymentReceipt(h) /\ ~UNCHANGED <<rows, credited>>
       \/ RedeemCommit(h) /\ "redeemed_gift" \notin rows[p]
       \/ createPendingTransaction(h)
       \/ createNewCreditedTransaction(h) /\ "credited" \notin rows[p]
       \/ creditPendingTransaction(h) /\ "pending" \in rows[p] /\ "credited" \notin rows[p]
       \/ failPendingTransaction(h) /\ "pending" \in rows[p]
  BY <1>3 DEF Step, checkForExistingPaymentByTopUpQuoteId, refundPayment,
         RedeemCommit, getTransactionStatus,
         createNewCreditedTransaction, creditPendingTransaction, failPendingTransaction
<1> QED BY <1>5, <1>6, <1>7, <1>8, <1>9, <1>10, <1>11, <1>12

LEMMA FailedBooks ==
    ASSUME Typed, Accounts, UNCHANGED method, NEW p \in Payments,
           updateFailedArNSPurchase(p) \/ UNCHANGED <<rows, credited>>
    PROVE  /\ \A q \in Payments \ {p} : rows'[q] = rows[q] /\ credited'[q] = credited[q]
           /\ Books(p)' /\ (SetAside(p) => SetAside(p)')
<1>1. Books(p)
  BY DEF Accounts
<1>2. CASE UNCHANGED <<rows, credited>>
  BY <1>1, <1>2 DEF Books, In, SetAside
<1>3. CASE ~UNCHANGED <<rows, credited>>
  <2>1. /\ "arns_purchase_receipt" \in rows[p]
        /\ Move(p, {"arns_purchase_receipt"}, {"failed_arns_purchase"}) /\ Credit(p, 1)
    BY <1>3 DEF updateFailedArNSPurchase, Undecided, Receipt
  <2>2. /\ rows'[p] = (rows[p] \ {"arns_purchase_receipt"}) \cup {"failed_arns_purchase"}
        /\ credited'[p] = credited[p] + 1
        /\ \A q \in Payments \ {p} : rows'[q] = rows[q] /\ credited'[q] = credited[q]
    BY <2>1 DEF Typed, Move, Credit
  <2>3. method[p] \in {"name", "name on credit"}
    <3>1. Proper(method[p], "arns_purchase_receipt")
      BY <2>1 DEF Typed
    <3> QED BY <3>1 DEF Proper
  <2>4. Books(p)'
    <3>1. CASE method[p] = "name"
      BY <1>1, <2>1, <2>2, <3>1 DEF Books, In
    <3>2. CASE method[p] = "name on credit"
      <4>1. credited[p] = -1
        BY <1>1, <2>1, <3>2 DEF Books, In
      <4>2. credited'[p] = 0 /\ "arns_purchase_receipt" \notin rows'[p]
        BY <2>2, <4>1
      <4> QED BY <3>2, <4>2 DEF Books, In
    <3> QED BY <2>3, <3>1, <3>2
  <2>5. SetAside(p) => SetAside(p)'
    BY <2>2 DEF SetAside, In
  <2> QED BY <2>2, <2>4, <2>5
<1> QED BY <1>2, <1>3

LEMMA NameStepBooks ==
    ASSUME Typed, Accounts, NEW h \in Handlers, NameStep(h)
    PROVE  Accounts'
<1> USE DEF NameStep, persistSpawnedAntId, confirmArNSWriteLanded, MarkBought, Write,
            StoreMessageId, durableRefundArNSPurchase, getArNSPurchaseQuote,
            updateArNSPurchaseQuoteToSuccess, updateArNSPurchaseQuoteToFailure,
            getArNSPurchaseStatus
<1>0. run[h] # None
  BY DEF At
<1>1. UNCHANGED method
  OBVIOUS
<1>2. End(h) \/ \E s \in Steps : Then(h, s) /\ s # "redeem"
  <2>1. End(h) \/ \E s \in {"write", "threw", "landed", "not bought", "store", "bought",
                            "bought by card", "not bought by card", "write by card",
                            "check status", "waits", "refund"} : Then(h, s)
    OBVIOUS
  <2> QED BY <2>1 DEF Steps
<1>3. PICK p \in Payments : p = run[h].p /\ Fit(method[p], run[h].step)
  BY <1>0, AtPayment
<1>4. Books(p)
  BY DEF Accounts
<1>5. \/ UNCHANGED <<rows, credited>>
      \/ durableRefundArNSPurchase(h)
      \/ updateArNSPurchaseQuoteToSuccess(h) /\ ~UNCHANGED <<rows, credited>>
      \/ updateArNSPurchaseQuoteToFailure(h) /\ ~UNCHANGED <<rows, credited>>
  BY DEF names
<1> HIDE DEF NameStep, persistSpawnedAntId, confirmArNSWriteLanded, MarkBought, Write,
             StoreMessageId, durableRefundArNSPurchase, getArNSPurchaseQuote,
             updateArNSPurchaseQuoteToSuccess, updateArNSPurchaseQuoteToFailure,
             getArNSPurchaseStatus
<1>6. CASE UNCHANGED <<rows, credited>>
  <2>1. \A g \in Handlers : run'[g] # None /\ run'[g].step = "redeem" => run'[g] = run[g]
    BY <1>0, <1>1, <1>2, GoesOn
  <2> QED BY <1>1, <1>6, <2>1, SameBooks
<1>7. CASE durableRefundArNSPurchase(h)
  <2>1. updateFailedArNSPurchase(p) \/ UNCHANGED <<rows, credited>>
    BY <1>3, <1>7 DEF durableRefundArNSPurchase
  <2>2. /\ \A q \in Payments \ {p} : rows'[q] = rows[q] /\ credited'[q] = credited[q]
        /\ Books(p)' /\ (SetAside(p) => SetAside(p)')
    BY <1>1, <2>1, FailedBooks
  <2> QED BY <1>0, <1>1, <1>2, <2>2, HandlerBooks
<1>8. CASE updateArNSPurchaseQuoteToSuccess(h) /\ ~UNCHANGED <<rows, credited>>
  <2>1. /\ method[p] = "name" /\ "arns_purchase_quote" \in rows[p] /\ credited' = credited
        /\ Move(p, {"arns_purchase_quote"}, {"arns_purchase_receipt"})
    BY <1>3, <1>8 DEF updateArNSPurchaseQuoteToSuccess, At, Fit
  <2>2. /\ rows'[p] = (rows[p] \ {"arns_purchase_quote"}) \cup {"arns_purchase_receipt"}
        /\ credited'[p] = credited[p]
        /\ \A q \in Payments \ {p} : rows'[q] = rows[q] /\ credited'[q] = credited[q]
    BY <2>1 DEF Typed, Move
  <2>3. Books(p)' /\ (SetAside(p) => SetAside(p)')
    BY <1>1, <1>4, <2>1, <2>2 DEF Books, In, SetAside
  <2> QED BY <1>0, <1>1, <1>2, <2>2, <2>3, HandlerBooks
<1>9. CASE updateArNSPurchaseQuoteToFailure(h) /\ ~UNCHANGED <<rows, credited>>
  <2>1. /\ method[p] = "name" /\ "arns_purchase_quote" \in rows[p] /\ credited' = credited
        /\ Move(p, {"arns_purchase_quote"}, {"failed_arns_purchase"})
    BY <1>3, <1>9 DEF updateArNSPurchaseQuoteToFailure, At, Fit
  <2>2. /\ rows'[p] = (rows[p] \ {"arns_purchase_quote"}) \cup {"failed_arns_purchase"}
        /\ credited'[p] = credited[p]
        /\ \A q \in Payments \ {p} : rows'[q] = rows[q] /\ credited'[q] = credited[q]
    BY <2>1 DEF Typed, Move
  <2>3. Books(p)' /\ (SetAside(p) => SetAside(p)')
    BY <1>1, <1>4, <2>1, <2>2 DEF Books, In, SetAside
  <2> QED BY <1>0, <1>1, <1>2, <2>2, <2>3, HandlerBooks
<1> QED BY <1>5, <1>6, <1>7, <1>8, <1>9

LEMMA WorkerBooks ==
    ASSUME Typed, Accounts, NEW p \in Payments, createArNSPurchaseQuote(p) \/ Worker(p)
    PROVE  Accounts'
<1>1. UNCHANGED <<method, run>> /\ \A h \in Handlers : run[h] # None => run[h].p \in Payments
  BY AtPayment DEF createArNSPurchaseQuote, Worker, reconcileStaleArNSPurchases,
                   arnsRefundWorker, vars
<1>2. Books(p)
  BY DEF Accounts
<1>3. /\ \A q \in Payments \ {p} : rows'[q] = rows[q] /\ credited'[q] = credited[q]
      /\ Books(p)' /\ (SetAside(p) => SetAside(p)')
  <2>1. CASE createArNSPurchaseQuote(p)
    <3>1. /\ method[p] = "name" /\ rows[p] = {} /\ credited' = credited
          /\ rows'[p] = {"arns_purchase_quote"} /\ \A q \in Payments \ {p} : rows'[q] = rows[q]
      BY <2>1 DEF createArNSPurchaseQuote, Move, Typed
    <3> QED BY <1>1, <1>2, <3>1 DEF Books, In, SetAside
  <2>2. CASE Worker(p)
    <3>1. updateFailedArNSPurchase(p) \/ UNCHANGED <<rows, credited>>
      BY <2>2 DEF Worker, reconcileStaleArNSPurchases, arnsRefundWorker, vars
    <3> QED BY <1>1, <3>1, FailedBooks
  <2> QED BY <2>1, <2>2
<1> QED BY <1>1, <1>3, BooksOfOne

LEMMA CreditPurchaseBooks ==
    ASSUME Typed, Accounts, NEW h \in Handlers, NEW p \in Payments,
           createArNSPurchaseReceipt(h, p)
    PROVE  Accounts'
<1>1. /\ method[p] = "name on credit" /\ rows[p] = {} /\ Begin(h, p, "spawn")
      /\ Move(p, {}, {"arns_purchase_receipt"}) /\ Credit(p, -1) /\ UNCHANGED method
  BY DEF createArNSPurchaseReceipt, OnCredit
<1>2. /\ rows'[p] = {"arns_purchase_receipt"} /\ credited'[p] = credited[p] + (-1)
      /\ \A q \in Payments \ {p} : rows'[q] = rows[q] /\ credited'[q] = credited[q]
  BY <1>1 DEF Typed, Move, Credit
<1>3. Books(p)
  BY DEF Accounts
<1>4. Books(p)' /\ (SetAside(p) => SetAside(p)')
  <2>1. credited[p] = 0
    BY <1>1, <1>3 DEF Books, In
  <2>2. credited'[p] = -1
    BY <1>2, <2>1
  <2> QED BY <1>1, <1>2, <2>2 DEF Books, In, SetAside
<1>5. run'[h] = [p |-> p, step |-> "spawn"] /\ \A g \in Handlers \ {h} : run'[g] = run[g]
  BY <1>1 DEF Begin, Typed, Runs
<1>6. \A g \in Handlers : run'[g] # None /\ run'[g].step = "redeem" => run'[g] = run[g]
  BY <1>5
<1>7. \A g \in Handlers : run[g] # None => run[g].p \in Payments
  BY AtPayment
<1> QED BY <1>1, <1>2, <1>4, <1>6, <1>7, BooksOfOne

LEMMA CrashBooks ==
    ASSUME Typed, Accounts, NEW h \in Handlers, Crash(h) \/ Die(h)
    PROVE  Accounts'
<1>1. run[h] # None /\ End(h) /\ UNCHANGED <<method, looks, rows, credited>>
  BY DEF Crash, Die, Unchanged
<1>2. \A g \in Handlers : run'[g] # None /\ run'[g].step = "redeem" => run'[g] = run[g]
  BY <1>1, GoesOn
<1> QED BY <1>1, <1>2, SameBooks

LEMMA X402StepBooks ==
    ASSUME Typed, Accounts, NEW h \in Handlers, X402Step(h)
    PROVE  Accounts'
<1> USE DEF X402Step, verifyPayment, rawVerifyPayment, settlePayment, rawSettlePayment,
            Verify, Settle, createX402Payment, createX402PaymentReservation,
            adjustUserWinstonBalance, verifyAndSettleX402Payment, x402FinalizeRoute,
            finalizeX402Payment, acceptSignedItem, insertX402Payment, storeRawDataItem
<1>0. run[h] # None /\ method[run[h].p] = "x402" /\ run[h].p \in Payments
  BY X402StepTyped, AtPayment
<1>1. UNCHANGED <<method, credited>>
  BY DEF Unchanged
<1>2. \/ End(h) \/ \E s \in Steps : Then(h, s) /\ s # "redeem"
      \/ method[run[h].p] = "x402" /\ \E q \in Payments : Finalizes(h, q)
  <2>1. \/ End(h) \/ \E q \in Payments : Finalizes(h, q)
        \/ \E s \in {"verify", "settle", "record", "reserve", "top up", "receive", "finalize",
                     "accept", "store raw"} : Then(h, s)
    BY DEF Fails
  <2> QED BY <1>0, <2>1 DEF Steps
<1>3. PICK p \in Payments : p = run[h].p
  BY <1>0
<1>4. \/ rows' = rows
      \/ Move(p, {}, {"x402_payment_transaction"}) \/ Move(p, {}, {"x402_payments"})
  BY <1>3
<1> HIDE DEF X402Step, verifyPayment, rawVerifyPayment, settlePayment, rawSettlePayment,
             Verify, Settle, createX402Payment, createX402PaymentReservation,
             adjustUserWinstonBalance, verifyAndSettleX402Payment, x402FinalizeRoute,
             finalizeX402Payment, acceptSignedItem, insertX402Payment, storeRawDataItem
<1>5. \A q \in Payments \ {p} : rows'[q] = rows[q] /\ credited'[q] = credited[q]
  BY <1>1, <1>4 DEF Move, Typed
<1>6. Books(p)'
  BY <1>0, <1>1, <1>3 DEF Accounts, Books
<1>7. SetAside(p) => SetAside(p)'
  BY <1>4 DEF Move, Typed, SetAside, In
<1> QED BY <1>0, <1>1, <1>2, <1>5, <1>6, <1>7, HandlerBooks

LEMMA AsksBooks ==
    ASSUME Typed, Accounts, NEW h \in Handlers, NEW p \in Payments,
           \/ rawDataUploadRoute(h, p) \/ x402TopUpRoute(h, p)
           \/ \E x \in Goods : postSignedItem(h, p, x) \/ x402PaymentRoute(h, p, x)
    PROVE  Accounts'
<1>1. PICK kind, x : Ask(h, p, kind, x) /\ UNCHANGED rows /\ Unchanged
  BY DEF rawDataUploadRoute, x402TopUpRoute, postSignedItem, x402PaymentRoute
<1>2. UNCHANGED <<method, looks, rows, credited>>
  BY <1>1 DEF Unchanged
<1>3. run'[h].step = "verify" /\ \A g \in Handlers \ {h} : run'[g] = run[g]
  BY <1>1 DEF Ask, Typed, Runs
<1>4. \A g \in Handlers : run'[g] # None /\ run'[g].step = "redeem" => run'[g] = run[g]
  BY <1>3
<1> QED BY <1>2, <1>4, SameBooks

LEMMA NextBooks == ASSUME Typed, Accounts, [X402Next]_x402Vars PROVE Accounts'
<1>1. CASE UNCHANGED x402Vars
  BY <1>1, SameBooks DEF x402Vars, allVars, vars
<1>2. CASE NamesNext
  <2>1. CASE Next
    BY <2>1, OutsideBooks, BeginBooks, StepBooks DEF Next
  <2> QED BY <1>2, <2>1, NameStepBooks, CrashBooks, CreditPurchaseBooks, WorkerBooks DEF NamesNext
<1>3. ASSUME NEW x \in Goods, ExpireMark(x) PROVE Accounts'
  BY <1>3, SameBooks DEF ExpireMark, Unchanged
<1> QED BY <1>1, <1>2, <1>3, X402StepBooks, CrashBooks, AsksBooks DEF X402Next

LEMMA InitBooks == ASSUME X402Init PROVE Accounts
<1>1. Init
  BY DEF X402Init, NamesInit
<1>2. run = [h \in Handlers |-> None] /\ \A p \in Payments : rows[p] = {} /\ credited[p] = 0
  BY <1>1 DEF Init
<1> QED BY <1>2 DEF Accounts, Books, In

(***************************************************************************)
(* The theorems.                                                           *)
(***************************************************************************)
LEMMA AccountsAlways == X402Spec => [](Typed /\ Accounts)
<1>1. X402Init => Typed /\ Accounts
  BY InitTyped, InitBooks
<1>2. Typed /\ Accounts /\ [X402Next]_x402Vars => (Typed /\ Accounts)'
  BY NextTyped, NextBooks
<1> QED BY <1>1, <1>2, PTL DEF X402Spec

\* However many payments, handlers, requests and troubles there are, every variable has
\* its type, and the credits of a payment are added at most once.
THEOREM PaymentsTyped == X402Spec => []TypeOK
<1>1. Typed /\ Accounts => TypeOK
  <2> SUFFICES ASSUME Typed, Accounts PROVE TypeOK
    OBVIOUS
  <2>1. \A p \in Payments : credited[p] \in {-1, 0, 1}
    <3> SUFFICES ASSUME NEW p \in Payments PROVE credited[p] \in {-1, 0, 1}
      OBVIOUS
    <3>1. Books(p) /\ method[p] \in Methods
      BY DEF Accounts, Typed
    <3> QED BY <3>1 DEF Books, Methods
  <2>2. credited \in [Payments -> {-1, 0, 1}]
    BY <2>1 DEF Typed
  <2>3. \A h \in Handlers : run[h] # None => run[h].p \in Payments
    BY AtPayment
  <2> QED BY <2>2, <2>3 DEF Typed, TypeOK
<1> QED BY <1>1, AccountsAlways, PTL

\* However many webhook deliveries, requests and jobs overlap, and whatever fails, a
\* payment is in one stage, and its credits exist only with the row that accounts for
\* them: createPaymentReceipt, redeemGift and the two ways to credit a transaction.
THEOREM OneOutcomeAlways == X402Spec => []OneOutcome
<1>1. Typed /\ Accounts => OneOutcome
  <2> SUFFICES ASSUME Typed, Accounts, NEW p \in Credits
               PROVE  /\ Cardinality(rows[p] \cap {"top_up_quote", "payment_receipt",
                                                   "chargeback_receipt"}) <= 1
                      /\ ~({"unredeemed_gift", "redeemed_gift"} \subseteq rows[p])
                      /\ credited[p] = 1 =>
                            rows[p] \cap {"payment_receipt", "redeemed_gift", "credited"} # {}
    BY DEF OneOutcome
  <2>1. p \in Payments /\ method[p] \in {"card", "gift", "crypto"} /\ Books(p)
    BY DEF Credits, Card, Accounts
  <2> DEFINE stage == rows[p] \cap {"top_up_quote", "payment_receipt", "chargeback_receipt"}
  <2>2. stage = {} \/ \E t : stage = {t}
    <3>1. CASE method[p] = "crypto"
      <4>1. \A t \in rows[p] : Proper("crypto", t)
        BY <2>1, <3>1 DEF Typed
      <4>2. \A t \in rows[p] : t \in {"pending", "credited", "failed"}
        BY <4>1 DEF Proper
      <4> QED BY <4>2
    <3>2. CASE method[p] # "crypto"
      <4>1. /\ ~("top_up_quote" \in rows[p] /\ "payment_receipt" \in rows[p])
            /\ ~("top_up_quote" \in rows[p] /\ "chargeback_receipt" \in rows[p])
            /\ ~("payment_receipt" \in rows[p] /\ "chargeback_receipt" \in rows[p])
        BY <2>1, <3>2 DEF Books, In
      <4>2. CASE "top_up_quote" \in rows[p]
        <5>1. stage = {"top_up_quote"}
          BY <4>1, <4>2
        <5> QED BY <5>1
      <4>3. CASE "payment_receipt" \in rows[p]
        <5>1. stage = {"payment_receipt"}
          BY <4>1, <4>3
        <5> QED BY <5>1
      <4>4. CASE "chargeback_receipt" \in rows[p]
        <5>1. stage = {"chargeback_receipt"}
          BY <4>1, <4>4
        <5> QED BY <5>1
      <4> QED BY <4>2, <4>3, <4>4
    <3> QED BY <3>1, <3>2
  <2>3. Cardinality(stage) <= 1
    <3> HIDE DEF stage
    <3>1. CASE stage = {}
      BY <3>1, FS_EmptySet
    <3>2. CASE \E t : stage = {t}
      <4>1. PICK t : stage = {t}
        BY <3>2
      <4>2. Cardinality({t}) = 1
        BY FS_Singleton
      <4> QED BY <4>1, <4>2
    <3> QED BY <2>2, <3>1, <3>2
  <2>4. ~({"unredeemed_gift", "redeemed_gift"} \subseteq rows[p])
    <3>1. CASE method[p] = "gift"
      BY <2>1, <3>1 DEF Books, In
    <3>2. CASE method[p] # "gift"
      <4>1. \A t \in rows[p] : Proper(method[p], t)
        BY <2>1 DEF Typed
      <4> QED BY <2>1, <3>2, <4>1 DEF Proper
    <3> QED BY <3>1, <3>2
  <2>5. credited[p] = 1 =>
            rows[p] \cap {"payment_receipt", "redeemed_gift", "credited"} # {}
    <3>1. CASE method[p] = "card"
      BY <2>1, <3>1 DEF Books, In
    <3>2. CASE method[p] = "gift"
      BY <2>1, <3>2 DEF Books, In
    <3>3. CASE method[p] = "crypto"
      BY <2>1, <3>3 DEF Books, In
    <3> QED BY <2>1, <3>1, <3>2, <3>3
  <2> QED BY <2>3, <2>4, <2>5
<1> QED BY <1>1, AccountsAlways, PTL

(***************************************************************************)
(* Requests with an authorization.                                         *)
(***************************************************************************)
Asks(h) == run[h] # None /\ method[run[h].p] = "x402"
Of(h, p) == Asks(h) /\ run[h].p = p
Settled(h, p) == Of(h, p) /\ run[h].step \notin {"verify", "settle"}
Recorded(h, p) == Settled(h, p) /\ run[h].kind # "raw" /\ run[h].step # "record"
Signed(h) == Asks(h) /\ run[h].kind = "signed"
Finalizing(h) == Asks(h) /\ run[h].step \in Statuses

\* What a request asks for says which steps it takes.
Shape(r) ==
    /\ r.kind = "raw" => r.step \in {"verify", "settle", "record", "store raw"}
    /\ r.kind # "raw" => r.step # "store raw"
    /\ r.kind = "top-up" => r.good = None /\ r.step \in {"verify", "settle", "record", "top up"}
    /\ r.kind = "hybrid" => r.step \in {"verify", "settle", "record", "reserve", "top up"}
    /\ r.kind = "signed" => r.step # "top up"
    /\ r.kind \in {"hybrid", "signed"} => r.good \in Goods

(***************************************************************************)
(* The invariant.                                                          *)
(***************************************************************************)
Kept ==
    /\ txn \in [Payments -> Transactions \cup {None}]
    /\ held \in [Goods -> Payments \cup {None}]
    /\ inFlight \subseteq Goods /\ accepted \subseteq Goods /\ repeated \subseteq Payments
    /\ given \in [Payments -> Nat] /\ bought \in [Payments -> Nat]
    /\ requests \in 0..MaxRequests

\* An authorization that no facilitator answered for twice is at one request past its
\* settlement, which bought nothing yet.
Once(p) ==
    /\ money[p] \in {"unpaid", "paid"}
    /\ \A h \in Handlers : Settled(h, p) => money[p] = "paid"
    /\ p \notin repeated =>
          /\ bought[p] <= 1 /\ (money[p] = "unpaid" => bought[p] = 0)
          /\ \A h \in Handlers : Settled(h, p) =>
                bought[p] = 0 /\ \A g \in Handlers : Settled(g, p) => g = h

\* Nor is one that x402_payments does not hold, however often it was answered for, past
\* its record at two requests; its credits are given by what it was recorded for.
One(p) ==
    \A h \in Handlers : Recorded(h, p) =>
        /\ txn[p] # None /\ txn[p].kind = run[h].kind /\ txn[p].good = run[h].good
        /\ \A g \in Handlers : Recorded(g, p) => g = h
Buys(p) ==
    /\ \A h \in Handlers : Of(h, p) /\ run[h].step = "store raw" => "x402_payments" \in rows[p]
    /\ "x402_payments" \notin rows[p] =>
          /\ bought[p] <= 1 /\ (txn[p] = None => bought[p] = 0)
          /\ \A h \in Handlers : Recorded(h, p) => bought[p] = 0
Gives(p) ==
    /\ txn[p] # None => money[p] = "paid"
    /\ txn[p] = None => given[p] = 0
    /\ txn[p] # None /\ txn[p].kind = "top-up" =>
          /\ txn[p].good = None /\ given[p] <= Full
          /\ \A h \in Handlers : Recorded(h, p) => given[p] = 0
    /\ txn[p] # None /\ txn[p].kind = "signed" =>
          /\ given[p] <= Overpaid
          /\ txn[p].status = "pending_validation" => given[p] = 0
Row(p) == One(p) /\ Buys(p) /\ Gives(p)

Idle(p) == txn[p] = None /\ given[p] = 0 /\ bought[p] = 0

\* A signed item is in one request; one that finalizes found a payment nobody else does.
Alone ==
    /\ \A h \in Handlers : Asks(h) => Shape(run[h])
    /\ \A h \in Handlers : Signed(h) =>
          /\ run[h].good \in inFlight
          /\ \A g \in Handlers : Signed(g) /\ run[g].good = run[h].good => g = h
    /\ \A h \in Handlers : Finalizing(h) =>
          /\ run[h].kind = "signed" /\ txn[run[h].of] # None
          /\ txn[run[h].of].good = run[h].good
          /\ txn[run[h].of].status = "pending_validation"

\* A reservation is of a payment recorded for its good, an accepted item has one.
Backed ==
    \A x \in Goods :
        /\ held[x] # None => txn[held[x]] # None /\ txn[held[x]].good = x
        /\ x \in accepted => \E p \in Payments : txn[p] # None /\ txn[p].good = x

Paid(p) == IF method[p] = "x402" THEN Once(p) /\ Row(p) ELSE Idle(p)
Purchased == Kept /\ Alone /\ Backed /\ \A p \in Payments : Paid(p)

(***************************************************************************)
(* What the other payments leave alone.                                    *)
(***************************************************************************)
\* No request with an authorization begins or goes on, no row or money of one changes.
Apart ==
    /\ method' = method
    /\ \A p \in Payments : method[p] = "x402" => rows'[p] = rows[p] /\ money'[p] = money[p]
    /\ \A h \in Handlers : run'[h] # None /\ method[run'[h].p] = "x402" => run'[h] = run[h]

LEMMA RowsApart ==
    ASSUME Typed, NEW p \in Payments, NEW t \in rows[p],
           t \notin {"x402_payment_transaction", "x402_payments"}
    PROVE  method[p] # "x402"
<1>1. Proper(method[p], t)
  BY DEF Typed
<1> QED BY <1>1 DEF Proper

LEMMA HandlerApart ==
    ASSUME Typed, NEW h \in Handlers, run[h] # None, method[run[h].p] # "x402", method' = method,
           End(h) \/ \E s \in Steps : Then(h, s),
           \A q \in Payments \ {run[h].p} : rows'[q] = rows[q] /\ money'[q] = money[q]
    PROVE  Apart
<1>1. ASSUME NEW g \in Handlers, run'[g] # None, method[run'[g].p] = "x402"
      PROVE  run'[g] = run[g]
  <2>1. CASE End(h)
    BY <1>1, <2>1, EndRuns DEF Typed
  <2>2. ASSUME NEW s \in Steps, Then(h, s) PROVE run'[g] = run[g]
    <3>1. run[h] \in Plain \cup Carried
      BY DEF Typed, Runs
    <3>2. [run[h] EXCEPT !.step = s].p = run[h].p
      BY <3>1 DEF Plain, Carried
    <3>3. run' = [run EXCEPT ![h] = [run[h] EXCEPT !.step = s]]
      BY <2>2 DEF Then
    <3> QED BY <1>1, <3>2, <3>3 DEF Typed, Runs
  <2> QED BY <2>1, <2>2
<1> QED BY <1>1, AtPayment DEF Apart

LEMMA StepApart ==
    ASSUME Typed, NEW h \in Handlers, Step(h) PROVE Apart
<1> USE DEF Step, createPaymentReceipt, checkForExistingPaymentByTopUpQuoteId, refundPayment,
            RedeemCommit, getTransactionStatus, createPendingTransaction,
            createNewCreditedTransaction, creditPendingTransaction, failPendingTransaction
<1>1. run[h] # None /\ method' = method
  BY DEF At
<1>2. run[h].step \in {"create", "check", "refund", "redeem", "status", "pend", "credit",
                       "job credit", "job fail"}
  BY DEF At
<1>3. method[run[h].p] # "x402"
  BY <1>1, <1>2, AtPayment DEF Fit
<1>4. End(h) \/ \E s \in Steps : Then(h, s)
  <2>1. End(h) \/ \E s \in {"check", "refund", "credit", "pend"} : Then(h, s)
    OBVIOUS
  <2> QED BY <2>1 DEF Steps
<1>5. \A q \in Payments \ {run[h].p} : rows'[q] = rows[q]
  <2>1. rows' = rows \/ \E from, to : Move(run[h].p, from, to)
    OBVIOUS
  <2> QED BY <2>1 DEF Move, Typed
<1>6. \A q \in Payments \ {run[h].p} : money'[q] = money[q]
  BY DEF Typed
<1> QED BY <1>1, <1>3, <1>4, <1>5, <1>6, HandlerApart

LEMMA NameStepApart ==
    ASSUME Typed, NEW h \in Handlers, NameStep(h) PROVE Apart
<1> USE DEF NameStep, persistSpawnedAntId, confirmArNSWriteLanded, MarkBought, Write,
            StoreMessageId, durableRefundArNSPurchase, getArNSPurchaseQuote,
            updateArNSPurchaseQuoteToSuccess, updateArNSPurchaseQuoteToFailure,
            getArNSPurchaseStatus
<1>1. run[h] # None /\ method' = method /\ money' = money
  BY DEF At
<1>2. run[h].step \in {"spawn", "threw", "landed", "bought", "write", "write by card", "store",
                       "not bought", "quote", "bought by card", "not bought by card",
                       "check status"}
  BY DEF At
<1>3. method[run[h].p] # "x402"
  BY <1>1, <1>2, AtPayment DEF Fit
<1>4. End(h) \/ \E s \in Steps : Then(h, s)
  <2>1. End(h) \/ \E s \in {"write", "threw", "landed", "not bought", "store", "bought",
                            "bought by card", "not bought by card", "write by card",
                            "check status", "waits", "refund"} : Then(h, s)
    OBVIOUS
  <2> QED BY <2>1 DEF Steps
<1>5. \A q \in Payments \ {run[h].p} : rows'[q] = rows[q]
  <2>1. rows' = rows \/ \E from, to : Move(run[h].p, from, to)
    BY DEF updateFailedArNSPurchase, names
  <2> QED BY <2>1 DEF Move, Typed
<1> QED BY <1>1, <1>3, <1>4, <1>5, HandlerApart

LEMMA BeginApart ==
    ASSUME Typed, NEW h \in Handlers, NEW p \in Payments, NEW s, Begin(h, p, s),
           method[p] # "x402", method' = method, UNCHANGED money,
           \A q \in Payments \ {p} : rows'[q] = rows[q]
    PROVE  Apart
<1>1. run'[h] = [p |-> p, step |-> s] /\ \A g \in Handlers \ {h} : run'[g] = run[g]
  BY DEF Begin, Typed, Runs
<1> QED BY <1>1 DEF Apart

LEMMA BeginsApart ==
    ASSUME Typed, NEW h \in Handlers, NEW p \in Payments,
           \/ handlePaymentSuccessEvent(h, p) \/ redeemGift(h, p) \/ addPendingPaymentTx(h, p)
           \/ Job(h, p) \/ createArNSPurchaseReceipt(h, p)
    PROVE  Apart
<1>1. method[p] # "x402"
  BY RowsApart
     DEF handlePaymentSuccessEvent, redeemGift, addPendingPaymentTx, Job, Stripe, Card,
         creditPendingTransactionsHandler, createArNSPurchaseReceipt, OnCredit
<1>2. \E s : Begin(h, p, s)
  BY DEF handlePaymentSuccessEvent, redeemGift, addPendingPaymentTx, Job,
         creditPendingTransactionsHandler, createArNSPurchaseReceipt
<1>3. /\ method' = method /\ money' = money
      /\ rows' = rows \/ Move(p, {}, {"arns_purchase_receipt"})
  BY DEF handlePaymentSuccessEvent, redeemGift, addPendingPaymentTx, Job,
         creditPendingTransactionsHandler, createArNSPurchaseReceipt
<1>4. \A q \in Payments \ {p} : rows'[q] = rows[q]
  BY <1>3 DEF Move, Typed
<1> QED BY <1>1, <1>2, <1>3, <1>4, BeginApart

LEMMA OutsideApart ==
    ASSUME Typed, Purchased, NEW p \in Payments,
           \/ topUp(p) \/ Pay(p) \/ Age(p) \/ handleDisputeCreatedEvent(p)
           \/ createArNSPurchaseQuote(p) \/ Worker(p)
    PROVE  Apart
<1>1. run' = run /\ method' = method
  BY DEF topUp, Pay, Age, handleDisputeCreatedEvent, createArNSPurchaseQuote, Worker,
         reconcileStaleArNSPurchases, arnsRefundWorker, vars
<1>2. method[p] = "x402" => money[p] # "sent"
  BY DEF Purchased, Paid, Once
<1>3. \A q \in Payments : method[q] = "x402" => money'[q] = money[q]
  BY <1>2 DEF topUp, Pay, Age, handleDisputeCreatedEvent, createArNSPurchaseQuote, Worker,
         reconcileStaleArNSPurchases, arnsRefundWorker, vars, Stripe, Card, Typed
<1>4. \/ rows' = rows
      \/ method[p] # "x402" /\ \E from, to : Move(p, from, to)
  <2>1. CASE topUp(p) \/ Pay(p) \/ Age(p) \/ handleDisputeCreatedEvent(p)
             \/ createArNSPurchaseQuote(p)
    BY <2>1 DEF topUp, Pay, Age, handleDisputeCreatedEvent, createArNSPurchaseQuote, Card
  <2>2. CASE Worker(p) /\ rows' # rows
    <3>1. updateFailedArNSPurchase(p)
      BY <2>2 DEF Worker, reconcileStaleArNSPurchases, arnsRefundWorker, vars
    <3>2. "arns_purchase_receipt" \in rows[p]
      BY <2>2, <3>1 DEF updateFailedArNSPurchase, Undecided, Receipt
    <3> QED BY <2>2, <3>1, <3>2, RowsApart DEF updateFailedArNSPurchase
  <2> QED BY <2>1, <2>2
<1>5. \A q \in Payments : method[q] = "x402" => rows'[q] = rows[q]
  BY <1>4 DEF Move, Typed
<1> QED BY <1>1, <1>3, <1>5 DEF Apart

LEMMA CrashApart ==
    ASSUME Typed, NEW h \in Handlers, Crash(h) PROVE Apart
<1>1. run[h] # None /\ method[run[h].p] # "x402" /\ End(h) /\ UNCHANGED <<method, looks, rows, money>>
  BY DEF Crash, OnCredit
<1> QED BY <1>1, HandlerApart

LEMMA NamesApart == ASSUME Typed, Purchased, NamesNext PROVE Apart
BY OutsideApart, BeginsApart, StepApart, NameStepApart, CrashApart DEF NamesNext, Next

LEMMA ApartPurchased ==
    ASSUME Typed, Purchased, Apart, UNCHANGED x402 PROVE Purchased'
<1> USE DEF Apart, x402
<1>1. \A h \in Handlers : Asks(h)' => run'[h] = run[h] /\ Asks(h)
  BY DEF Asks
<1>2. Kept' /\ Backed'
  BY DEF Purchased, Kept, Backed
<1>3. Alone'
  BY <1>1 DEF Purchased, Alone, Signed, Finalizing
<1>4. ASSUME NEW p \in Payments PROVE Paid(p)'
  <2>1. CASE method[p] = "x402"
    <3>1. Once(p) /\ Row(p) /\ rows'[p] = rows[p] /\ money'[p] = money[p]
      BY <2>1 DEF Purchased, Paid
    <3>2. \A h \in Handlers : /\ Of(h, p)' => run'[h] = run[h] /\ Of(h, p)
                              /\ Settled(h, p)' => run'[h] = run[h] /\ Settled(h, p)
                              /\ Recorded(h, p)' => run'[h] = run[h] /\ Recorded(h, p)
      BY <1>1 DEF Of, Settled, Recorded
    <3>3. Once(p)'
      BY <3>1, <3>2 DEF Once
    <3>4. Row(p)'
      <4>1. One(p)'
        BY <3>1, <3>2 DEF Row, One
      <4>2. Buys(p)'
        BY <3>1, <3>2 DEF Row, Buys
      <4>3. Gives(p)'
        BY <3>1, <3>2 DEF Row, Gives
      <4> QED BY <4>1, <4>2, <4>3 DEF Row
    <3> QED BY <2>1, <3>3, <3>4 DEF Paid
  <2>2. CASE method[p] # "x402"
    BY <2>2 DEF Purchased, Paid, Idle
  <2> QED BY <2>1, <2>2
<1> QED BY <1>2, <1>3, <1>4 DEF Purchased

LEMMA InitPurchased == ASSUME X402Init PROVE Purchased
<1>1. Init
  BY DEF X402Init, NamesInit
<1>2. /\ run = [h \in Handlers |-> None] /\ money = [p \in Payments |-> "unpaid"]
  BY <1>1 DEF Init
<1>3. /\ txn = [p \in Payments |-> None] /\ held = [x \in Goods |-> None]
      /\ inFlight = {} /\ accepted = {} /\ repeated = {} /\ requests = 0
      /\ bought = [p \in Payments |-> 0] /\ given = [p \in Payments |-> 0]
  BY DEF X402Init
<1>4. Kept
  <2>1. requests \in 0..MaxRequests
    BY <1>3, X402Assumption DEF X402Assumption
  <2> QED BY <1>3, <2>1 DEF Kept
<1>5. \A h \in Handlers : ~Asks(h)
  BY <1>2 DEF Asks
<1>6. Alone
  BY <1>5 DEF Alone, Signed, Finalizing
<1>7. Backed
  BY <1>3 DEF Backed
<1>8. ASSUME NEW p \in Payments PROVE Once(p) /\ Row(p) /\ Idle(p)
  <2>1. /\ money[p] = "unpaid" /\ txn[p] = None /\ given[p] = 0 /\ bought[p] = 0
        /\ \A h \in Handlers : ~Of(h, p) /\ ~Settled(h, p) /\ ~Recorded(h, p)
    BY <1>2, <1>3, <1>5 DEF Of, Settled, Recorded
  <2>3. Once(p)
    BY <2>1 DEF Once
  <2>4. Row(p)
    <3>1. /\ \A h \in Handlers : ~Of(h, p) /\ ~Recorded(h, p)
          /\ txn[p] = None /\ given[p] = 0 /\ bought[p] = 0
      BY <2>1
    <3>2. One(p)
      BY <3>1 DEF One
    <3>3. Buys(p)
      <4>1. bought[p] <= 1
        BY <3>1
      <4> QED BY <3>1, <4>1 DEF Buys
    <3>4. Gives(p)
      BY <3>1 DEF Gives
    <3> QED BY <3>2, <3>3, <3>4 DEF Row
  <2> QED BY <2>1, <2>3, <2>4 DEF Idle
<1> QED BY <1>4, <1>6, <1>7, <1>8 DEF Purchased, Paid

\* A request ends, or marks of items nobody is at expire.
LEMMA LessPurchased ==
    ASSUME Typed, Purchased, UNCHANGED <<method, rows, money, txn, held, accepted, bought, given,
                                         repeated, requests>>,
           inFlight' \subseteq inFlight,
           \A h \in Handlers : run'[h] # None => run'[h] = run[h],
           \A h \in Handlers : Signed(h)' => run[h].good \in inFlight'
    PROVE  Purchased'
<1>1. \A h \in Handlers : Asks(h)' => run'[h] = run[h] /\ Asks(h)
  BY DEF Asks
<1>2. Kept' /\ Backed'
  BY DEF Purchased, Kept, Backed
<1>3. Alone'
  BY <1>1 DEF Purchased, Alone, Signed, Finalizing
<1>4. ASSUME NEW p \in Payments PROVE Paid(p)'
  <2>1. CASE method[p] = "x402"
    <3>1. Once(p) /\ Row(p)
      BY <2>1 DEF Purchased, Paid
    <3>2. \A h \in Handlers : /\ Of(h, p)' => run'[h] = run[h] /\ Of(h, p)
                              /\ Settled(h, p)' => run'[h] = run[h] /\ Settled(h, p)
                              /\ Recorded(h, p)' => run'[h] = run[h] /\ Recorded(h, p)
      BY <1>1 DEF Of, Settled, Recorded
    <3>3. Once(p)'
      BY <3>1, <3>2 DEF Once
    <3>4. Row(p)'
      <4>1. One(p)'
        BY <3>1, <3>2 DEF Row, One
      <4>2. Buys(p)'
        BY <3>1, <3>2 DEF Row, Buys
      <4>3. Gives(p)'
        BY <3>1, <3>2 DEF Row, Gives
      <4> QED BY <4>1, <4>2, <4>3 DEF Row
    <3> QED BY <2>1, <3>3, <3>4 DEF Paid
  <2>2. CASE method[p] # "x402"
    BY <2>2 DEF Purchased, Paid, Idle
  <2> QED BY <2>1, <2>2
<1> QED BY <1>2, <1>3, <1>4 DEF Purchased

(***************************************************************************)
(* How a request goes on.                                                  *)
(***************************************************************************)
Goes(h, s) ==
    /\ \A g \in Handlers \ {h} : run'[g] = run[g]
    /\ run'[h].p = run[h].p /\ run'[h].step = s /\ run'[h].kind = run[h].kind
    /\ run'[h].good = run[h].good
Ends(h) == run'[h] = None /\ \A g \in Handlers \ {h} : run'[g] = run[g]

LEMMA AsksAt ==
    ASSUME Typed, NEW h \in Handlers, Asks(h)
    PROVE  /\ run[h] \in Carried /\ run[h].p \in Payments /\ run[h] # None
           /\ Of(h, run[h].p) /\ method[run[h].p] = "x402"
BY AtPayment DEF Asks, Of

LEMMA ThenGoes ==
    ASSUME Typed, NEW h \in Handlers, Asks(h), NEW s, Then(h, s)
    PROVE  Goes(h, s)
<1>1. run[h] \in Carried
  BY AsksAt
<1> DEFINE r == [run[h] EXCEPT !.step = s]
<1>2. /\ r.p = run[h].p /\ r.step = s /\ r.kind = run[h].kind
      /\ r.good = run[h].good /\ r.of = run[h].of
  BY <1>1 DEF Carried
<1>3. run' = [run EXCEPT ![h] = r]
  BY DEF Then
<1>4. run'[h] = r /\ \A g \in Handlers \ {h} : run'[g] = run[g]
  BY <1>3 DEF Typed, Runs
<1> QED BY <1>2, <1>4 DEF Goes

LEMMA EndEnds ==
    ASSUME Typed, NEW h \in Handlers, End(h) PROVE Ends(h)
BY DEF End, Ends, Typed, Runs

\* A signed item whose request goes on or ends leaves every other one its mark.
LEMMA AloneGoes ==
    ASSUME Typed, Purchased, NEW h \in Handlers, Asks(h), method' = method, NEW s, Goes(h, s),
           inFlight' = inFlight, s \notin Statuses, Shape(run[h]) => Shape(run'[h]),
           \A g \in Handlers \ {h} : Finalizing(g) => txn'[run[g].of] = txn[run[g].of]
    PROVE  Alone'
<1>1. /\ \A g \in Handlers : Asks(g)' => Asks(g)
      /\ \A g \in Handlers : Signed(g)' => Signed(g) /\ run'[g].good = run[g].good
      /\ \A g \in Handlers : Finalizing(g)' => g # h /\ Finalizing(g)
  BY DEF Asks, Signed, Finalizing, Goes
<1>2. \A g \in Handlers : Asks(g)' => Shape(run'[g])
  BY <1>1 DEF Goes, Purchased, Alone
<1>3. \A g \in Handlers : Asks(g)' => Shape(run[g])'
  BY <1>2 DEF Shape
<1>4. \A g \in Handlers : Signed(g)' =>
          /\ run'[g].good \in inFlight'
          /\ \A f \in Handlers : Signed(f)' /\ run'[f].good = run'[g].good => f = g
  BY <1>1 DEF Purchased, Alone
<1>5. \A g \in Handlers : Finalizing(g)' =>
          /\ run'[g].kind = "signed" /\ txn'[run'[g].of] # None
          /\ txn'[run'[g].of].good = run'[g].good
          /\ txn'[run'[g].of].status = "pending_validation"
  BY <1>1 DEF Purchased, Alone, Goes
<1> QED BY <1>3, <1>4, <1>5 DEF Alone

LEMMA AloneEnds ==
    ASSUME Typed, Purchased, NEW h \in Handlers, Asks(h), method' = method,
           Fails(h) \/ (End(h) /\ inFlight' = inFlight),
           \A g \in Handlers \ {h} : Finalizing(g) => txn'[run[g].of] = txn[run[g].of]
    PROVE  Alone' /\ Ends(h) /\ inFlight' \subseteq inFlight
           /\ \A g \in Handlers : Signed(g)' => run[g].good \in inFlight'
<1>1. Ends(h)
  BY EndEnds DEF Fails
<1>2. /\ \A g \in Handlers : Asks(g)' => g # h /\ Asks(g) /\ run'[g] = run[g]
      /\ \A g \in Handlers : Signed(g)' => Signed(g)
      /\ \A g \in Handlers : Finalizing(g)' => Finalizing(g)
  BY <1>1 DEF Ends, Asks, Signed, Finalizing
<1>3. inFlight' \subseteq inFlight
  BY DEF Fails
<1>4. \A g \in Handlers : Signed(g)' => run[g].good \in inFlight'
  <2> SUFFICES ASSUME NEW g \in Handlers, Signed(g)' PROVE run[g].good \in inFlight'
    OBVIOUS
  <2>1. Signed(g) /\ g # h /\ run[g].good \in inFlight
    BY <1>2 DEF Signed, Purchased, Alone
  <2>2. Signed(h) => run[h].good # run[g].good
    BY <2>1 DEF Purchased, Alone
  <2> QED BY <2>1, <2>2 DEF Fails, Kind, Signed
<1>5. \A g \in Handlers : Asks(g)' => Shape(run[g])'
  <2>1. \A g \in Handlers : Asks(g)' => Shape(run'[g])
    BY <1>2 DEF Purchased, Alone
  <2> QED BY <2>1 DEF Shape
<1>6. \A g \in Handlers : Signed(g)' =>
          /\ run'[g].good \in inFlight'
          /\ \A f \in Handlers : Signed(f)' /\ run'[f].good = run'[g].good => f = g
  BY <1>2, <1>4 DEF Purchased, Alone, Signed
<1>7. \A g \in Handlers : Finalizing(g)' =>
          /\ run'[g].kind = "signed" /\ txn'[run'[g].of] # None
          /\ txn'[run'[g].of].good = run'[g].good
          /\ txn'[run'[g].of].status = "pending_validation"
  BY <1>2 DEF Purchased, Alone, Finalizing
<1> QED BY <1>1, <1>3, <1>4, <1>5, <1>6, <1>7 DEF Alone

\* Other payments see nothing of it.
LEMMA PaidOther ==
    ASSUME Typed, Purchased, NEW h \in Handlers, Asks(h), method' = method,
           Ends(h) \/ \E s : Goes(h, s),
           NEW p \in Payments, p # run[h].p, rows'[p] = rows[p], money'[p] = money[p],
           p \in repeated' <=> p \in repeated,
           txn'[p] = txn[p], given'[p] = given[p], bought'[p] = bought[p]
    PROVE  Paid(p)'
<1>1. CASE method[p] = "x402"
  <2>1. Once(p) /\ One(p) /\ Buys(p) /\ Gives(p)
    BY <1>1 DEF Purchased, Paid, Row
  <2>2. \A g \in Handlers : /\ Of(g, p)' => run'[g] = run[g] /\ Of(g, p)
                            /\ Settled(g, p)' => run'[g] = run[g] /\ Settled(g, p)
                            /\ Recorded(g, p)' => run'[g] = run[g] /\ Recorded(g, p)
    BY DEF Of, Settled, Recorded, Asks, Ends, Goes
  <2>3. Once(p)'
    BY <2>1, <2>2 DEF Once
  <2>4. One(p)'
    BY <2>1, <2>2 DEF One
  <2>5. Buys(p)'
    BY <2>1, <2>2 DEF Buys
  <2>6. Gives(p)'
    BY <2>1, <2>2 DEF Gives
  <2> QED BY <1>1, <2>3, <2>4, <2>5, <2>6 DEF Paid, Row
<1>2. CASE method[p] # "x402"
  BY <1>2 DEF Purchased, Paid, Idle
<1> QED BY <1>1, <1>2

\* The handlers of the payment itself, when one of them goes on or ends.
LEMMA SelfGoes ==
    ASSUME Typed, NEW h \in Handlers, Asks(h), method' = method, NEW s, Goes(h, s),
           NEW p, p = run[h].p
    PROVE  /\ \A g \in Handlers \ {h} : /\ Of(g, p)' => run'[g] = run[g] /\ Of(g, p)
                                        /\ Settled(g, p)' => Settled(g, p)
                                        /\ Recorded(g, p)' => Recorded(g, p)
           /\ Of(h, p) /\ run'[h].kind = run[h].kind /\ run'[h].good = run[h].good
           /\ run'[h].step = s
           /\ Settled(h, p)' => s \notin {"verify", "settle"}
           /\ Recorded(h, p)' => s \notin {"verify", "settle", "record"} /\ run[h].kind # "raw"
BY DEF Of, Settled, Recorded, Asks, Goes

LEMMA SelfEnds ==
    ASSUME Typed, NEW h \in Handlers, method' = method, Ends(h), NEW p
    PROVE  \A g \in Handlers : /\ Of(g, p)' => g # h /\ run'[g] = run[g] /\ Of(g, p)
                               /\ Settled(g, p)' => g # h /\ Settled(g, p)
                               /\ Recorded(g, p)' => g # h /\ Recorded(g, p)
BY DEF Of, Settled, Recorded, Asks, Ends

(***************************************************************************)
(* The steps.                                                              *)
(***************************************************************************)
LEMMA AskPurchased ==
    ASSUME Typed, Purchased, NEW h \in Handlers, NEW p \in Payments, NEW kind, NEW x,
           Ask(h, p, kind, x), method' = method,
           UNCHANGED <<rows, money, txn, held, accepted, bought, given, repeated>>,
           \/ kind = "signed" /\ x \in Goods \ inFlight /\ inFlight' = inFlight \cup {x}
           \/ kind = "hybrid" /\ x \in Goods /\ inFlight' = inFlight
           \/ kind \in {"raw", "top-up"} /\ x = None /\ inFlight' = inFlight
    PROVE  Purchased'
<1> DEFINE r == [p |-> p, step |-> "verify", kind |-> kind, good |-> x, of |-> p]
<1>1. /\ run'[h] = r /\ run[h] = None /\ \A g \in Handlers \ {h} : run'[g] = run[g]
      /\ r.p = p /\ r.step = "verify" /\ r.kind = kind /\ r.good = x
  BY DEF Ask, Typed, Runs
<1>2. Kept'
  <2>1. requests' \in 0..MaxRequests
    BY X402Assumption DEF X402Assumption, Ask, Purchased, Kept
  <2> QED BY <2>1 DEF Purchased, Kept
<1>3. Backed'
  BY DEF Purchased, Backed
<1>4. \A g \in Handlers : /\ Asks(g)' /\ g # h => Asks(g) /\ run'[g] = run[g]
                          /\ Signed(g)' /\ g # h => Signed(g)
                          /\ Finalizing(g)' => g # h /\ Finalizing(g)
                          /\ ~Signed(h) /\ (Signed(h)' => kind = "signed")
  BY <1>1 DEF Asks, Signed, Finalizing, Statuses
<1>5. Alone'
  <2>1. \A g \in Handlers : Asks(g)' => Shape(run[g])'
    <3>1. Shape(r)
      BY DEF Shape
    <3>2. \A g \in Handlers : Asks(g)' => Shape(run'[g])
      BY <1>1, <1>4, <3>1 DEF Purchased, Alone
    <3> QED BY <3>2 DEF Shape
  <2>2. \A g \in Handlers : Signed(g)' =>
            /\ run'[g].good \in inFlight'
            /\ \A f \in Handlers : Signed(f)' /\ run'[f].good = run'[g].good => f = g
    BY <1>1, <1>4 DEF Purchased, Alone, Signed
  <2>3. \A g \in Handlers : Finalizing(g)' =>
            /\ run'[g].kind = "signed" /\ txn'[run'[g].of] # None
            /\ txn'[run'[g].of].good = run'[g].good
            /\ txn'[run'[g].of].status = "pending_validation"
    BY <1>1, <1>4 DEF Purchased, Alone, Finalizing
  <2> QED BY <2>1, <2>2, <2>3 DEF Alone
<1>6. ASSUME NEW q \in Payments PROVE Paid(q)'
  <2>1. CASE method[q] = "x402"
    <3>1. Once(q) /\ One(q) /\ Buys(q) /\ Gives(q)
      BY <2>1 DEF Purchased, Paid, Row
    <3>2. \A g \in Handlers : /\ Settled(g, q)' => run'[g] = run[g] /\ Settled(g, q)
                              /\ Recorded(g, q)' => run'[g] = run[g] /\ Recorded(g, q)
                              /\ Of(g, q)' /\ run'[g].step = "store raw" =>
                                     run'[g] = run[g] /\ Of(g, q)
      BY <1>1 DEF Of, Settled, Recorded, Asks
    <3>3. Once(q)'
      BY <3>1, <3>2 DEF Once
    <3>4. One(q)'
      BY <3>1, <3>2 DEF One
    <3>5. Buys(q)'
      BY <3>1, <3>2 DEF Buys
    <3>6. Gives(q)'
      BY <3>1, <3>2 DEF Gives
    <3> QED BY <2>1, <3>3, <3>4, <3>5, <3>6 DEF Paid, Row
  <2>2. CASE method[q] # "x402"
    BY <2>2 DEF Purchased, Paid, Idle
  <2> QED BY <2>1, <2>2
<1> QED BY <1>2, <1>3, <1>5, <1>6 DEF Purchased

LEMMA AsksPurchased ==
    ASSUME Typed, Purchased, NEW h \in Handlers, NEW p \in Payments,
           \/ rawDataUploadRoute(h, p) \/ x402TopUpRoute(h, p)
           \/ \E x \in Goods : postSignedItem(h, p, x) \/ x402PaymentRoute(h, p, x)
    PROVE  Purchased'
<1>1. CASE rawDataUploadRoute(h, p)
  <2>1. /\ Ask(h, p, "raw", None) /\ method' = method /\ inFlight' = inFlight
        /\ UNCHANGED <<rows, money, txn, held, accepted, bought, given, repeated>>
    BY <1>1 DEF rawDataUploadRoute, Unchanged
  <2> QED BY <2>1, AskPurchased
<1>2. CASE x402TopUpRoute(h, p)
  <2>1. /\ Ask(h, p, "top-up", None) /\ method' = method /\ inFlight' = inFlight
        /\ UNCHANGED <<rows, money, txn, held, accepted, bought, given, repeated>>
    BY <1>2 DEF x402TopUpRoute, Unchanged
  <2> QED BY <2>1, AskPurchased
<1>3. ASSUME NEW x \in Goods, postSignedItem(h, p, x) PROVE Purchased'
  <2>1. /\ Ask(h, p, "signed", x) /\ method' = method
        /\ x \notin inFlight /\ inFlight' = inFlight \cup {x}
        /\ UNCHANGED <<rows, money, txn, held, accepted, bought, given, repeated>>
    BY <1>3 DEF postSignedItem, Unchanged
  <2> QED BY <2>1, AskPurchased
<1>4. ASSUME NEW x \in Goods, x402PaymentRoute(h, p, x) PROVE Purchased'
  <2>1. /\ Ask(h, p, "hybrid", x) /\ method' = method /\ inFlight' = inFlight
        /\ UNCHANGED <<rows, money, txn, held, accepted, bought, given, repeated>>
    BY <1>4 DEF x402PaymentRoute, Unchanged
  <2> QED BY <2>1, AskPurchased
<1> QED BY <1>1, <1>2, <1>3, <1>4

\* A request that ends, when nothing else changes.
LEMMA EndPurchased ==
    ASSUME Typed, Purchased, NEW h \in Handlers, Asks(h), method' = method,
           Fails(h) \/ (End(h) /\ inFlight' = inFlight),
           UNCHANGED <<rows, money, txn, held, accepted, bought, given, repeated, requests>>
    PROVE  Purchased'
<1>1. /\ Ends(h) /\ inFlight' \subseteq inFlight
      /\ \A g \in Handlers : Signed(g)' => run[g].good \in inFlight'
  BY AloneEnds
<1>2. \A g \in Handlers : run'[g] # None => run'[g] = run[g]
  BY <1>1 DEF Ends
<1> QED BY <1>1, <1>2, LessPurchased

\* A request that goes on, when nothing else changes, to no step that asks for more.
LEMMA GoPurchased ==
    ASSUME Typed, Purchased, NEW h \in Handlers, Asks(h), method' = method, NEW s, Then(h, s),
           UNCHANGED <<rows, money, txn, inFlight, accepted, bought, given, repeated, requests>>,
           held' \in [Goods -> Payments \cup {None}],
           \A x \in Goods : held'[x] # None => txn[held'[x]] # None /\ txn[held'[x]].good = x,
           \/ s \in {"verify", "settle"}
           \/ /\ Recorded(h, run[h].p) /\ run[h].kind = "signed"
              /\ s \in {"receive", "finalize", "accept"}
           \/ Recorded(h, run[h].p) /\ run[h].kind = "hybrid" /\ s = "top up"
    PROVE  Purchased'
<1> DEFINE q == run[h].p
<1>1. Goes(h, s)
  BY ThenGoes
<1>2. Kept' /\ Backed'
  BY DEF Purchased, Kept, Backed
<1>3. s \notin Statuses /\ (Shape(run[h]) => Shape(run'[h]))
  BY <1>1 DEF Shape, Statuses, Goes
<1>4. Alone'
  BY <1>1, <1>3, AloneGoes
<1>5. PICK p \in Payments : p = run[h].p /\ method[p] = "x402"
  BY AsksAt
<1>6. \A o \in Payments \ {p} : Paid(o)'
  BY <1>1, <1>5, PaidOther
<1>7. Once(p) /\ One(p) /\ Buys(p) /\ Gives(p)
  BY <1>5 DEF Purchased, Paid, Row
<1>8. \A g \in Handlers : /\ Of(g, p)' => /\ Of(g, p) /\ run'[g].kind = run[g].kind
                                          /\ run'[g].good = run[g].good
                                          /\ run'[g].step = "store raw" => run'[g] = run[g]
                          /\ Settled(g, p)' => Settled(g, p)
                          /\ Recorded(g, p)' => Recorded(g, p)
  BY <1>1, <1>5, SelfGoes DEF Recorded, Settled, Goes
<1>9. Once(p)'
  BY <1>7, <1>8 DEF Once
<1>10. One(p)'
  <2>1. \A g \in Handlers : Recorded(g, p)' => Of(g, p)'
    BY DEF Recorded, Settled
  <2> QED BY <1>7, <1>8, <2>1 DEF One
<1>11. Buys(p)'
  BY <1>7, <1>8 DEF Buys
<1>12. Gives(p)'
  BY <1>7, <1>8 DEF Gives
<1>13. Paid(p)'
  BY <1>5, <1>9, <1>10, <1>11, <1>12 DEF Paid, Row
<1> QED BY <1>2, <1>4, <1>6, <1>13 DEF Purchased

LEMMA VerifyPurchased ==
    ASSUME Typed, Purchased, NEW h \in Handlers, Asks(h), Verify(h)
    PROVE  Purchased'
<1>1. /\ method' = method
      /\ (Then(h, "settle") /\ inFlight' = inFlight) \/ Fails(h)
      /\ UNCHANGED <<rows, money, txn, held, accepted, bought, given, repeated, requests>>
  BY DEF Verify, Unchanged
<1>2. CASE Then(h, "settle") /\ inFlight' = inFlight
  <2>1. /\ held' \in [Goods -> Payments \cup {None}]
        /\ \A x \in Goods : held'[x] # None => txn[held'[x]] # None /\ txn[held'[x]].good = x
    BY <1>1 DEF Purchased, Kept, Backed
  <2> QED BY <1>1, <1>2, <2>1, GoPurchased
<1>3. CASE Fails(h)
  BY <1>1, <1>3, EndPurchased
<1> QED BY <1>1, <1>2, <1>3

LEMMA SettlePurchased ==
    ASSUME Typed, Purchased, NEW h \in Handlers, Asks(h), Settle(h)
    PROVE  Purchased'
<1>1. /\ At(h, "settle") /\ method' = method
      /\ UNCHANGED <<rows, txn, held, accepted, bought, given, requests>>
  BY DEF Settle, Unchanged
<1>2. PICK p \in Payments : p = run[h].p /\ method[p] = "x402"
  BY AsksAt
<1>3. Once(p) /\ One(p) /\ Buys(p) /\ Gives(p) /\ ~Settled(h, p)
  BY <1>1, <1>2 DEF Purchased, Paid, Row, Settled, At
<1>4. CASE Fails(h) /\ UNCHANGED <<money, repeated>>
  BY <1>1, <1>4, EndPurchased
<1>5. CASE /\ Then(h, "record") /\ money' = [money EXCEPT ![p] = "paid"] /\ inFlight' = inFlight
           /\ repeated' = IF money[p] = "paid" THEN repeated \cup {p} ELSE repeated
  <2>1. Goes(h, "record")
    BY <1>5, ThenGoes
  <2>2. Kept' /\ Backed'
    BY <1>1, <1>5 DEF Purchased, Kept, Backed
  <2>3. Shape(run[h]) => Shape(run'[h])
    BY <2>1 DEF Shape, Goes
  <2>4. Alone'
    BY <1>1, <1>5, <2>1, <2>3, AloneGoes DEF Statuses
  <2>5. /\ money'[p] = "paid" /\ \A o \in Payments \ {p} : money'[o] = money[o]
        /\ \A o \in Payments \ {p} : o \in repeated' <=> o \in repeated
        /\ money[p] = "paid" => p \in repeated'
        /\ p \in repeated => p \in repeated'
    BY <1>5 DEF Typed
  <2>6. \A o \in Payments \ {p} : Paid(o)'
    BY <1>1, <1>2, <2>1, <2>5, PaidOther
  <2>7. \A g \in Handlers : /\ Of(g, p)' => /\ Of(g, p) /\ run'[g].kind = run[g].kind
                                            /\ run'[g].good = run[g].good
                                            /\ run'[g].step = "store raw" => run'[g] = run[g]
                            /\ Settled(g, p)' /\ g # h => Settled(g, p)
                            /\ Recorded(g, p)' => Recorded(g, p) /\ Of(g, p)'
    <3>0. /\ \A g \in Handlers \ {h} : /\ Of(g, p)' => run'[g] = run[g] /\ Of(g, p)
                                       /\ Settled(g, p)' => Settled(g, p)
                                       /\ Recorded(g, p)' => Recorded(g, p)
          /\ Of(h, p) /\ run'[h].kind = run[h].kind /\ run'[h].good = run[h].good
          /\ run'[h].step = "record"
          /\ Recorded(h, p)' => "record" \notin {"verify", "settle", "record"} /\ run[h].kind # "raw"
      BY <1>1, <1>2, <2>1, SelfGoes
    <3> SUFFICES ASSUME NEW g \in Handlers
                 PROVE  /\ Of(g, p)' => /\ Of(g, p) /\ run'[g].kind = run[g].kind
                                        /\ run'[g].good = run[g].good
                                        /\ run'[g].step = "store raw" => run'[g] = run[g]
                        /\ Settled(g, p)' /\ g # h => Settled(g, p)
                        /\ Recorded(g, p)' => Recorded(g, p) /\ Of(g, p)'
      OBVIOUS
    <3>1. CASE g = h
      BY <3>0, <3>1
    <3>2. CASE g # h
      <4>1. Recorded(g, p)' => Of(g, p)'
        BY DEF Recorded, Settled
      <4>2. /\ Of(g, p)' => run'[g] = run[g] /\ Of(g, p)
            /\ Settled(g, p)' => Settled(g, p)
            /\ Recorded(g, p)' => Recorded(g, p)
        BY <3>0, <3>2
      <4> QED BY <3>2, <4>1, <4>2
    <3> QED BY <3>1, <3>2
  <2>8. Once(p)'
    <3>1. CASE money[p] = "paid"
      BY <2>5, <3>1 DEF Once
    <3>2. CASE money[p] = "unpaid"
      <4>1. \A g \in Handlers : Settled(g, p)' => g = h
        BY <1>3, <2>7, <3>2 DEF Once
      <4>2. p \notin repeated => bought[p] = 0
        BY <1>3, <3>2 DEF Once
      <4>3. repeated' = repeated
        BY <1>5, <3>2
      <4>4. bought[p] = 0 => bought[p] <= 1
        OBVIOUS
      <4> QED BY <1>1, <2>5, <4>1, <4>2, <4>3, <4>4 DEF Once
    <3> QED BY <1>3, <3>1, <3>2 DEF Once
  <2>9. One(p)'
    BY <1>1, <1>3, <2>7 DEF One
  <2>10. Buys(p)'
    BY <1>1, <1>3, <2>7 DEF Buys
  <2>11. Gives(p)'
    BY <1>1, <1>3, <2>5, <2>7 DEF Gives
  <2>12. Paid(p)'
    BY <1>1, <1>2, <2>8, <2>9, <2>10, <2>11 DEF Paid, Row
  <2> QED BY <2>2, <2>4, <2>6, <2>12 DEF Purchased
<1>6. CASE Fails(h) /\ money[p] = "unpaid" /\ money' = [money EXCEPT ![p] = "paid"]
           /\ UNCHANGED repeated
  <2>1. Alone' /\ Ends(h) /\ inFlight' \subseteq inFlight
    BY <1>1, <1>6, AloneEnds
  <2>2. Kept' /\ Backed'
    BY <1>1, <1>6, <2>1 DEF Purchased, Kept, Backed
  <2>3. money'[p] = "paid" /\ \A o \in Payments \ {p} : money'[o] = money[o]
    BY <1>6 DEF Typed
  <2>4. \A o \in Payments \ {p} : Paid(o)'
    BY <1>1, <1>2, <1>6, <2>1, <2>3, PaidOther
  <2>5. \A g \in Handlers : /\ Of(g, p)' => run'[g] = run[g] /\ Of(g, p)
                            /\ Settled(g, p)' => Settled(g, p)
                            /\ Recorded(g, p)' => Recorded(g, p) /\ Of(g, p)'
    BY <1>1, <2>1, SelfEnds DEF Recorded, Settled
  <2>6. Once(p)'
    BY <1>1, <1>3, <1>6, <2>3, <2>5 DEF Once
  <2>7. One(p)'
    BY <1>1, <1>3, <2>5 DEF One
  <2>8. Buys(p)'
    BY <1>1, <1>3, <2>5 DEF Buys
  <2>9. Gives(p)'
    BY <1>1, <1>3, <2>3, <2>5 DEF Gives
  <2>10. Paid(p)'
    BY <1>1, <1>2, <2>6, <2>7, <2>8, <2>9 DEF Paid, Row
  <2> QED BY <2>1, <2>2, <2>4, <2>10 DEF Purchased
<1> QED BY <1>2, <1>4, <1>5, <1>6 DEF Settle

LEMMA RecordPurchased ==
    ASSUME Typed, Purchased, NEW h \in Handlers, Asks(h), createX402Payment(h)
    PROVE  Purchased'
<1>1. /\ At(h, "record") /\ run[h].kind # "raw" /\ method' = method
      /\ UNCHANGED <<money, held, accepted, bought, given, repeated, requests>>
  BY DEF createX402Payment, Unchanged, Raw, Kind, Asks
<1>2. PICK p \in Payments : p = run[h].p /\ method[p] = "x402"
  BY AsksAt
<1>3. CASE Fails(h) /\ UNCHANGED <<rows, txn>>
  BY <1>1, <1>3, EndPurchased
<1> DEFINE t == [kind |-> run[h].kind, good |-> run[h].good, status |-> "pending_validation"]
           s == IF run[h].kind = "top-up" THEN "top up" ELSE "reserve"
<1>4. CASE /\ txn[p] = None /\ txn' = [txn EXCEPT ![p] = t]
           /\ Move(p, {}, {"x402_payment_transaction"}) /\ Then(h, s) /\ inFlight' = inFlight
  <2>1. Goes(h, s)
    BY <1>4, ThenGoes
  <2>2. Shape(run[h]) /\ run[h] \in Carried
    BY AsksAt DEF Purchased, Alone
  <2>3. /\ t \in Transactions /\ t # None /\ t.kind = run[h].kind /\ t.good = run[h].good
        /\ t.status = "pending_validation"
    <3>1. t \in Transactions
      BY <1>1, <2>2 DEF Transactions, Carried
    <3> QED BY <3>1, X402Assumption DEF X402Assumption
  <2>4. txn'[p] = t /\ \A o \in Payments \ {p} : txn'[o] = txn[o]
    BY <1>4 DEF Purchased, Kept
  <2>5. /\ \A o \in Payments \ {p} : rows'[o] = rows[o]
        /\ "x402_payments" \in rows'[p] <=> "x402_payments" \in rows[p]
    BY <1>4 DEF Move, Typed
  <2>6. Kept'
    BY <1>1, <1>4, <2>3 DEF Purchased, Kept
  <2>7. Backed'
    <3> SUFFICES ASSUME NEW x \in Goods
                 PROVE  /\ held[x] # None => txn'[held[x]] # None /\ txn'[held[x]].good = x
                        /\ x \in accepted =>
                              \E o \in Payments : txn'[o] # None /\ txn'[o].good = x
      BY <1>1 DEF Backed
    <3>1. held[x] # None => held[x] \in Payments /\ txn[held[x]] # None /\ txn[held[x]].good = x
      BY DEF Purchased, Backed, Kept
    <3>2. held[x] # None => txn'[held[x]] = txn[held[x]]
      BY <1>4, <2>4, <3>1
    <3>3. x \in accepted => \E o \in Payments : txn[o] # None /\ txn[o].good = x
      BY DEF Purchased, Backed
    <3>4. \A o \in Payments : txn[o] # None => txn'[o] = txn[o]
      BY <1>4, <2>4
    <3> QED BY <3>1, <3>2, <3>3, <3>4
  <2>8. Alone'
    <3>1. Shape(run'[h])
      BY <1>1, <2>1, <2>2 DEF Shape, Goes, Carried
    <3>2. \A g \in Handlers \ {h} : Finalizing(g) => txn'[run[g].of] = txn[run[g].of]
      <4> SUFFICES ASSUME NEW g \in Handlers, Finalizing(g) PROVE txn'[run[g].of] = txn[run[g].of]
        OBVIOUS
      <4>1. txn[run[g].of] # None /\ run[g].of \in Payments
        BY AsksAt DEF Purchased, Alone, Finalizing, Carried
      <4> QED BY <1>4, <2>4, <4>1
    <3>3. s \notin Statuses
      BY DEF Statuses
    <3> QED BY <1>1, <1>4, <2>1, <3>1, <3>2, <3>3, AloneGoes
  <2>9. \A o \in Payments \ {p} : Paid(o)'
    BY <1>1, <1>2, <2>1, <2>4, <2>5, PaidOther
  <2>10. Once(p) /\ One(p) /\ Buys(p) /\ Gives(p) /\ Settled(h, p)
    BY <1>1, <1>2 DEF Purchased, Paid, Row, Settled, Of, At
  <2>11. \A g \in Handlers : ~Recorded(g, p)
    BY <1>4, <2>10 DEF One
  <2>12. \A g \in Handlers : /\ Of(g, p)' => /\ Of(g, p) /\ run'[g].kind = run[g].kind
                                             /\ run'[g].good = run[g].good
                                             /\ run'[g].step = "store raw" => run'[g] = run[g]
                             /\ Settled(g, p)' => Settled(g, p)
                             /\ Recorded(g, p)' => g = h /\ Of(g, p)'
    <3>0. /\ \A g \in Handlers \ {h} : /\ Of(g, p)' => run'[g] = run[g] /\ Of(g, p)
                                       /\ Settled(g, p)' => Settled(g, p)
                                       /\ Recorded(g, p)' => Recorded(g, p)
          /\ Of(h, p) /\ run'[h].kind = run[h].kind /\ run'[h].good = run[h].good
          /\ run'[h].step = s
          /\ Recorded(h, p)' => s \notin {"verify", "settle", "record"} /\ run[h].kind # "raw"
      <4> HIDE DEF s
      <4> QED BY <1>1, <1>2, <2>1, SelfGoes
    <3> SUFFICES ASSUME NEW g \in Handlers
                 PROVE  /\ Of(g, p)' => /\ Of(g, p) /\ run'[g].kind = run[g].kind
                                        /\ run'[g].good = run[g].good
                                        /\ run'[g].step = "store raw" => run'[g] = run[g]
                        /\ Settled(g, p)' => Settled(g, p)
                        /\ Recorded(g, p)' => g = h /\ Of(g, p)'
      OBVIOUS
    <3>1. CASE g = h
      <4>1. Recorded(g, p)' => Of(g, p)'
        BY DEF Recorded, Settled
      <4>2. s # "store raw"
        OBVIOUS
      <4> QED BY <2>10, <3>0, <3>1, <4>1, <4>2
    <3>2. CASE g # h
      <4>1. /\ Of(g, p)' => run'[g] = run[g] /\ Of(g, p)
            /\ Settled(g, p)' => Settled(g, p)
            /\ ~Recorded(g, p)'
        BY <2>11, <3>0, <3>2
      <4> QED BY <3>2, <4>1
    <3> QED BY <3>1, <3>2
  <2>13. Once(p)'
    BY <1>1, <2>10, <2>12 DEF Once
  <2>14. One(p)'
    BY <2>3, <2>4, <2>12 DEF One
  <2>15. Buys(p)'
    BY <1>1, <1>4, <2>5, <2>10, <2>12 DEF Buys
  <2>16. Gives(p)'
    <3>1. money[p] = "paid" /\ given[p] = 0 /\ given[p] <= Full /\ given[p] <= Overpaid
      <4>1. money[p] = "paid"
        BY <2>10 DEF Once
      <4>2. given[p] = 0
        BY <1>4, <2>10 DEF Gives
      <4> QED BY <4>1, <4>2 DEF Full, Overpaid
    <3>2. run[h].kind = "top-up" => run[h].good = None
      BY <2>2 DEF Shape
    <3> QED BY <1>1, <2>3, <2>4, <3>1, <3>2 DEF Gives
  <2>17. Paid(p)'
    BY <1>1, <1>2, <2>13, <2>14, <2>15, <2>16 DEF Paid, Row
  <2> QED BY <2>6, <2>7, <2>8, <2>9, <2>17 DEF Purchased
<1> QED BY <1>2, <1>3, <1>4 DEF createX402Payment, Kind

LEMMA ReservePurchased ==
    ASSUME Typed, Purchased, NEW h \in Handlers, Asks(h), createX402PaymentReservation(h)
    PROVE  Purchased'
<1>1. /\ At(h, "reserve") /\ method' = method
      /\ UNCHANGED <<rows, money, txn, accepted, bought, given, repeated, requests>>
  BY DEF createX402PaymentReservation, Unchanged
<1>2. PICK p \in Payments : p = run[h].p /\ method[p] = "x402"
  BY AsksAt
<1>3. run[h] \in Carried /\ Shape(run[h])
  BY AsksAt DEF Purchased, Alone
<1>4. run[h].kind \in {"hybrid", "signed"} /\ run[h].good \in Goods /\ Recorded(h, p)
  BY <1>1, <1>2, <1>3, AsksAt DEF Shape, Carried, At, Recorded, Settled
<1>5. CASE Fails(h) /\ UNCHANGED held
  BY <1>1, <1>5, EndPurchased
<1>6. CASE /\ held' = [held EXCEPT ![run[h].good] = p] /\ inFlight' = inFlight
           /\ Then(h, IF Kind(h) = "hybrid" THEN "top up" ELSE "receive")
  <2>1. txn[p] # None /\ txn[p].good = run[h].good
    BY <1>2, <1>4 DEF Purchased, Paid, Row, One
  <2>2. /\ held' \in [Goods -> Payments \cup {None}]
        /\ \A x \in Goods : held'[x] = IF x = run[h].good THEN p ELSE held[x]
    BY <1>4, <1>6 DEF Purchased, Kept
  <2>3. \A x \in Goods : held'[x] # None => txn[held'[x]] # None /\ txn[held'[x]].good = x
    BY <2>1, <2>2 DEF Purchased, Backed
  <2>4. \/ run[h].kind = "hybrid" /\ Then(h, "top up")
        \/ run[h].kind = "signed" /\ Then(h, "receive")
    BY <1>4, <1>6 DEF Kind
  <2>5. Recorded(h, run[h].p)
    BY <1>2, <1>4
  <2>6. CASE run[h].kind = "hybrid" /\ Then(h, "top up")
    BY <1>1, <1>6, <2>2, <2>3, <2>5, <2>6, GoPurchased
  <2>7. CASE run[h].kind = "signed" /\ Then(h, "receive")
    BY <1>1, <1>6, <2>2, <2>3, <2>5, <2>7, GoPurchased
  <2> QED BY <2>4, <2>6, <2>7
<1> QED BY <1>2, <1>5, <1>6 DEF createX402PaymentReservation

LEMMA ReceivePurchased ==
    ASSUME Typed, Purchased, NEW h \in Handlers, Asks(h), verifyAndSettleX402Payment(h)
    PROVE  Purchased'
<1>1. /\ At(h, "receive") /\ method' = method
      /\ UNCHANGED <<rows, money, txn, held, accepted, bought, given, repeated, requests>>
      /\ \/ Then(h, "finalize") /\ inFlight' = inFlight
         \/ Then(h, "accept") /\ inFlight' = inFlight
         \/ Then(h, "verify") /\ inFlight' = inFlight
         \/ Fails(h)
  BY DEF verifyAndSettleX402Payment, Unchanged
<1>2. run[h] \in Carried /\ Shape(run[h])
  BY AsksAt DEF Purchased, Alone
<1>3. run[h].kind = "signed" /\ Recorded(h, run[h].p)
  BY <1>1, <1>2, AsksAt DEF Shape, Carried, At, Recorded, Settled
<1>4. /\ held' \in [Goods -> Payments \cup {None}]
      /\ \A x \in Goods : held'[x] # None => txn[held'[x]] # None /\ txn[held'[x]].good = x
  BY <1>1 DEF Purchased, Kept, Backed
<1>5. CASE Fails(h)
  BY <1>1, <1>5, EndPurchased
<1>6. ASSUME NEW s \in {"finalize", "accept", "verify"}, Then(h, s), inFlight' = inFlight
      PROVE  Purchased'
  BY <1>1, <1>3, <1>4, <1>6, GoPurchased
<1> QED BY <1>1, <1>5, <1>6

\* What a request that ends bought is the first its authorization buys.
LEMMA BoughtOnce ==
    ASSUME Typed, Purchased, NEW h \in Handlers, Asks(h), method' = method, Ends(h),
           NEW p \in Payments, p = run[h].p, Settled(h, p),
           Recorded(h, p) \/ "x402_payments" \in rows[p],
           bought'[p] = bought[p] \/ bought'[p] = bought[p] + 1,
           UNCHANGED <<rows, money, txn, repeated>>
    PROVE  Once(p)' /\ One(p)' /\ Buys(p)'
<1>1. Once(p) /\ One(p) /\ Buys(p)
  BY AsksAt DEF Purchased, Paid, Row
<1>2. \A g \in Handlers : /\ Of(g, p)' => g # h /\ run'[g] = run[g] /\ Of(g, p)
                          /\ Settled(g, p)' => g # h /\ Settled(g, p)
                          /\ Recorded(g, p)' => g # h /\ Recorded(g, p)
  BY SelfEnds
<1>3. \A g \in Handlers : Recorded(g, p)' => Of(g, p)'
  BY DEF Recorded, Settled
<1>4. money[p] = "paid"
  BY <1>1 DEF Once
<1>5. bought[p] = 0 => bought'[p] <= 1
  OBVIOUS
<1>6. Once(p)'
  <2>1. p \notin repeated => bought[p] = 0 /\ \A g \in Handlers : ~Settled(g, p)'
    BY <1>1, <1>2 DEF Once
  <2> QED BY <1>2, <1>4, <1>5, <2>1 DEF Once
<1>7. One(p)'
  BY <1>1, <1>2, <1>3 DEF One
<1>8. Buys(p)'
  <2>1. CASE "x402_payments" \in rows[p]
    BY <2>1 DEF Buys
  <2>2. CASE "x402_payments" \notin rows[p]
    <3>1. bought[p] = 0 /\ txn[p] # None /\ \A g \in Handlers : ~Recorded(g, p)'
      BY <1>1, <1>2, <2>2 DEF Buys, One
    <3>2. \A g \in Handlers : Of(g, p)' => run'[g].step # "store raw"
      BY <1>1, <1>2, <2>2 DEF Buys
    <3> QED BY <1>5, <3>1, <3>2 DEF Buys
  <2> QED BY <2>1, <2>2
<1> QED BY <1>6, <1>7, <1>8

LEMMA TopUpPurchased ==
    ASSUME Typed, Purchased, NEW h \in Handlers, Asks(h), adjustUserWinstonBalance(h)
    PROVE  Purchased'
<1>1. /\ At(h, "top up") /\ End(h) /\ method' = method
      /\ UNCHANGED <<rows, money, txn, held, inFlight, accepted, repeated, requests>>
  BY DEF adjustUserWinstonBalance, Unchanged
<1>2. PICK p \in Payments : p = run[h].p /\ method[p] = "x402"
  BY AsksAt
<1>3. run[h] \in Carried /\ Shape(run[h])
  BY AsksAt DEF Purchased, Alone
<1>4. run[h].kind \in {"hybrid", "top-up"} /\ Recorded(h, p) /\ Settled(h, p)
  BY <1>1, <1>2, <1>3, AsksAt DEF Shape, Carried, At, Recorded, Settled
<1>5. CASE UNCHANGED <<given, bought>>
  BY <1>1, <1>5, EndPurchased
<1> DEFINE n == IF Kind(h) = "top-up" THEN Full ELSE Excess
<1>6. CASE Give(p, n) /\ Bought(p)
  <2>1. Alone' /\ Ends(h)
    BY <1>1, AloneEnds
  <2>2. n \in Nat
    BY DEF Full, Excess
  <2>3. /\ given'[p] = given[p] + n /\ bought'[p] = bought[p] + 1
        /\ \A o \in Payments \ {p} : given'[o] = given[o] /\ bought'[o] = bought[o]
        /\ given' \in [Payments -> Nat] /\ bought' \in [Payments -> Nat]
    BY <1>6, <2>2 DEF Give, Bought, Purchased, Kept
  <2>4. Kept' /\ Backed'
    BY <1>1, <2>3 DEF Purchased, Kept, Backed
  <2>5. \A o \in Payments \ {p} : Paid(o)'
    BY <1>1, <1>2, <2>1, <2>3, PaidOther
  <2>6. Once(p)' /\ One(p)' /\ Buys(p)'
    BY <1>1, <1>2, <1>4, <2>1, <2>3, BoughtOnce
  <2>7. Gives(p)'
    <3>1. Gives(p) /\ One(p)
      BY <1>2 DEF Purchased, Paid, Row
    <3>2. txn[p] # None /\ txn[p].kind = run[h].kind
      BY <1>4, <3>1 DEF One
    <3>3. \A g \in Handlers : ~Recorded(g, p)'
      <4>1. \A g \in Handlers : Recorded(g, p)' => g # h /\ Recorded(g, p)
        BY <1>1, <2>1, SelfEnds
      <4> QED BY <1>4, <3>1, <4>1 DEF One
    <3>4. CASE run[h].kind = "top-up"
      <4>1. given[p] = 0 /\ n = Full /\ txn[p].good = None /\ money[p] = "paid"
        BY <1>4, <3>1, <3>2, <3>4 DEF Gives, Kind
      <4>2. given'[p] <= Full
        BY <2>3, <4>1 DEF Full
      <4> QED BY <1>1, <3>2, <3>3, <3>4, <4>1, <4>2 DEF Gives
    <3>5. CASE run[h].kind = "hybrid"
      BY <1>1, <3>1, <3>2, <3>5 DEF Gives
    <3> QED BY <1>4, <3>4, <3>5
  <2>8. Paid(p)'
    BY <1>1, <1>2, <2>6, <2>7 DEF Paid, Row
  <2> QED BY <2>1, <2>4, <2>5, <2>8 DEF Purchased
<1> QED BY <1>2, <1>5, <1>6 DEF adjustUserWinstonBalance

LEMMA FoundPurchased ==
    ASSUME Typed, Purchased, NEW h \in Handlers, Asks(h), x402FinalizeRoute(h)
    PROVE  Purchased'
<1>1. PICK q \in Payments :
          /\ txn[q] # None /\ txn[q].good = run[h].good
          /\ IF txn[q].status = "pending_validation" THEN Finalizes(h, q) ELSE Then(h, "accept")
  BY DEF x402FinalizeRoute
<1>2. /\ At(h, "finalize") /\ method' = method
      /\ UNCHANGED <<rows, money, txn, held, inFlight, accepted, bought, given, repeated, requests>>
  BY DEF x402FinalizeRoute, Unchanged, x402
<1>3. PICK p \in Payments : p = run[h].p /\ method[p] = "x402"
  BY AsksAt
<1>4. run[h] \in Carried /\ Shape(run[h])
  BY AsksAt DEF Purchased, Alone
<1>5. run[h].kind = "signed" /\ Recorded(h, run[h].p)
  BY <1>2, <1>4, AsksAt DEF Shape, Carried, At, Recorded, Settled
<1>6. CASE Then(h, "accept")
  <2>1. /\ held' \in [Goods -> Payments \cup {None}]
        /\ \A x \in Goods : held'[x] # None => txn[held'[x]] # None /\ txn[held'[x]].good = x
    BY <1>2 DEF Purchased, Kept, Backed
  <2> QED BY <1>2, <1>5, <1>6, <2>1, GoPurchased
<1>7. CASE txn[q].status = "pending_validation" /\ Finalizes(h, q)
  <2>1. /\ run'[h].p = run[h].p /\ run'[h].good = run[h].good /\ run'[h].kind = run[h].kind
        /\ run'[h].of = q /\ run'[h].step \in Statuses
        /\ \A g \in Handlers \ {h} : run'[g] = run[g]
    BY <1>2, <1>3, <1>7, AsksAt, FinalizesRuns
  <2>2. Goes(h, run'[h].step)
    BY <2>1 DEF Goes
  <2>3. Kept' /\ Backed'
    BY <1>2 DEF Purchased, Kept, Backed
  <2>4. /\ \A g \in Handlers : Asks(g)' => Asks(g)
        /\ \A g \in Handlers : Signed(g)' => Signed(g) /\ run'[g].good = run[g].good
        /\ \A g \in Handlers \ {h} : Finalizing(g)' => Finalizing(g)
    BY <1>2, <2>1, AsksAt DEF Asks, Signed, Finalizing
  <2>5. Alone'
    <3>1. \A g \in Handlers : Asks(g)' => Shape(run[g])'
      <4>1. Shape(run'[h])
        BY <1>4, <1>5, <2>1 DEF Shape, Statuses
      <4>2. \A g \in Handlers : Asks(g)' => Shape(run'[g])
        BY <2>1, <2>4, <4>1 DEF Purchased, Alone
      <4> QED BY <4>2 DEF Shape
    <3>2. \A g \in Handlers : Signed(g)' =>
              /\ run'[g].good \in inFlight'
              /\ \A f \in Handlers : Signed(f)' /\ run'[f].good = run'[g].good => f = g
      BY <1>2, <2>4 DEF Purchased, Alone
    <3>3. \A g \in Handlers : Finalizing(g)' =>
              /\ run'[g].kind = "signed" /\ txn'[run'[g].of] # None
              /\ txn'[run'[g].of].good = run'[g].good
              /\ txn'[run'[g].of].status = "pending_validation"
      <4> SUFFICES ASSUME NEW g \in Handlers, Finalizing(g)'
                   PROVE  /\ run'[g].kind = "signed" /\ txn'[run'[g].of] # None
                          /\ txn'[run'[g].of].good = run'[g].good
                          /\ txn'[run'[g].of].status = "pending_validation"
        OBVIOUS
      <4>1. CASE g = h
        BY <1>1, <1>2, <1>5, <1>7, <2>1, <4>1
      <4>2. CASE g # h
        BY <1>2, <2>1, <2>4, <4>2 DEF Purchased, Alone
      <4> QED BY <4>1, <4>2
    <3> QED BY <3>1, <3>2, <3>3 DEF Alone
  <2>6. \A o \in Payments \ {p} : Paid(o)'
    BY <1>2, <1>3, <2>2, PaidOther
  <2>7. Once(p) /\ One(p) /\ Buys(p) /\ Gives(p)
    BY <1>3 DEF Purchased, Paid, Row
  <2>8. \A g \in Handlers : /\ Of(g, p)' => /\ Of(g, p) /\ run'[g].kind = run[g].kind
                                            /\ run'[g].good = run[g].good
                                            /\ run'[g].step = "store raw" => run'[g] = run[g]
                            /\ Settled(g, p)' => Settled(g, p)
                            /\ Recorded(g, p)' => Recorded(g, p) /\ Of(g, p)'
    <3> SUFFICES ASSUME NEW g \in Handlers
                 PROVE  /\ Of(g, p)' => /\ Of(g, p) /\ run'[g].kind = run[g].kind
                                        /\ run'[g].good = run[g].good
                                        /\ run'[g].step = "store raw" => run'[g] = run[g]
                        /\ Settled(g, p)' => Settled(g, p)
                        /\ Recorded(g, p)' => Recorded(g, p) /\ Of(g, p)'
      OBVIOUS
    <3>1. CASE g = h
      BY <1>2, <1>3, <1>5, <2>1, <3>1 DEF Recorded, Settled, Of, Asks, Statuses
    <3>2. CASE g # h
      BY <1>2, <2>1, <3>2 DEF Recorded, Settled, Of, Asks
    <3> QED BY <3>1, <3>2
  <2>9. Once(p)'
    BY <1>2, <2>7, <2>8 DEF Once
  <2>10. One(p)'
    BY <1>2, <2>7, <2>8 DEF One
  <2>11. Buys(p)'
    BY <1>2, <2>7, <2>8 DEF Buys
  <2>12. Gives(p)'
    BY <1>2, <2>7, <2>8 DEF Gives
  <2>13. Paid(p)'
    BY <1>2, <1>3, <2>9, <2>10, <2>11, <2>12 DEF Paid, Row
  <2> QED BY <2>3, <2>5, <2>6, <2>13 DEF Purchased
<1> QED BY <1>1, <1>6, <1>7

\* A request past its record that goes on or ends, for every payment there is.
LEMMA AnyGoes ==
    ASSUME Typed, NEW h \in Handlers, Asks(h), method' = method,
           \/ Ends(h)
           \/ Recorded(h, run[h].p) /\ Goes(h, "accept"),
           NEW o
    PROVE  \A g \in Handlers : /\ Of(g, o)' => /\ Of(g, o) /\ run'[g].kind = run[g].kind
                                               /\ run'[g].good = run[g].good
                                               /\ run'[g].step = "store raw" => run'[g] = run[g]
                               /\ Settled(g, o)' => Settled(g, o)
                               /\ Recorded(g, o)' => Recorded(g, o) /\ Of(g, o)'
<1> SUFFICES ASSUME NEW g \in Handlers
             PROVE  /\ Of(g, o)' => /\ Of(g, o) /\ run'[g].kind = run[g].kind
                                    /\ run'[g].good = run[g].good
                                    /\ run'[g].step = "store raw" => run'[g] = run[g]
                    /\ Settled(g, o)' => Settled(g, o)
                    /\ Recorded(g, o)' => Recorded(g, o) /\ Of(g, o)'
  OBVIOUS
<1>1. CASE g = h
  BY <1>1 DEF Recorded, Settled, Of, Asks, Ends, Goes
<1>2. CASE g # h
  BY <1>2 DEF Recorded, Settled, Of, Asks, Ends, Goes
<1> QED BY <1>1, <1>2

\* A finalization that is committed.
LEMMA CommitPurchased ==
    ASSUME Typed, Purchased, NEW h \in Handlers, Asks(h), method' = method, Finalizing(h),
           txn' = [txn EXCEPT ![run[h].of].status = run[h].step],
           held' = [held EXCEPT ![run[h].good] = None],
           IF run[h].step = "refunded" THEN Give(run[h].of, Overpaid) ELSE given' = given,
           Fails(h) \/ (Then(h, "accept") /\ inFlight' = inFlight),
           UNCHANGED <<rows, money, accepted, bought, repeated, requests>>
    PROVE  Purchased'
<1>1. PICK q \in Payments : q = run[h].of
  BY AsksAt DEF Carried
<1>2. PICK p \in Payments : p = run[h].p /\ method[p] = "x402"
  BY AsksAt
<1>3. run[h] \in Carried /\ Shape(run[h]) /\ run[h].step \in Statuses
  BY AsksAt DEF Purchased, Alone, Finalizing
<1>4. /\ run[h].kind = "signed" /\ run[h].good \in Goods /\ Recorded(h, run[h].p) /\ Signed(h)
      /\ txn[q] # None /\ txn[q].good = run[h].good /\ txn[q].status = "pending_validation"
  BY <1>1, <1>3, AsksAt
     DEF Shape, Recorded, Settled, Statuses, Purchased, Alone, Signed
<1>5. Ends(h) \/ Goes(h, "accept")
  BY EndEnds, ThenGoes DEF Fails
<1> DEFINE t == [txn[q] EXCEPT !.status = run[h].step]
<1>6. /\ txn[q] \in Transactions /\ t \in Transactions /\ t # None
      /\ t.kind = txn[q].kind /\ t.good = txn[q].good /\ t.status = run[h].step
  <2>1. txn[q] \in Transactions
    BY <1>4 DEF Purchased, Kept
  <2>2. /\ t \in Transactions /\ t.kind = txn[q].kind /\ t.good = txn[q].good
        /\ t.status = run[h].step
    BY <1>3, <2>1 DEF Transactions
  <2> QED BY <2>1, <2>2, X402Assumption DEF X402Assumption
<1>7. txn' = [txn EXCEPT ![q] = t]
  BY <1>1
<1>8. txn'[q] = t /\ \A o \in Payments \ {q} : txn'[o] = txn[o]
  BY <1>7 DEF Purchased, Kept
<1>9. \A o \in Payments : /\ txn'[o] = None <=> txn[o] = None
                          /\ txn'[o].kind = txn[o].kind /\ txn'[o].good = txn[o].good
  BY <1>4, <1>6, <1>8
<1>10. /\ \A o \in Payments \ {q} : given'[o] = given[o]
       /\ given'[q] = IF run[h].step = "refunded" THEN given[q] + Overpaid ELSE given[q]
       /\ given' \in [Payments -> Nat]
  BY <1>1 DEF Give, Overpaid, Purchased, Kept
<1>11. Alone' /\ inFlight' \subseteq inFlight
  <2>1. \A g \in Handlers \ {h} : Finalizing(g) => txn'[run[g].of] = txn[run[g].of]
    <3> SUFFICES ASSUME NEW g \in Handlers \ {h}, Finalizing(g)
                 PROVE  txn'[run[g].of] = txn[run[g].of]
      OBVIOUS
    <3>1. /\ Signed(g) /\ txn[run[g].of].good = run[g].good /\ run[g].of \in Payments
      BY AsksAt DEF Purchased, Alone, Finalizing, Signed, Carried
    <3>2. run[g].good # run[h].good
      BY <1>4, <3>1 DEF Purchased, Alone
    <3>3. run[g].of # q
      BY <1>4, <3>1, <3>2
    <3> QED BY <1>8, <3>1, <3>3
  <2>2. CASE Fails(h)
    BY <2>1, <2>2, AloneEnds
  <2>3. CASE Then(h, "accept") /\ inFlight' = inFlight
    <3>1. Goes(h, "accept")
      BY <2>3, ThenGoes
    <3>2. Shape(run[h]) => Shape(run'[h])
      BY <1>4, <3>1 DEF Shape, Goes
    <3> QED BY <2>1, <2>3, <3>1, <3>2, AloneGoes DEF Statuses
  <2> QED BY <2>2, <2>3
<1>12. Kept'
  <2>1. txn' \in [Payments -> Transactions \cup {None}]
    BY <1>6, <1>7 DEF Purchased, Kept
  <2>2. held' \in [Goods -> Payments \cup {None}]
    BY DEF Purchased, Kept
  <2> QED BY <1>10, <1>11, <2>1, <2>2 DEF Purchased, Kept
<1>13. Backed'
  <2> SUFFICES ASSUME NEW x \in Goods
               PROVE  /\ held'[x] # None => txn'[held'[x]] # None /\ txn'[held'[x]].good = x
                      /\ x \in accepted =>
                            \E o \in Payments : txn'[o] # None /\ txn'[o].good = x
    BY DEF Backed
  <2>1. held'[x] # None => held'[x] = held[x] /\ held[x] \in Payments
    BY <1>4 DEF Purchased, Kept
  <2>2. held[x] # None => txn[held[x]] # None /\ txn[held[x]].good = x
    BY DEF Purchased, Backed
  <2>3. x \in accepted => \E o \in Payments : txn[o] # None /\ txn[o].good = x
    BY DEF Purchased, Backed
  <2> QED BY <1>9, <2>1, <2>2, <2>3
<1>14. ASSUME NEW o \in Payments PROVE Paid(o)'
  <2>1. CASE method[o] = "x402"
    <3>1. Once(o) /\ One(o) /\ Buys(o) /\ Gives(o)
      BY <2>1 DEF Purchased, Paid, Row
    <3>2. \A g \in Handlers : /\ Of(g, o)' => /\ Of(g, o) /\ run'[g].kind = run[g].kind
                                              /\ run'[g].good = run[g].good
                                              /\ run'[g].step = "store raw" => run'[g] = run[g]
                              /\ Settled(g, o)' => Settled(g, o)
                              /\ Recorded(g, o)' => Recorded(g, o) /\ Of(g, o)'
      BY <1>4, <1>5, AnyGoes
    <3>3. Once(o)'
      BY <3>1, <3>2 DEF Once
    <3>4. One(o)'
      <4> SUFFICES ASSUME NEW g \in Handlers, Recorded(g, o)'
                   PROVE  /\ txn'[o] # None /\ txn'[o].kind = run'[g].kind
                          /\ txn'[o].good = run'[g].good
                          /\ \A f \in Handlers : Recorded(f, o)' => f = g
        BY DEF One
      <4>1. /\ Recorded(g, o) /\ run'[g].kind = run[g].kind /\ run'[g].good = run[g].good
            /\ \A f \in Handlers : Recorded(f, o)' => Recorded(f, o)
        BY <3>2
      <4>2. /\ txn[o] # None /\ txn[o].kind = run[g].kind /\ txn[o].good = run[g].good
            /\ \A f \in Handlers : Recorded(f, o) => f = g
        BY <3>1, <4>1 DEF One
      <4> QED BY <1>9, <4>1, <4>2
    <3>5. Buys(o)'
      BY <1>9, <3>1, <3>2 DEF Buys
    <3>6. Gives(o)'
      <4>1. CASE o # q
        BY <1>8, <1>10, <3>1, <3>2, <4>1 DEF Gives
      <4>2. CASE o = q
        <5>1. txn[q].good # None
          BY <1>4, X402Assumption DEF X402Assumption
        <5>2. txn[q].kind # "top-up" /\ money[q] = "paid"
          BY <1>4, <3>1, <4>2, <5>1 DEF Gives
        <5>3. txn[q].kind = "signed" => given'[q] <= Overpaid
          <6>1. txn[q].kind = "signed" => given[q] = 0
            BY <1>4, <3>1, <4>2 DEF Gives
          <6> QED BY <1>10, <6>1 DEF Overpaid
        <5>4. t.status # "pending_validation"
          BY <1>3, <1>6 DEF Statuses
        <5> QED BY <1>6, <1>8, <4>2, <5>2, <5>3, <5>4 DEF Gives
      <4> QED BY <4>1, <4>2
    <3> QED BY <2>1, <3>3, <3>4, <3>5, <3>6 DEF Paid, Row
  <2>2. CASE method[o] # "x402"
    <3>1. Idle(o) /\ o # q
      BY <1>4, <2>2 DEF Purchased, Paid, Idle
    <3> QED BY <1>8, <1>10, <2>2, <3>1 DEF Paid, Idle
  <2> QED BY <2>1, <2>2
<1> QED BY <1>11, <1>12, <1>13, <1>14 DEF Purchased

LEMMA FinalizePurchased ==
    ASSUME Typed, Purchased, NEW h \in Handlers, Asks(h), finalizeX402Payment(h)
    PROVE  Purchased'
<1>1. /\ run[h].step \in Statuses /\ method' = method /\ Finalizing(h)
      /\ UNCHANGED <<rows, money, accepted, bought, repeated, requests>>
  BY DEF finalizeX402Payment, Unchanged, Finalizing
<1>2. CASE /\ txn' = [txn EXCEPT ![run[h].of].status = run[h].step]
           /\ held' = [held EXCEPT ![run[h].good] = None]
           /\ IF run[h].step = "refunded" THEN Give(run[h].of, Overpaid) ELSE given' = given
           /\ Fails(h) \/ (Then(h, "accept") /\ inFlight' = inFlight)
  BY <1>1, <1>2, CommitPurchased
<1>3. CASE Then(h, "accept") /\ UNCHANGED <<txn, held, given, inFlight>>
  <2>1. run[h] \in Carried /\ Shape(run[h]) /\ run[h].kind = "signed"
    BY <1>1, AsksAt DEF Purchased, Alone
  <2>2. Recorded(h, run[h].p)
    BY <1>1, <2>1, AsksAt DEF Recorded, Settled, Statuses
  <2>3. /\ held' \in [Goods -> Payments \cup {None}]
        /\ \A x \in Goods : held'[x] # None => txn[held'[x]] # None /\ txn[held'[x]].good = x
    BY <1>3 DEF Purchased, Kept, Backed
  <2> QED BY <1>1, <1>3, <2>1, <2>2, <2>3, GoPurchased
<1> QED BY <1>2, <1>3 DEF finalizeX402Payment

LEMMA AcceptPurchased ==
    ASSUME Typed, Purchased, NEW h \in Handlers, Asks(h), acceptSignedItem(h)
    PROVE  Purchased'
<1>1. /\ At(h, "accept") /\ Fails(h) /\ method' = method
      /\ UNCHANGED <<rows, money, txn, held, given, repeated, requests>>
  BY DEF acceptSignedItem, Unchanged
<1>2. PICK p \in Payments : p = run[h].p /\ method[p] = "x402"
  BY AsksAt
<1>3. run[h] \in Carried /\ Shape(run[h])
  BY AsksAt DEF Purchased, Alone
<1>4. run[h].kind = "signed" /\ run[h].good \in Goods /\ Recorded(h, p) /\ Settled(h, p)
  BY <1>1, <1>2, <1>3, AsksAt DEF Shape, Carried, At, Recorded, Settled
<1>5. CASE UNCHANGED <<accepted, bought>>
  BY <1>1, <1>5, EndPurchased
<1>6. CASE accepted' = accepted \cup {run[h].good} /\ Bought(p)
  <2>1. Alone' /\ Ends(h) /\ inFlight' \subseteq inFlight
    BY <1>1, AloneEnds
  <2>2. /\ bought'[p] = bought[p] + 1 /\ \A o \in Payments \ {p} : bought'[o] = bought[o]
        /\ bought' \in [Payments -> Nat]
    BY <1>6 DEF Bought, Purchased, Kept
  <2>3. Kept'
    BY <1>1, <1>4, <1>6, <2>1, <2>2 DEF Purchased, Kept
  <2>4. Once(p) /\ One(p) /\ Buys(p) /\ Gives(p)
    BY <1>2 DEF Purchased, Paid, Row
  <2>5. Backed'
    <3>1. txn[p] # None /\ txn[p].good = run[h].good
      BY <1>4, <2>4 DEF One
    <3> QED BY <1>1, <1>6, <3>1 DEF Purchased, Backed
  <2>6. \A o \in Payments \ {p} : Paid(o)'
    BY <1>1, <1>2, <2>1, <2>2, PaidOther
  <2>7. Once(p)' /\ One(p)' /\ Buys(p)'
    BY <1>1, <1>2, <1>4, <2>1, <2>2, BoughtOnce
  <2>8. Gives(p)'
    <3>1. \A g \in Handlers : Recorded(g, p)' => g # h /\ Recorded(g, p)
      BY <1>1, <2>1, SelfEnds
    <3> QED BY <1>1, <2>4, <3>1 DEF Gives
  <2>9. Paid(p)'
    BY <1>1, <1>2, <2>7, <2>8 DEF Paid, Row
  <2> QED BY <2>1, <2>3, <2>5, <2>6, <2>9 DEF Purchased
<1> QED BY <1>2, <1>5, <1>6 DEF acceptSignedItem

LEMMA InsertPurchased ==
    ASSUME Typed, Purchased, NEW h \in Handlers, Asks(h), insertX402Payment(h)
    PROVE  Purchased'
<1>1. /\ At(h, "record") /\ run[h].kind = "raw" /\ method' = method
      /\ UNCHANGED <<money, txn, held, inFlight, accepted, bought, given, repeated, requests>>
  BY DEF insertX402Payment, Unchanged, Raw, Kind
<1>2. PICK p \in Payments : p = run[h].p /\ method[p] = "x402"
  BY AsksAt
<1>3. CASE End(h) /\ UNCHANGED rows
  BY <1>1, <1>3, EndPurchased
<1>4. CASE Move(p, {}, {"x402_payments"}) /\ Then(h, "store raw")
  <2>1. Goes(h, "store raw")
    BY <1>4, ThenGoes
  <2>2. Kept' /\ Backed'
    BY <1>1 DEF Purchased, Kept, Backed
  <2>3. Shape(run[h]) /\ run[h] \in Carried
    BY AsksAt DEF Purchased, Alone
  <2>4. Shape(run'[h])
    BY <1>1, <2>1, <2>3 DEF Shape, Goes
  <2>5. Alone'
    BY <1>1, <2>1, <2>4, AloneGoes DEF Statuses
  <2>6. /\ \A o \in Payments \ {p} : rows'[o] = rows[o]
        /\ "x402_payments" \in rows'[p]
    BY <1>4 DEF Move, Typed
  <2>7. \A o \in Payments \ {p} : Paid(o)'
    BY <1>1, <1>2, <2>1, <2>6, PaidOther
  <2>8. Once(p) /\ One(p) /\ Buys(p) /\ Gives(p) /\ Settled(h, p)
    BY <1>1, <1>2 DEF Purchased, Paid, Row, Settled, Of, At
  <2>9. \A g \in Handlers : /\ Settled(g, p)' => Settled(g, p)
                            /\ Recorded(g, p)' => g # h /\ Recorded(g, p) /\ run'[g] = run[g]
    <3>1. /\ \A g \in Handlers \ {h} : /\ Of(g, p)' => run'[g] = run[g] /\ Of(g, p)
                                       /\ Settled(g, p)' => Settled(g, p)
                                       /\ Recorded(g, p)' => Recorded(g, p)
          /\ Of(h, p) /\ run'[h].kind = run[h].kind /\ run'[h].good = run[h].good
          /\ run'[h].step = "store raw"
          /\ Recorded(h, p)' => /\ "store raw" \notin {"verify", "settle", "record"}
                                /\ run[h].kind # "raw"
      <4>1. method' = method /\ p = run[h].p
        BY <1>1, <1>2
      <4> QED BY <2>1, <4>1, SelfGoes
    <3>2. \A g \in Handlers : Recorded(g, p)' => Of(g, p)'
      BY DEF Recorded, Settled
    <3> QED BY <1>1, <2>8, <3>1, <3>2
  <2>10. Once(p)'
    BY <1>1, <2>8, <2>9 DEF Once
  <2>11. One(p)'
    BY <1>1, <2>8, <2>9 DEF One
  <2>12. Buys(p)'
    BY <2>6 DEF Buys
  <2>13. Gives(p)'
    BY <1>1, <2>8, <2>9 DEF Gives
  <2>14. Paid(p)'
    BY <1>1, <1>2, <2>10, <2>11, <2>12, <2>13 DEF Paid, Row
  <2> QED BY <2>2, <2>5, <2>7, <2>14 DEF Purchased
<1> QED BY <1>2, <1>3, <1>4 DEF insertX402Payment

LEMMA StorePurchased ==
    ASSUME Typed, Purchased, NEW h \in Handlers, Asks(h), storeRawDataItem(h)
    PROVE  Purchased'
<1>1. /\ At(h, "store raw") /\ End(h) /\ method' = method
      /\ UNCHANGED <<rows, money, txn, held, inFlight, accepted, given, repeated, requests>>
  BY DEF storeRawDataItem, Unchanged
<1>2. PICK p \in Payments : p = run[h].p /\ method[p] = "x402"
  BY AsksAt
<1>3. CASE UNCHANGED bought
  BY <1>1, <1>3, EndPurchased
<1>4. CASE Bought(p)
  <2>1. Alone' /\ Ends(h)
    BY <1>1, AloneEnds
  <2>2. /\ bought'[p] = bought[p] + 1 /\ \A o \in Payments \ {p} : bought'[o] = bought[o]
        /\ bought' \in [Payments -> Nat]
    BY <1>4 DEF Bought, Purchased, Kept
  <2>3. Kept' /\ Backed'
    BY <1>1, <2>2 DEF Purchased, Kept, Backed
  <2>4. One(p) /\ Buys(p) /\ Gives(p) /\ Settled(h, p) /\ Of(h, p)
    BY <1>1, <1>2 DEF Purchased, Paid, Row, Settled, Of, At
  <2>5. "x402_payments" \in rows[p]
    BY <1>1, <2>4 DEF Buys, At
  <2>6. \A o \in Payments \ {p} : Paid(o)'
    BY <1>1, <1>2, <2>1, <2>2, PaidOther
  <2>7. Once(p)' /\ One(p)' /\ Buys(p)'
    BY <1>1, <1>2, <2>1, <2>2, <2>4, <2>5, BoughtOnce
  <2>8. Gives(p)'
    <3>1. \A g \in Handlers : Recorded(g, p)' => g # h /\ Recorded(g, p)
      BY <1>1, <2>1, SelfEnds
    <3> QED BY <1>1, <2>4, <3>1 DEF Gives
  <2>9. Paid(p)'
    BY <1>1, <1>2, <2>7, <2>8 DEF Paid, Row
  <2> QED BY <2>1, <2>3, <2>6, <2>9 DEF Purchased
<1> QED BY <1>2, <1>3, <1>4 DEF storeRawDataItem

LEMMA ExpirePurchased ==
    ASSUME Typed, Purchased, NEW x \in Goods, ExpireMark(x)
    PROVE  Purchased'
<1>1. /\ inFlight' = inFlight \ {x} /\ run' = run
      /\ UNCHANGED <<method, looks, rows, money, txn, held, accepted, bought, given, repeated, requests>>
      /\ \A h \in Handlers : run[h] # None => run[h].kind # "signed" \/ run[h].good # x
  BY DEF ExpireMark, Unchanged, Kind
<1>2. \A h \in Handlers : Signed(h)' => run[h].good \in inFlight'
  BY <1>1 DEF Signed, Asks, Purchased, Alone
<1> QED BY <1>1, <1>2, LessPurchased

LEMMA X402StepPurchased ==
    ASSUME Typed, Purchased, NEW h \in Handlers, X402Step(h)
    PROVE  Purchased'
<1>1. Asks(h)
  BY X402StepTyped DEF Asks
<1>2. CASE verifyPayment(h) \/ rawVerifyPayment(h)
  BY <1>1, <1>2, VerifyPurchased DEF verifyPayment, rawVerifyPayment
<1>3. CASE settlePayment(h) \/ rawSettlePayment(h)
  BY <1>1, <1>3, SettlePurchased DEF settlePayment, rawSettlePayment
<1> QED BY <1>1, <1>2, <1>3, RecordPurchased, ReservePurchased, TopUpPurchased, ReceivePurchased,
           FoundPurchased, FinalizePurchased, AcceptPurchased, InsertPurchased, StorePurchased
        DEF X402Step

LEMMA NextPurchased == ASSUME Typed, Purchased, [X402Next]_x402Vars PROVE Purchased'
<1>1. CASE NamesNext /\ UNCHANGED x402
  BY <1>1, NamesApart, ApartPurchased
<1>2. ASSUME NEW h \in Handlers, Die(h) PROVE Purchased'
  <2>1. /\ Asks(h) /\ End(h) /\ method' = method
        /\ UNCHANGED <<rows, money, txn, held, inFlight, accepted, bought, given, repeated,
                       requests>>
    BY <1>2 DEF Die, Asks, Unchanged, x402
  <2> QED BY <2>1, EndPurchased
<1>3. CASE UNCHANGED x402Vars
  <2>1. Apart /\ UNCHANGED x402
    BY <1>3 DEF Apart, x402Vars, allVars, vars
  <2> QED BY <2>1, ApartPurchased
<1> QED BY <1>1, <1>2, <1>3, X402StepPurchased, AsksPurchased, ExpirePurchased DEF X402Next

LEMMA PurchasedAlways == X402Spec => [](Typed /\ Purchased)
<1>1. X402Init => Typed /\ Purchased
  BY InitTyped, InitPurchased
<1>2. Typed /\ Purchased /\ [X402Next]_x402Vars => (Typed /\ Purchased)'
  BY NextTyped, NextPurchased
<1> QED BY <1>1, <1>2, PTL DEF X402Spec

(***************************************************************************)
(* The theorems.                                                           *)
(***************************************************************************)
\* Whatever requests carry an authorization, at once or again, to either service, and
\* whatever fails, it buys one thing: its transaction hash is unique in
\* x402_payment_transaction (createX402Payment), and only x402_payments takes it again,
\* of a facilitator that answered for it twice.
THEOREM OnePurchaseAlways == X402Spec => []OnePurchase
<1>1. Typed /\ Purchased => OnePurchase
  <2> SUFFICES ASSUME Typed, Purchased, NEW p \in Payments
               PROVE  bought[p] <= 1 \/ (p \in repeated /\ "x402_payments" \in rows[p])
    BY DEF OnePurchase
  <2>1. CASE method[p] = "x402"
    BY <2>1 DEF Purchased, Paid, Row, Once, Buys
  <2>2. CASE method[p] # "x402"
    BY <2>2 DEF Purchased, Paid, Idle
  <2> QED BY <2>1, <2>2
<1> QED BY <1>1, PurchasedAlways, PTL

\* No authorization gives more credits than it paid, and one that was not settled gives
\* none, although x402FinalizeRoute looks a payment up by its good and locks nothing: the
\* mark of an item in flight keeps two finalizations of it apart.
THEOREM CreditsWithinPaymentAlways == X402Spec => []CreditsWithinPayment
<1>1. Typed /\ Purchased => CreditsWithinPayment
  <2> SUFFICES ASSUME Typed, Purchased, NEW p \in Payments
               PROVE  /\ given[p] > 0 => money[p] = "paid"
                      /\ given[p] > Full => txn[p].kind = "hybrid"
    BY DEF CreditsWithinPayment
  <2>1. CASE method[p] = "x402"
    <3>1. Gives(p) /\ given[p] \in Nat /\ txn[p] \in Transactions \cup {None}
      BY <2>1 DEF Purchased, Paid, Row, Kept
    <3>2. CASE txn[p] = None
      <4>1. given[p] = 0
        BY <3>1, <3>2 DEF Gives
      <4> QED BY <4>1 DEF Full
    <3>3. CASE txn[p] # None
      <4>1. money[p] = "paid" /\ txn[p].kind \in {"top-up", "hybrid", "signed"}
        BY <3>1, <3>3 DEF Gives, Transactions
      <4>2. txn[p].kind # "hybrid" => given[p] <= 4
        BY <3>1, <3>3, <4>1 DEF Gives, Full, Overpaid
      <4> QED BY <3>1, <4>1, <4>2 DEF Full
    <3> QED BY <3>2, <3>3
  <2>2. CASE method[p] # "x402"
    BY <2>2 DEF Purchased, Paid, Idle, Full
  <2> QED BY <2>1, <2>2
<1> QED BY <1>1, PurchasedAlways, PTL

\* Every variable of x402 has its type, and what is recorded, reserved or accepted was
\* settled for: nothing is bought on the word of a request alone.
THEOREM X402Typed == X402Spec => []X402TypeOK
<1>1. Typed /\ Purchased => X402TypeOK
  <2> SUFFICES ASSUME Typed, Purchased PROVE X402TypeOK
    OBVIOUS
  <2>1. \A p \in Payments : txn[p] # None => money[p] = "paid"
    BY DEF Purchased, Paid, Row, Gives, Idle
  <2> QED BY <2>1 DEF X402TypeOK, Purchased, Kept, Backed
<1> QED BY <1>1, PurchasedAlways, PTL

(***************************************************************************)
(* A payment is credited or given back, not both, and a name is kept or    *)
(* refunded, not both, while at most one thing went wrong: a repeated      *)
(* event, a failed call, a wrong answer or a crash.  A delivery on its way *)
(* to a refund knows that no receipt exists, and none can come: the quote  *)
(* is gone or expired, or the one trouble there was is behind and nobody   *)
(* is left who might still turn the quote into a receipt.                  *)
(***************************************************************************)
On(h, p) == run[h] # None /\ run[h].p = p
OnAt(h, p, s) == On(h, p) /\ run[h].step = s
Paper(p) == In(p, "payment_receipt") \/ In(p, "chargeback_receipt")
Over(p) ==
    \/ ~In(p, "top_up_quote") \/ p \in stale
    \/ troubles > 0 /\ \A h \in Handlers : ~OnAt(h, p, "create")
Refused(p) == p \in events /\ ~Paper(p) /\ Over(p)

Deliveries(p) ==
    /\ troubles = 0 => \A g, h \in Handlers : OnAt(g, p, "create") /\ OnAt(h, p, "create") => g = h
    /\ \A h \in Handlers : /\ OnAt(h, p, "create") => p \in events
                           /\ OnAt(h, p, "check") => Paper(p) \/ Refused(p)
                           /\ OnAt(h, p, "refund") => Refused(p)
    /\ p \in events => Paper(p) \/ Over(p) \/ \E h \in Handlers : OnAt(h, p, "create")
Taken(p) ==
    /\ money[p] \in {"unpaid", "paid", "returned", "disputed"}
    /\ money[p] = "unpaid" => p \notin events /\ ~Paper(p)
    /\ money[p] = "returned" => Refused(p)
    /\ money[p] = "disputed" => /\ p \in events /\ ~In(p, "payment_receipt")
                                /\ In(p, "chargeback_receipt") \/ Refused(p)
    /\ SetAside(p) => Paper(p)

\* A transaction is credited by who saw it confirmed, which it stays.
Confirmed(p) ==
    credited[p] = 1 \/ (\E h \in Handlers : OnAt(h, p, "credit") \/ OnAt(h, p, "job credit"))
        => money[p] = "paid"

\* One request buys a name, and only it writes to the chain; what may refund the name runs
\* when it is done and the name, whose ANT is known, did not land.
NotRefundable(p) == p \notin stale /\ <<"refund", p>> \notin jobs
Request(h, p) ==
    /\ NotRefundable(p) /\ \A g \in Handlers : On(g, p) => g = h
    /\ run[h].step \in {"spawn", "write"} => Receipt(p) /\ p \notin landed
    /\ run[h].step = "write" => p \in antKnown
    /\ run[h].step = "threw" /\ p \in landed => troubles > 0
    /\ run[h].step = "not bought" => p \notin landed
Name(p) ==
    /\ rows[p] = {} => p \notin landed /\ NotRefundable(p) /\ \A h \in Handlers : ~On(h, p)
    /\ intent[p] = "own" /\ rows[p] # {} => p \in antKnown
    /\ \A h \in Handlers : On(h, p) => Request(h, p)
    /\ <<"refund", p>> \in jobs => p \notin landed
    /\ p \in landed => Receipt(p) /\ p \in antKnown

OneWay(p) ==
    /\ method[p] \in {"card", "gift"} /\ ~Outdated(p) => Deliveries(p) /\ Taken(p)
    /\ method[p] = "crypto" => Confirmed(p)
    /\ method[p] = "name on credit" /\ intent[p] # "change" => Name(p)
OneWayEach == intent \in [Payments -> Intents] /\ \A p \in Payments : OneWay(p)

(***************************************************************************)
(* What a step leaves alone: all payments but its own.                     *)
(***************************************************************************)
Same(p) ==
    /\ rows'[p] = rows[p] /\ money'[p] = money[p] /\ credited'[p] = credited[p]
    /\ intent'[p] = intent[p] /\ (<<p, "outdated">> \in looks => <<p, "outdated">> \in looks')
    /\ (p \in events)' <=> p \in events
    /\ (p \in stale)' <=> p \in stale
    /\ (p \in landed)' <=> p \in landed
    /\ (p \in antKnown)' <=> p \in antKnown
    /\ (<<"refund", p>> \in jobs)' <=> <<"refund", p>> \in jobs
SameRun(p) == \A h \in Handlers : On(h, p) \/ On(h, p)' => run'[h] = run[h]

LEMMA SameKeeps ==
    ASSUME Typed, NEW p \in Payments, OneWay(p), method' = method, Same(p), SameRun(p),
           Trouble \/ NoTrouble
    PROVE  OneWay(p)'
<1>1. \A h \in Handlers : /\ On(h, p)' <=> On(h, p)
                          /\ On(h, p) => run'[h] = run[h]
  BY DEF SameRun, On
<1>2. \A h \in Handlers : \A s : OnAt(h, p, s)' <=> OnAt(h, p, s)
  BY <1>1 DEF OnAt
<1>3. /\ Paper(p)' <=> Paper(p)
      /\ \A t : In(p, t)' <=> In(p, t)
      /\ SetAside(p)' <=> SetAside(p)
      /\ Receipt(p)' <=> Receipt(p)
  BY DEF Same, Paper, In, SetAside, Receipt
<1>4. (troubles > 0 => troubles' > 0) /\ (troubles' = 0 => troubles = 0)
  BY PaymentsAssumption DEF Typed, Trouble, NoTrouble
<1>5. Over(p) => Over(p)'
  BY <1>2, <1>3, <1>4 DEF Over, Same
<1>6. Refused(p) => Refused(p)'
  BY <1>3, <1>5 DEF Refused, Same
<1>7. CASE method[p] \in {"card", "gift"} /\ ~Outdated(p)
  <2>1. Deliveries(p)'
    BY <1>2, <1>3, <1>4, <1>5, <1>6, <1>7 DEF OneWay, Deliveries, Same
  <2>2. Taken(p)'
    BY <1>3, <1>6, <1>7 DEF OneWay, Taken, Same
  <2> QED BY <1>7, <2>1, <2>2 DEF OneWay
<1>10. CASE method[p] \in {"card", "gift"} /\ Outdated(p)
  <2>1. Outdated(p)'
    BY <1>10 DEF Outdated, Same
  <2> QED BY <1>10, <2>1 DEF OneWay
<1>8. CASE method[p] = "crypto"
  BY <1>2, <1>8 DEF OneWay, Confirmed, Same
<1>9. CASE method[p] = "name on credit" /\ intent[p] # "change"
  <2>1. Name(p)
    BY <1>9 DEF OneWay
  <2>2. ASSUME NEW h \in Handlers, On(h, p)' PROVE Request(h, p)'
    <3>1. Request(h, p) /\ run'[h] = run[h] /\ On(h, p)
      BY <1>1, <2>1, <2>2 DEF Name
    <3> QED BY <1>1, <1>3, <1>4, <3>1 DEF Request, NotRefundable, Same
  <2>3. Name(p)'
    BY <1>1, <1>3, <2>1, <2>2 DEF Name, NotRefundable, Same
  <2> QED BY <1>9, <2>3 DEF OneWay, Same
<1> QED BY <1>7, <1>8, <1>9, <1>10 DEF OneWay, Same

LEMMA OthersKeep ==
    ASSUME Typed, OneWayEach, method' = method, Trouble \/ NoTrouble, intent' = intent,
           NEW p \in Payments, OneWay(p)', \A q \in Payments \ {p} : Same(q) /\ SameRun(q)
    PROVE  OneWayEach'
BY SameKeeps DEF OneWayEach

LEMMA AllKeep ==
    ASSUME Typed, OneWayEach, method' = method, Trouble \/ NoTrouble, intent' = intent,
           \A q \in Payments : Same(q) /\ SameRun(q)
    PROVE  OneWayEach'
BY SameKeeps DEF OneWayEach

\* A handler works on one payment, and stays with it.
LEMMA RunsApart ==
    ASSUME Typed, NEW h \in Handlers, run[h] # None, method' = method,
           \/ End(h) \/ \E s \in Steps : Then(h, s)
           \/ method[run[h].p] = "x402" /\ \E q \in Payments : Finalizes(h, q)
    PROVE  \A q \in Payments \ {run[h].p} : SameRun(q)
<1>1. \A g \in Handlers \ {h} : run'[g] = run[g]
  <2>1. CASE End(h)
    BY <2>1, EndRuns DEF Typed
  <2>2. CASE \E s \in Steps : Then(h, s)
    BY <2>2 DEF Then, Typed, Runs
  <2>3. CASE method[run[h].p] = "x402" /\ \E q \in Payments : Finalizes(h, q)
    BY <2>3, FinalizesRuns
  <2> QED BY <2>1, <2>2, <2>3
<1>2. run'[h] = None \/ run'[h].p = run[h].p
  <2>1. CASE End(h)
    BY <2>1, EndRuns DEF Typed
  <2>2. ASSUME NEW s \in Steps, Then(h, s) PROVE run'[h].p = run[h].p
    <3>1. run[h] \in Plain \cup Carried
      BY DEF Typed, Runs
    <3>2. [run[h] EXCEPT !.step = s].p = run[h].p
      BY <3>1 DEF Plain, Carried
    <3>3. run' = [run EXCEPT ![h] = [run[h] EXCEPT !.step = s]]
      BY <2>2 DEF Then
    <3> QED BY <3>2, <3>3 DEF Typed, Runs
  <2>3. CASE method[run[h].p] = "x402" /\ \E q \in Payments : Finalizes(h, q)
    BY <2>3, FinalizesRuns
  <2> QED BY <2>1, <2>2, <2>3
<1> QED BY <1>1, <1>2 DEF SameRun, On

LEMMA BeginsAlone ==
    ASSUME Typed, NEW h \in Handlers, NEW p \in Payments, NEW s, Begin(h, p, s)
    PROVE  /\ \A q \in Payments \ {p} : SameRun(q)
           /\ run'[h] = [p |-> p, step |-> s] /\ run'[h].p = p /\ run'[h].step = s
           /\ \A g \in Handlers \ {h} : run'[g] = run[g]
<1>1. /\ run'[h] = [p |-> p, step |-> s] /\ run[h] = None
      /\ \A g \in Handlers \ {h} : run'[g] = run[g]
  BY DEF Begin, Typed, Runs
<1>2. run'[h].p = p /\ run'[h].step = s
  <2>1. [p |-> p, step |-> s].p = p /\ [p |-> p, step |-> s].step = s
    OBVIOUS
  <2> QED BY <1>1, <2>1
<1>3. ASSUME NEW q \in Payments \ {p} PROVE SameRun(q)
  <2>1. ~On(h, q) /\ ~On(h, q)'
    BY <1>1, <1>2 DEF On
  <2> QED BY <1>1, <2>1 DEF SameRun
<1> QED BY <1>1, <1>2, <1>3

(***************************************************************************)
(* Payments that have nothing to keep here: names by card, x402, nothing.  *)
(***************************************************************************)
LEMMA Trivial ==
    ASSUME NEW p \in Payments, method' = method, method[p] \in {"name", "x402", "nothing"}
    PROVE  OneWay(p)'
BY DEF OneWay

(***************************************************************************)
(* Card payments and gifts.                                                *)
(***************************************************************************)
\* A step of its own may make a receipt, expire a quote or be the one trouble.
LEMMA CardKeeps ==
    ASSUME NEW p \in Payments, method' = method, method[p] \in {"card", "gift"},
           Deliveries(p)', Taken(p)'
    PROVE  OneWay(p)'
BY DEF OneWay

LEMMA CardOf ==
    ASSUME Typed, Accounts, OneWayEach, NEW p \in Payments, ~Outdated(p),
           method[p] \in {"card", "gift"}
    PROVE  /\ Deliveries(p) /\ Taken(p)
           /\ ~(In(p, "top_up_quote") /\ Paper(p))
           /\ ~(In(p, "payment_receipt") /\ In(p, "chargeback_receipt"))
BY DEF OneWayEach, OneWay, Accounts, Books, Paper

LEMMA OutsideCard ==
    ASSUME Typed, Accounts, OneWayEach, NEW p \in Payments, ~Outdated(p),
           method[p] \in {"card", "gift"},
           topUp(p) \/ Pay(p) \/ Age(p) \/ handleDisputeCreatedEvent(p)
    PROVE  OneWay(p)'
<1>1. /\ UNCHANGED <<method, run, events, troubles>>
      /\ Deliveries(p) /\ Taken(p)
      /\ ~(In(p, "top_up_quote") /\ Paper(p))
      /\ ~(In(p, "payment_receipt") /\ In(p, "chargeback_receipt"))
  BY CardOf DEF topUp, Pay, Age, handleDisputeCreatedEvent
<1>2. \A h \in Handlers : \A s : OnAt(h, p, s)' <=> OnAt(h, p, s)
  BY <1>1 DEF OnAt, On
<1>3. CASE topUp(p)
  <2>1. rows'[p] = {"top_up_quote"} /\ rows[p] = {} /\ money[p] = "unpaid" /\ money' = money
    BY <1>3 DEF topUp, Move, Typed
  <2>2. ~Paper(p) /\ ~Paper(p)' /\ ~SetAside(p)' /\ p \notin events
    BY <1>1, <2>1 DEF Paper, In, SetAside, Taken
  <2>3. Deliveries(p)'
    BY <1>1, <1>2, <2>2 DEF Deliveries, Refused
  <2>4. Taken(p)'
    BY <1>1, <2>1, <2>2 DEF Taken
  <2> QED BY <1>1, <2>3, <2>4, CardKeeps
<1>4. CASE Pay(p)
  <2>1. rows' = rows /\ stale' = stale /\ money'[p] = "paid"
    BY <1>1, <1>4 DEF Pay, Taken, Typed
  <2>2. /\ Paper(p)' <=> Paper(p)
        /\ Over(p)' <=> Over(p)
        /\ Refused(p)' <=> Refused(p)
        /\ SetAside(p)' <=> SetAside(p)
    BY <1>1, <1>2, <2>1 DEF Paper, Over, Refused, In, SetAside
  <2>3. Deliveries(p)'
    BY <1>1, <1>2, <2>2 DEF Deliveries
  <2>4. Taken(p)'
    BY <1>1, <2>1, <2>2 DEF Taken
  <2> QED BY <1>1, <2>3, <2>4, CardKeeps
<1>5. CASE Age(p)
  <2>1. rows' = rows /\ stale' = stale \cup {p} /\ money' = money
    BY <1>5 DEF Age
  <2>2. /\ Paper(p)' <=> Paper(p)
        /\ \A t : In(p, t)' <=> In(p, t)
        /\ Over(p)'
        /\ Refused(p) => Refused(p)'
        /\ SetAside(p)' <=> SetAside(p)
    BY <1>1, <1>2, <2>1 DEF Paper, Over, Refused, In, SetAside
  <2>3. Deliveries(p)'
    BY <1>1, <1>2, <2>2 DEF Deliveries
  <2>4. Taken(p)'
    BY <1>1, <2>1, <2>2 DEF Taken
  <2> QED BY <1>1, <2>3, <2>4, CardKeeps
<1>6. CASE handleDisputeCreatedEvent(p)
  <2>1. /\ money'[p] = "disputed" /\ p \in events /\ stale' = stale
        /\ \A h \in Handlers : \A s : ~OnAt(h, p, s)
        /\ rows'[p] = IF In(p, "payment_receipt")
                      THEN (rows[p] \ {"payment_receipt"}) \cup {"chargeback_receipt"}
                      ELSE rows[p]
    BY <1>6 DEF handleDisputeCreatedEvent, Move, Typed, Resting, OnAt, On, In
  <2>2. /\ Paper(p)' <=> Paper(p)
        /\ ~In(p, "payment_receipt")'
        /\ In(p, "top_up_quote")' <=> In(p, "top_up_quote")
        /\ SetAside(p)' <=> SetAside(p)
    BY <2>1 DEF Paper, In, SetAside
  <2>3. Over(p)' <=> Over(p)
    BY <1>1, <1>2, <2>1, <2>2 DEF Over
  <2>4. Refused(p)' <=> Refused(p)
    BY <1>1, <2>2, <2>3 DEF Refused
  <2>5. Paper(p) \/ Refused(p)
    BY <1>1, <2>1 DEF Deliveries, Refused
  <2>6. Deliveries(p)'
    BY <1>1, <1>2, <2>2, <2>3, <2>4 DEF Deliveries
  <2>7. In(p, "chargeback_receipt")' \/ Refused(p)'
    BY <2>2, <2>4, <2>5 DEF Paper
  <2>8. Taken(p)'
    BY <1>1, <2>1, <2>2, <2>7 DEF Taken
  <2> QED BY <1>1, <2>6, <2>8, CardKeeps
<1> QED BY <1>3, <1>4, <1>5, <1>6

LEMMA DeliveredCard ==
    ASSUME Typed, Accounts, OneWayEach, NEW p \in Payments, ~Outdated(p),
           method[p] \in {"card", "gift"},
           NEW h \in Handlers, handlePaymentSuccessEvent(h, p), troubles' <= 1
    PROVE  OneWay(p)'
<1>1. /\ UNCHANGED <<method, looks, rows, money, stale>> /\ events' = events \cup {p}
      /\ money[p] # "unpaid" /\ Deliveries(p) /\ Taken(p) /\ run[h] = None
  BY CardOf DEF handlePaymentSuccessEvent, Begin
<1>2. run'[h] = [p |-> p, step |-> "create"] /\ \A g \in Handlers \ {h} : run'[g] = run[g]
  <2>1. Begin(h, p, "create")
    BY DEF handlePaymentSuccessEvent, Card
  <2> QED BY <2>1, BeginsAlone
<1>3. /\ \A g \in Handlers \ {h} : \A s : OnAt(g, p, s)' <=> OnAt(g, p, s)
      /\ \A s : ~OnAt(h, p, s) /\ (OnAt(h, p, s)' => s = "create")
  <2>1. run'[h].step = "create"
    BY <1>2
  <2> QED BY <1>1, <1>2, <2>1 DEF OnAt, On
<1>4. /\ Paper(p)' <=> Paper(p)
      /\ \A t : In(p, t)' <=> In(p, t)
      /\ SetAside(p)' <=> SetAside(p)
  BY <1>1 DEF Paper, In, SetAside
<1>5. OnAt(h, p, "create")'
  <2>1. [p |-> p, step |-> "create"] \in [p : Payments, step : Starts]
    BY DEF Starts
  <2>2. run'[h].p = p /\ run'[h].step = "create" /\ run'[h] # None
    BY <1>2, <2>1, PaymentsAssumption
  <2> QED BY <2>2 DEF OnAt, On
<1>6. Refused(p) => Refused(p)'
  <2>1. ASSUME p \in events PROVE troubles = 0
    BY <2>1, PaymentsAssumption DEF handlePaymentSuccessEvent, Trouble, Typed
  <2> QED BY <1>1, <1>4, <2>1 DEF Refused, Over
<1>7. Deliveries(p)'
  <2>1. ASSUME troubles' = 0 PROVE p \notin events /\ troubles = 0
    BY <2>1, PaymentsAssumption DEF handlePaymentSuccessEvent, Trouble, NoTrouble, Typed
  <2>2. troubles' = 0 =>
          \A f, g \in Handlers : OnAt(f, p, "create")' /\ OnAt(g, p, "create")' => f = g
    BY <1>1, <1>3, <2>1 DEF Deliveries
  <2>3. \A g \in Handlers : /\ OnAt(g, p, "create")' => p \in events'
                            /\ OnAt(g, p, "check")' => Paper(p)' \/ Refused(p)'
                            /\ OnAt(g, p, "refund")' => Refused(p)'
    BY <1>1, <1>3, <1>4, <1>6 DEF Deliveries
  <2> QED BY <1>5, <2>2, <2>3 DEF Deliveries
<1>8. Taken(p)'
  BY <1>1, <1>4, <1>6 DEF Taken
<1> QED BY <1>1, <1>7, <1>8, CardKeeps

\* After its step a handler is at the step it went to, if it did not end.
LEMMA StepsOn ==
    ASSUME Typed, NEW h \in Handlers, run[h] # None, method' = method,
           NEW to \in Steps, End(h) \/ (Then(h, to) /\ Fit(method[run[h].p], to))
    PROVE  /\ \A g \in Handlers \ {h} : run'[g] = run[g]
           /\ run'[h] = None \/ (run'[h].p = run[h].p /\ run'[h].step = to)
BY EndRuns, ThenRuns DEF Typed

LEMMA ReceiptCard ==
    ASSUME Typed, Accounts, OneWayEach, NEW p \in Payments, ~Outdated(p),
           method[p] \in {"card", "gift"},
           NEW h \in Handlers, run[h].p = p, createPaymentReceipt(h), troubles' <= 1
    PROVE  OneWay(p)'
<1>1. /\ UNCHANGED <<method, looks, money, stale, events>> /\ OnAt(h, p, "create") /\ run[h] # None
      /\ Deliveries(p) /\ Taken(p)
      /\ ~(In(p, "top_up_quote") /\ Paper(p))
      /\ ~(In(p, "payment_receipt") /\ In(p, "chargeback_receipt"))
  BY CardOf DEF createPaymentReceipt, At, OnAt, On
<1>2. /\ \A g \in Handlers \ {h} : \A s : OnAt(g, p, s)' <=> OnAt(g, p, s)
      /\ \A s : OnAt(h, p, s)' => s = "check"
  <2>1. "check" \in Steps /\ Fit(method[p], "check") /\ (End(h) \/ Then(h, "check"))
    BY DEF Steps, Fit, createPaymentReceipt
  <2>2. /\ \A g \in Handlers \ {h} : run'[g] = run[g]
        /\ run'[h] = None \/ (run'[h].p = run[h].p /\ run'[h].step = "check")
    BY <1>1, <2>1, StepsOn
  <2> QED BY <2>2 DEF OnAt, On
<1>3. p \in events /\ money[p] # "unpaid"
  BY <1>1 DEF Deliveries, Taken
<1>4. CASE "top_up_quote" \in rows[p] /\ p \notin stale /\ End(h)
           /\ Move(p, {"top_up_quote"}, {"payment_receipt"} \cup
                  (IF method[p] = "gift" THEN {"unredeemed_gift"} ELSE {}))
  <2>1. rows'[p] = (rows[p] \ {"top_up_quote"}) \cup {"payment_receipt"} \cup
                      (IF method[p] = "gift" THEN {"unredeemed_gift"} ELSE {})
    BY <1>4 DEF Move, Typed
  <2>2. ~Refused(p)
    BY <1>1, <1>4 DEF Refused, Over, In
  <2>3. money[p] = "paid"
    BY <1>1, <1>3, <1>4, <2>2 DEF Taken, In, Paper
  <2>4. Paper(p)'
    BY <2>1 DEF Paper, In
  <2>5. \A f \in Handlers : OnAt(f, p, "create")' => OnAt(f, p, "create")
    BY <1>2
  <2>6. troubles' = 0 => troubles = 0
    BY PaymentsAssumption DEF createPaymentReceipt, Trouble, NoTrouble, Typed
  <2>7. \A f \in Handlers : ~OnAt(f, p, "refund")'
    BY <1>1, <1>2, <2>2 DEF Deliveries
  <2>8. Deliveries(p)'
    BY <1>1, <1>3, <2>4, <2>5, <2>6, <2>7 DEF Deliveries
  <2>9. Taken(p)'
    BY <1>1, <2>3, <2>4 DEF Taken
  <2> QED BY <1>1, <2>8, <2>9, CardKeeps
<1>5. CASE /\ IF "top_up_quote" \in rows[p] /\ p \notin stale THEN Trouble ELSE NoTrouble
           /\ Then(h, "check") /\ UNCHANGED <<rows, credited>>
  <2>1. /\ Paper(p)' <=> Paper(p)
        /\ \A t : In(p, t)' <=> In(p, t)
        /\ SetAside(p)' <=> SetAside(p)
    BY <1>5 DEF Paper, In, SetAside
  <2>2. \A f \in Handlers : OnAt(f, p, "create")' => OnAt(f, p, "create") /\ f # h
    BY <1>2
  <2>3. (troubles > 0 => troubles' > 0) /\ (troubles' = 0 => troubles = 0)
    BY <1>5, PaymentsAssumption DEF Trouble, NoTrouble, Typed
  <2>4. Over(p)'
    <3>1. CASE In(p, "top_up_quote") /\ p \notin stale
      <4>1. troubles = 0 /\ troubles' > 0
        BY <1>5, <3>1, PaymentsAssumption DEF Trouble, Typed, In
      <4>2. \A f \in Handlers : ~OnAt(f, p, "create")'
        BY <1>1, <2>2, <4>1 DEF Deliveries
      <4> QED BY <4>1, <4>2 DEF Over
    <3>2. CASE ~(In(p, "top_up_quote") /\ p \notin stale)
      BY <1>1, <2>1, <3>2 DEF Over
    <3> QED BY <3>1, <3>2
  <2>5. Refused(p) => Refused(p)'
    BY <1>1, <2>1, <2>4 DEF Refused
  <2>6. Paper(p)' \/ Refused(p)'
    BY <1>1, <1>3, <2>1, <2>4 DEF Refused
  <2>7. Deliveries(p)'
    <3>1. \A f \in Handlers : OnAt(f, p, "refund")' => Refused(p)'
      BY <1>1, <1>2, <2>5 DEF Deliveries
    <3> QED BY <1>1, <1>3, <2>2, <2>3, <2>4, <2>6, <3>1 DEF Deliveries
  <2>8. Taken(p)'
    BY <1>1, <2>1, <2>5 DEF Taken
  <2> QED BY <1>1, <2>7, <2>8, CardKeeps
<1> QED BY <1>4, <1>5 DEF createPaymentReceipt

\* Steps that leave the rows, or only redeem a gift: who was refused stays so.
Going(p) ==
    /\ \A t \in {"top_up_quote", "payment_receipt", "chargeback_receipt"} :
           In(p, t)' <=> In(p, t)
    /\ SetAside(p)' => SetAside(p)
    /\ \A g \in Handlers : OnAt(g, p, "create")' <=> OnAt(g, p, "create")
    /\ \A g \in Handlers : OnAt(g, p, "check")' => OnAt(g, p, "check")
    /\ \A g \in Handlers : OnAt(g, p, "refund")' => OnAt(g, p, "refund") \/ Refused(p)
    /\ money'[p] = money[p] \/ (money'[p] = "returned" /\ Refused(p))
LEMMA GoingCard ==
    ASSUME Typed, Accounts, OneWayEach, NEW p \in Payments, ~Outdated(p),
           method[p] \in {"card", "gift"},
           UNCHANGED <<method, stale, events>>, Trouble \/ NoTrouble, Going(p)
    PROVE  OneWay(p)'
<1> USE DEF Going
<1>1. /\ Deliveries(p) /\ Taken(p)
      /\ Paper(p)' <=> Paper(p)
      /\ (troubles > 0 => troubles' > 0) /\ (troubles' = 0 => troubles = 0)
  BY CardOf, PaymentsAssumption DEF Paper, Trouble, NoTrouble, Typed
<1>2. Over(p) => Over(p)'
  BY <1>1 DEF Over
<1>3. Refused(p) => Refused(p)'
  BY <1>1, <1>2 DEF Refused
<1>4. Deliveries(p)'
  BY <1>1, <1>2, <1>3 DEF Deliveries
<1>5. Taken(p)'
  BY <1>1, <1>3 DEF Taken, Refused
<1> QED BY <1>4, <1>5, CardKeeps

LEMMA HandlerCard ==
    ASSUME Typed, Accounts, OneWayEach, NEW p \in Payments, ~Outdated(p),
           method[p] \in {"card", "gift"},
           NEW h \in Handlers, run[h].p = p,
           checkForExistingPaymentByTopUpQuoteId(h) \/ refundPayment(h) \/ RedeemCommit(h),
           ~Outdated(p)'
    PROVE  OneWay(p)'
<1>1. /\ UNCHANGED <<method, stale, events>> /\ (Trouble \/ NoTrouble) /\ run[h] # None
      /\ End(h) \/ Then(h, "refund")
      /\ OnAt(h, p, "check") \/ OnAt(h, p, "refund") \/ OnAt(h, p, "redeem")
  BY DEF At, OnAt, On, NoTrouble, Still, checkForExistingPaymentByTopUpQuoteId, refundPayment,
         RedeemCommit
<1>2. /\ \A g \in Handlers \ {h} : \A s : OnAt(g, p, s)' <=> OnAt(g, p, s)
      /\ \A s : OnAt(h, p, s)' => s = "refund"
  <2>1. "refund" \in Steps /\ Fit(method[run[h].p], "refund")
    BY DEF Steps, Fit
  <2>2. method' = method /\ run[h] # None /\ (End(h) \/ Then(h, "refund"))
    BY <1>1
  <2>3. /\ \A g \in Handlers \ {h} : run'[g] = run[g]
        /\ run'[h] = None \/ (run'[h].p = run[h].p /\ run'[h].step = "refund")
    BY <2>1, <2>2, StepsOn
  <2> QED BY <2>3 DEF OnAt, On
<1>3. /\ \A g \in Handlers : OnAt(g, p, "create")' <=> OnAt(g, p, "create")
      /\ \A g \in Handlers : OnAt(g, p, "check")' => OnAt(g, p, "check")
  BY <1>1, <1>2 DEF OnAt
<1> USE DEF checkForExistingPaymentByTopUpQuoteId, refundPayment, RedeemCommit
<1>4. \A g \in Handlers : OnAt(g, p, "refund")' => OnAt(g, p, "refund") \/ Refused(p)
  <2>1. CASE checkForExistingPaymentByTopUpQuoteId(h)
    <3>1. OnAt(h, p, "check")
      BY <2>1 DEF At, OnAt, On
    <3>2. CASE Paper(p)
      <4>1. End(h)
        BY <2>1, <3>2 DEF Paper, In, Outdated
      <4>2. ~OnAt(h, p, "refund")'
        BY <4>1, EndRuns, <1>1 DEF Typed, OnAt, On
      <4> QED BY <1>2, <4>2
    <3>3. CASE ~Paper(p)
      BY <1>2, <3>1, <3>3, CardOf DEF Deliveries
    <3> QED BY <3>2, <3>3
  <2>2. CASE End(h)
    <3>1. ~OnAt(h, p, "refund")'
      BY <2>2, EndRuns, <1>1 DEF Typed, OnAt, On
    <3> QED BY <1>2, <3>1
  <2> QED BY <2>1, <2>2
<1>5. money'[p] = money[p] \/ (money'[p] = "returned" /\ Refused(p))
  <2>1. CASE refundPayment(h)
    <3>1. OnAt(h, p, "refund")
      BY <2>1 DEF At, OnAt, On
    <3>2. Refused(p)
      BY <3>1, CardOf DEF Deliveries
    <3> QED BY <2>1, <3>2 DEF Typed
  <2> QED BY <2>1
<1>6. /\ \A t \in {"top_up_quote", "payment_receipt", "chargeback_receipt"} : In(p, t)' <=> In(p, t)
      /\ SetAside(p)' => SetAside(p)
  <2>1. CASE RedeemCommit(h) /\ ~UNCHANGED rows
    <3>1. rows'[p] = (rows[p] \ {"unredeemed_gift"}) \cup {"redeemed_gift"}
      BY <2>1 DEF Move, Typed
    <3>2. SetAside(p)
      BY <2>1 DEF Accounts, At
    <3> QED BY <3>1, <3>2 DEF In
  <2>2. CASE UNCHANGED rows
    BY <2>2 DEF In, SetAside
  <2> QED BY <2>1, <2>2
<1> HIDE DEF checkForExistingPaymentByTopUpQuoteId, refundPayment, RedeemCommit
<1>7. UNCHANGED <<method, stale, events>> /\ (Trouble \/ NoTrouble)
  BY <1>1
<1>8. Going(p)
  BY <1>3, <1>4, <1>5, <1>6 DEF Going
<1> QED BY <1>7, <1>8, GoingCard

LEMMA RedeemCard ==
    ASSUME Typed, Accounts, OneWayEach, NEW p \in Payments, ~Outdated(p),
           method[p] \in {"card", "gift"},
           NEW h \in Handlers, redeemGift(h, p)
    PROVE  OneWay(p)'
<1>1. UNCHANGED <<method, looks, rows, money, stale, events>> /\ NoTrouble /\ run[h] = None
      /\ Begin(h, p, "redeem")
  BY DEF redeemGift, NoTrouble, Begin
<1>2. run'[h] = [p |-> p, step |-> "redeem"] /\ \A g \in Handlers \ {h} : run'[g] = run[g]
  BY <1>1, BeginsAlone
<1>3. run'[h].step = "redeem"
  BY <1>2
<1>4. /\ \A g \in Handlers : OnAt(g, p, "create")' <=> OnAt(g, p, "create")
      /\ \A g \in Handlers : OnAt(g, p, "check")' => OnAt(g, p, "check")
      /\ \A g \in Handlers : OnAt(g, p, "refund")' => OnAt(g, p, "refund") \/ Refused(p)
  BY <1>1, <1>2, <1>3 DEF OnAt, On
<1>5. /\ \A t : In(p, t)' <=> In(p, t)
      /\ SetAside(p)' <=> SetAside(p)
  BY <1>1 DEF In, SetAside
<1>6. UNCHANGED <<method, stale, events>> /\ NoTrouble /\ money'[p] = money[p]
  BY <1>1
<1>7. Going(p)
  BY <1>4, <1>5, <1>6 DEF Going
<1> QED BY <1>6, <1>7, GoingCard

(***************************************************************************)
(* Transactions of other chains.                                           *)
(***************************************************************************)
Credits1(h, p) == OnAt(h, p, "credit") \/ OnAt(h, p, "job credit")
LEMMA ChainKeeps ==
    ASSUME NEW p \in Payments, method' = method, method[p] = "crypto", OneWay(p),
           money[p] = "paid" => money'[p] = "paid",
           credited'[p] = credited[p] \/ \E h \in Handlers : Credits1(h, p),
           \A h \in Handlers : Credits1(h, p)' => Credits1(h, p) \/ money[p] = "paid"
    PROVE  OneWay(p)'
BY DEF OneWay, Confirmed, Credits1

LEMMA OutsideChain ==
    ASSUME Typed, OneWayEach, NEW p \in Payments, method[p] = "crypto",
           topUp(p) \/ Pay(p) \/ Age(p) \/ handleDisputeCreatedEvent(p)
    PROVE  OneWay(p)'
<1>1. UNCHANGED <<method, run>> /\ OneWay(p)
  BY DEF topUp, Pay, Age, handleDisputeCreatedEvent, OneWayEach
<1>2. \A h \in Handlers : Credits1(h, p)' => Credits1(h, p)
  BY <1>1 DEF Credits1, OnAt, On
<1>3. credited'[p] = credited[p] /\ (money[p] = "paid" => money'[p] = "paid")
  BY DEF topUp, Pay, Age, handleDisputeCreatedEvent, Card, Stripe, Typed
<1> QED BY <1>1, <1>2, <1>3, ChainKeeps

LEMMA BeginChain ==
    ASSUME Typed, OneWayEach, NEW p \in Payments, method[p] = "crypto", NEW h \in Handlers,
           addPendingPaymentTx(h, p) \/ Job(h, p)
    PROVE  OneWay(p)'
<1>1. UNCHANGED <<method, looks, money, credited>> /\ OneWay(p)
  BY DEF addPendingPaymentTx, Job, creditPendingTransactionsHandler, OneWayEach
<1>2. PICK s \in {"status", "job credit", "job fail"} :
          Begin(h, p, s) /\ (s = "job credit" => money[p] = "paid")
  BY DEF addPendingPaymentTx, Job, creditPendingTransactionsHandler
<1>3. run'[h].step = s /\ \A g \in Handlers \ {h} : run'[g] = run[g]
  BY <1>2, BeginsAlone
<1>4. \A g \in Handlers : Credits1(g, p)' => Credits1(g, p) \/ money[p] = "paid"
  BY <1>2, <1>3 DEF Credits1, OnAt, On
<1> QED BY <1>1, <1>4, ChainKeeps

LEMMA HandlerChain ==
    ASSUME Typed, OneWayEach, NEW p \in Payments, method[p] = "crypto", NEW h \in Handlers,
           run[h].p = p, Step(h)
    PROVE  OneWay(p)'
<1>0. run[h] # None
  BY DEF Step, createPaymentReceipt, checkForExistingPaymentByTopUpQuoteId, refundPayment,
         RedeemCommit, getTransactionStatus, createPendingTransaction,
         createNewCreditedTransaction, creditPendingTransaction, failPendingTransaction, At
<1>1. Fit("crypto", run[h].step) /\ OneWay(p)
  BY <1>0, AtPayment DEF OneWayEach
<1>2. \/ getTransactionStatus(h) \/ createPendingTransaction(h)
      \/ createNewCreditedTransaction(h) \/ creditPendingTransaction(h)
      \/ failPendingTransaction(h)
  BY <1>1 DEF Step, createPaymentReceipt, checkForExistingPaymentByTopUpQuoteId, refundPayment,
         RedeemCommit, At, Fit
<1>3. UNCHANGED <<method, looks, money>>
  BY <1>2 DEF getTransactionStatus, createPendingTransaction,
         createNewCreditedTransaction, creditPendingTransaction, failPendingTransaction
<1>4. credited'[p] = credited[p] \/ Credits1(h, p)
  BY <1>0, <1>2 DEF getTransactionStatus, createPendingTransaction, Credits1, OnAt, On, At,
         createNewCreditedTransaction, creditPendingTransaction, failPendingTransaction
<1>5. \A g \in Handlers : Credits1(g, p)' => Credits1(g, p) \/ money[p] = "paid"
  <2>1. CASE End(h)
    <3>1. run'[h] = None /\ \A g \in Handlers \ {h} : run'[g] = run[g]
      BY <1>3, <2>1, EndRuns DEF Typed
    <3> QED BY <3>1 DEF Credits1, OnAt, On
  <2>2. CASE getTransactionStatus(h) /\ ~End(h)
    <3>1. PICK to \in {"credit", "pend"} : Then(h, to) /\ (to = "credit" => money[p] = "paid")
      BY <2>2 DEF getTransactionStatus
    <3>2. to \in Steps /\ Fit(method[run[h].p], to)
      BY DEF Steps, Fit
    <3>3. method' = method /\ Then(h, to)
      BY <1>3, <3>1
    <3>4. run'[h].step = to /\ \A g \in Handlers \ {h} : run'[g] = run[g]
      BY <1>0, <3>2, <3>3, ThenRuns DEF Typed
    <3> QED BY <3>1, <3>4 DEF Credits1, OnAt, On
  <2> QED BY <1>2, <2>1, <2>2
          DEF createPendingTransaction, createNewCreditedTransaction,
              creditPendingTransaction, failPendingTransaction
<1> QED BY <1>1, <1>3, <1>4, <1>5, ChainKeeps

(***************************************************************************)
(* Names bought with credits.                                              *)
(***************************************************************************)
NameOf(p) == method[p] = "name on credit" /\ intent[p] # "change"
LEMMA NameKeeps ==
    ASSUME NEW p \in Payments, method' = method, NameOf(p), Name(p)' PROVE OneWay(p)'
BY DEF OneWay, NameOf

LEMMA AgeName ==
    ASSUME Typed, OneWayEach, NEW p \in Payments, NameOf(p), UNCHANGED names,
           topUp(p) \/ Pay(p) \/ Age(p) \/ handleDisputeCreatedEvent(p)
    PROVE  OneWay(p)'
<1>1. UNCHANGED <<method, run, landed, antKnown, jobs, intent, troubles>> /\ Name(p)
  BY DEF topUp, Pay, Age, handleDisputeCreatedEvent, names, OneWayEach, OneWay, NameOf
<1>2. \A t \in rows[p] : t \in {"arns_purchase_receipt", "failed_arns_purchase"}
  BY DEF NameOf, Typed, Proper
<1>3. CASE topUp(p) \/ handleDisputeCreatedEvent(p)
  BY <1>3 DEF topUp, handleDisputeCreatedEvent, Card, NameOf
<1>4. CASE Pay(p) \/ Age(p)
  <2>1. /\ rows' = rows
        /\ stale' = stale \/ (stale' = stale \cup {p} /\ rows[p] # {} /\ \A h \in Handlers : ~On(h, p))
    BY <1>2, <1>4 DEF Pay, Age, Resting, On
  <2>2. \A h \in Handlers : On(h, p)' <=> On(h, p)
    BY <1>1 DEF On
  <2>3. Receipt(p)' <=> Receipt(p)
    BY <2>1 DEF Receipt
  <2>4. ASSUME NEW h \in Handlers, On(h, p)' PROVE Request(h, p)'
    <3>1. On(h, p) /\ Request(h, p) /\ stale' = stale
      BY <1>1, <2>1, <2>2, <2>4 DEF Name
    <3> QED BY <1>1, <2>2, <2>3, <3>1 DEF Request, NotRefundable
  <2>5. Name(p)'
    BY <1>1, <2>1, <2>2, <2>3, <2>4 DEF Name, NotRefundable
  <2> QED BY <1>1, <2>5, NameKeeps
<1> QED BY <1>3, <1>4

LEMMA StartsName ==
    ASSUME Typed, OneWayEach, NEW p \in Payments, NameOf(p), NEW h \in Handlers,
           createArNSPurchaseReceipt(h, p)
    PROVE  OneWay(p)'
<1>1. /\ UNCHANGED <<method, landed, jobs, stale, intent, troubles>> /\ Name(p) /\ rows[p] = {}
      /\ antKnown' = IF intent[p] = "own" THEN antKnown \cup {p} ELSE antKnown
  BY DEF createArNSPurchaseReceipt, OneWayEach, OneWay, NameOf
<1>2. /\ run'[h].step = "spawn" /\ run'[h].p = p
      /\ \A g \in Handlers \ {h} : run'[g] = run[g]
  BY BeginsAlone DEF createArNSPurchaseReceipt
<1>3. rows'[p] = {"arns_purchase_receipt"}
  BY <1>1 DEF createArNSPurchaseReceipt, Move, Typed
<1>4. p \notin landed /\ NotRefundable(p) /\ \A g \in Handlers : ~On(g, p)
  BY <1>1 DEF Name
<1>5. \A g \in Handlers : On(g, p)' => g = h
  BY <1>2, <1>4 DEF On
<1>6. Request(h, p)'
  BY <1>1, <1>2, <1>3, <1>4, <1>5 DEF Request, NotRefundable, Receipt
<1>7. Name(p)'
  BY <1>1, <1>3, <1>4, <1>5, <1>6 DEF Name, NotRefundable
<1> QED BY <1>1, <1>7, NameKeeps

LEMMA NoSecond == ASSUME Typed, troubles > 0, troubles' <= 1 PROVE ~Trouble
BY PaymentsAssumption DEF Typed, Trouble

\* What a request knows when it goes on, or what is left when it ends.
LEMMA RequestName ==
    ASSUME Typed, OneWayEach, NEW p \in Payments, NameOf(p), NEW h \in Handlers,
           run[h].p = p, NameStep(h), troubles' <= 1
    PROVE  OneWay(p)'
<1>1. run[h] # None /\ UNCHANGED <<method, looks, stale, intent>>
  BY DEF NameStep, persistSpawnedAntId, confirmArNSWriteLanded, MarkBought, Write, At,
         StoreMessageId, durableRefundArNSPurchase, getArNSPurchaseQuote,
         updateArNSPurchaseQuoteToSuccess, updateArNSPurchaseQuoteToFailure,
         getArNSPurchaseStatus, names
<1>2. Fit("name on credit", run[h].step) /\ Name(p) /\ On(h, p)
  BY <1>1, AtPayment DEF OneWayEach, OneWay, NameOf, On
<1>3. Request(h, p) /\ rows[p] # {}
  BY <1>2 DEF Name
<1>4. \/ persistSpawnedAntId(h) \/ confirmArNSWriteLanded(h) \/ MarkBought(h)
      \/ At(h, "write") /\ Write(h, "bought", "threw")
      \/ StoreMessageId(h) \/ durableRefundArNSPurchase(h)
  BY <1>2 DEF NameStep, Fit, At, getArNSPurchaseQuote, updateArNSPurchaseQuoteToSuccess,
              updateArNSPurchaseQuoteToFailure, getArNSPurchaseStatus
<1>5. (troubles > 0 => troubles' > 0) /\ (Trouble => troubles = 0 /\ troubles' > 0)
  <2>1. Trouble \/ NoTrouble
    BY <1>4 DEF NoTrouble, persistSpawnedAntId, confirmArNSWriteLanded, MarkBought,
                Write, StoreMessageId, durableRefundArNSPurchase
  <2> QED BY <2>1, PaymentsAssumption DEF Trouble, NoTrouble, Typed
<1>6. ASSUME NEW to \in {"write", "threw", "bought", "landed", "not bought", "store"}, Then(h, to)
      PROVE  run'[h].step = to /\ \A g \in Handlers \ {h} : run'[g] = run[g]
  <2>1. to \in Steps /\ Fit(method[run[h].p], to)
    BY DEF Steps, Fit, NameOf
  <2> QED BY <1>1, <1>6, <2>1, ThenRuns DEF Typed
<1>7. ASSUME End(h) PROVE run'[h] = None /\ \A g \in Handlers \ {h} : run'[g] = run[g]
  BY <1>1, <1>7, EndRuns DEF Typed
<1>8. intent[p] \in {"own", "fresh"} /\ (intent[p] = "own" => p \in antKnown)
  BY <1>2, <1>3, IntentsAssumption DEF OneWayEach, NameOf, Name
<1>9. ASSUME \A g \in Handlers \ {h} : run'[g] = run[g],
             rows'[p] # {}, intent[p] = "own" => p \in antKnown', On(h, p)' => Request(h, p)',
             (<<"refund", p>> \in jobs)' => (p \notin landed)',
             (p \in landed)' => Receipt(p)' /\ (p \in antKnown)'
      PROVE  OneWay(p)'
  <2>1. \A g \in Handlers : On(g, p)' => g = h
    BY <1>3, <1>9 DEF Request, On
  <2>2. Name(p)'
    BY <1>1, <1>9, <2>1 DEF Name
  <2> QED BY <1>1, <2>2, NameKeeps
<1>11. CASE persistSpawnedAntId(h)
  <2>1. /\ UNCHANGED <<rows, landed, jobs>> /\ run[h].step = "spawn"
        /\ antKnown' = antKnown \/ antKnown' = antKnown \cup {p}
    BY <1>11 DEF persistSpawnedAntId, At
  <2>2. PICK to \in {"write", "threw"} :
            Then(h, to) /\ (to = "write" /\ intent[p] = "fresh" => p \in antKnown')
    BY <1>11 DEF persistSpawnedAntId
  <2>3. run'[h].step = to /\ \A g \in Handlers \ {h} : run'[g] = run[g]
    BY <1>6, <2>2
  <2>4. Receipt(p)' /\ p \notin landed /\ NotRefundable(p)'
    BY <1>1, <1>3, <2>1 DEF Request, NotRefundable, Receipt
  <2>5. \A g \in Handlers : On(g, p)' => g = h
    BY <1>3, <2>3 DEF Request, On
  <2>6. Request(h, p)'
    BY <1>8, <2>1, <2>2, <2>3, <2>4, <2>5 DEF Request
  <2> QED BY <1>3, <1>8, <1>9, <2>1, <2>3, <2>4, <2>6
<1>12. CASE At(h, "write") /\ Write(h, "bought", "threw")
  <2>1. /\ UNCHANGED <<rows, antKnown, jobs>> /\ run[h].step = "write"
        /\ landed' = landed \/ landed' = landed \cup {p}
    BY <1>12 DEF Write, At
  <2>2. PICK to \in {"bought", "threw"} :
            Then(h, to) /\ (to = "threw" /\ p \in landed' => Trouble \/ p \in landed)
    BY <1>12 DEF Write
  <2>3. run'[h].step = to /\ \A g \in Handlers \ {h} : run'[g] = run[g]
    BY <1>6, <2>2
  <2>4. Receipt(p)' /\ p \notin landed /\ NotRefundable(p)' /\ p \in antKnown
    BY <1>1, <1>3, <2>1 DEF Request, NotRefundable, Receipt
  <2>5. \A g \in Handlers : On(g, p)' => g = h
    BY <1>3, <2>3 DEF Request, On
  <2>6. Request(h, p)'
    BY <1>5, <2>1, <2>2, <2>3, <2>4, <2>5 DEF Request
  <2> QED BY <1>3, <1>8, <1>9, <2>1, <2>3, <2>4, <2>6 DEF NotRefundable
<1>13. CASE confirmArNSWriteLanded(h)
  <2>1. UNCHANGED <<rows, antKnown, jobs, landed>> /\ run[h].step = "threw"
    BY <1>13 DEF confirmArNSWriteLanded, At, names
  <2>2. PICK to \in {"landed", "not bought"} :
            Then(h, to) /\ (to = "not bought" /\ p \in landed => Trouble)
    BY <1>13 DEF confirmArNSWriteLanded
  <2>3. run'[h].step = to /\ \A g \in Handlers \ {h} : run'[g] = run[g]
    BY <1>6, <2>2
  <2>4. NotRefundable(p)' /\ (to = "not bought" => p \notin landed)
    <3>1. NotRefundable(p)'
      BY <1>1, <1>3, <2>1 DEF Request, NotRefundable
    <3>2. ASSUME p \in landed PROVE ~Trouble
      <4>1. troubles > 0
        BY <1>3, <2>1, <3>2 DEF Request
      <4> QED BY <4>1, NoSecond
    <3> QED BY <2>2, <3>1, <3>2
  <2>5. \A g \in Handlers : On(g, p)' => g = h
    BY <1>3, <2>3 DEF Request, On
  <2>6. Request(h, p)'
    BY <2>1, <2>3, <2>4, <2>5 DEF Request
  <2>7. (p \in landed)' => Receipt(p)' /\ (p \in antKnown)'
    BY <1>2, <2>1 DEF Name, Receipt
  <2> QED BY <1>3, <1>8, <1>9, <2>1, <2>3, <2>4, <2>6, <2>7 DEF NotRefundable
<1>14. CASE MarkBought(h) \/ StoreMessageId(h)
  <2>1. /\ UNCHANGED <<rows, antKnown, landed>>
        /\ <<"refund", p>> \in jobs' => <<"refund", p>> \in jobs
        /\ End(h) \/ Then(h, "store")
    BY <1>14 DEF MarkBought, StoreMessageId
  <2>2. /\ run'[h] = None \/ run'[h].step = "store"
        /\ \A g \in Handlers \ {h} : run'[g] = run[g]
    BY <1>6, <1>7, <2>1
  <2>4. NotRefundable(p)'
    BY <1>1, <1>3, <2>1 DEF Request, NotRefundable
  <2>5. \A g \in Handlers : On(g, p)' => g = h
    BY <1>3, <2>2 DEF Request, On
  <2>6. On(h, p)' => Request(h, p)'
    BY <2>2, <2>4, <2>5 DEF Request, On
  <2>7. (p \in landed)' => Receipt(p)' /\ (p \in antKnown)'
    BY <1>2, <2>1 DEF Name, Receipt
  <2> QED BY <1>3, <1>8, <1>9, <2>1, <2>2, <2>4, <2>6, <2>7 DEF NotRefundable
<1>15. CASE durableRefundArNSPurchase(h)
  <2>1. UNCHANGED <<antKnown, landed>> /\ End(h) /\ run[h].step = "not bought"
    BY <1>15 DEF durableRefundArNSPurchase, At
  <2>2. run'[h] = None /\ \A g \in Handlers \ {h} : run'[g] = run[g]
    BY <1>7, <2>1
  <2>3. rows'[p] = rows[p] \/ rows'[p] = (rows[p] \ {"arns_purchase_receipt"}) \cup {"failed_arns_purchase"}
    BY <1>15 DEF durableRefundArNSPurchase, updateFailedArNSPurchase, Move, Typed
  <2>4. rows'[p] # {} /\ p \notin landed
    BY <1>3, <2>1, <2>3 DEF Request
  <2> QED BY <1>8, <1>9, <2>1, <2>2, <2>4 DEF On
<1> QED BY <1>4, <1>11, <1>12, <1>13, <1>14, <1>15

\* The worker and its cron job refund only a name whose request is done.
LEMMA WorkerName ==
    ASSUME Typed, OneWayEach, NEW p \in Payments, NameOf(p), Worker(p)
    PROVE  OneWay(p)'
<1>1. UNCHANGED <<method, run, stale, intent, landed, antKnown, troubles>> /\ Name(p)
  BY DEF Worker, reconcileStaleArNSPurchases, arnsRefundWorker, vars, OneWayEach, OneWay, NameOf
<1>2. \A h \in Handlers : On(h, p)' <=> On(h, p)
  BY <1>1 DEF On
<1>3. CASE reconcileStaleArNSPurchases(p)
  <2>1. rows' = rows /\ Receipt(p) /\ p \in stale
    BY <1>3 DEF reconcileStaleArNSPurchases, Undecided, vars
  <2>2. \A h \in Handlers : ~On(h, p)
    BY <1>1, <2>1 DEF Name, Request, NotRefundable
  <2>3. rows[p] # {}
    BY <2>1 DEF Receipt
  <2>4. <<"refund", p>> \in jobs' => <<"refund", p>> \in jobs \/ p \notin landed
    BY <1>1, <1>3 DEF reconcileStaleArNSPurchases, Name, NameOf
  <2>5. Name(p)'
    BY <1>1, <1>2, <2>1, <2>2, <2>3, <2>4 DEF Name, Receipt
  <2> QED BY <1>1, <2>5, NameKeeps
<1>4. ASSUME NEW kind \in {"refund", "store-message-id"}, arnsRefundWorker(<<kind, p>>)
      PROVE  OneWay(p)'
  <2>1. <<kind, p>> \in jobs /\ jobs' = jobs \ {<<kind, p>>}
    BY <1>4 DEF arnsRefundWorker
  <2>2. CASE UNCHANGED rows
    <3>1. Receipt(p)' <=> Receipt(p)
      BY <2>2 DEF Receipt
    <3>2. NotRefundable(p) => NotRefundable(p)'
      BY <1>1, <2>1 DEF NotRefundable
    <3>3. \A h \in Handlers : Request(h, p) => Request(h, p)'
      BY <1>1, <1>2, <3>1, <3>2 DEF Request
    <3>4. Name(p)'
      BY <1>1, <1>2, <2>1, <2>2, <3>1, <3>2, <3>3 DEF Name
    <3> QED BY <1>1, <3>4, NameKeeps
  <2>3. CASE ~UNCHANGED rows
    <3>1. /\ kind = "refund" /\ Receipt(p)
          /\ rows'[p] = (rows[p] \ {"arns_purchase_receipt"}) \cup {"failed_arns_purchase"}
      BY <1>4, <2>3 DEF arnsRefundWorker, updateFailedArNSPurchase, Undecided, Move, Typed
    <3>2. p \notin landed /\ \A h \in Handlers : ~On(h, p)
      BY <1>1, <2>1, <3>1 DEF Name, Request, NotRefundable
    <3>3. rows[p] # {} /\ rows'[p] # {}
      BY <3>1 DEF Receipt
    <3>4. Name(p)'
      BY <1>1, <1>2, <3>2, <3>3 DEF Name
    <3> QED BY <1>1, <3>4, NameKeeps
  <2> QED BY <2>2, <2>3
<1> QED BY <1>3, <1>4 DEF Worker

LEMMA CrashName ==
    ASSUME Typed, OneWayEach, NEW p \in Payments, NameOf(p), NEW h \in Handlers,
           run[h].p = p, Crash(h)
    PROVE  OneWay(p)'
<1>1. /\ UNCHANGED <<method, looks, rows, stale, intent, landed, antKnown, jobs>> /\ run[h] # None
      /\ Name(p) /\ Trouble
  BY DEF Crash, names, OneWayEach, OneWay, NameOf
<1>2. run'[h] = None /\ \A g \in Handlers \ {h} : run'[g] = run[g]
  BY <1>1, EndRuns DEF Crash, Typed
<1>3. On(h, p)
  BY <1>1 DEF On
<1>4. \A g \in Handlers : ~On(g, p)'
  BY <1>1, <1>2, <1>3 DEF Name, Request, On
<1>5. Name(p)'
  BY <1>1, <1>3, <1>4 DEF Name, Receipt
<1> QED BY <1>1, <1>5, NameKeeps

(***************************************************************************)
(* Every step is of one payment, or of none that has anything to keep.     *)
(***************************************************************************)
LEMMA OutsideOneWay ==
    ASSUME Typed, Accounts, OneWayEach, NEW p \in Payments, UNCHANGED names,
           topUp(p) \/ Pay(p) \/ Age(p) \/ handleDisputeCreatedEvent(p)
    PROVE  OneWayEach'
<1>1. /\ UNCHANGED <<method, looks, run, events, troubles, intent>>
      /\ stale' = stale \/ stale' = stale \cup {p}
  BY DEF topUp, Pay, Age, handleDisputeCreatedEvent, names
<1>2. ASSUME NEW q \in Payments \ {p} PROVE Same(q) /\ SameRun(q)
  <2>1. rows'[q] = rows[q] /\ money'[q] = money[q] /\ credited'[q] = credited[q]
    BY DEF topUp, Pay, Age, handleDisputeCreatedEvent, Typed, Move, Credit
  <2> QED BY <1>1, <2>1 DEF Same, SameRun, names
<1>3. OneWay(p)'
  <2>1. CASE method[p] \in {"card", "gift"}
    BY <1>1, <2>1, OutsideCard DEF OneWay, Outdated
  <2>2. CASE method[p] = "crypto"
    BY <2>2, OutsideChain
  <2>3. CASE NameOf(p)
    BY <2>3, AgeName
  <2>4. CASE ~(method[p] \in {"card", "gift", "crypto"} \/ NameOf(p))
    BY <1>1, <2>4 DEF OneWay, NameOf
  <2> QED BY <2>1, <2>2, <2>3, <2>4
<1> QED BY <1>1, <1>2, <1>3, OthersKeep DEF NoTrouble

LEMMA BeginOneWay ==
    ASSUME Typed, Accounts, OneWayEach, NEW p \in Payments, NEW h \in Handlers, troubles' <= 1,
           \/ UNCHANGED names /\ \/ handlePaymentSuccessEvent(h, p) \/ redeemGift(h, p)
                                 \/ addPendingPaymentTx(h, p) \/ Job(h, p)
           \/ createArNSPurchaseReceipt(h, p)
    PROVE  OneWayEach'
<1>1. /\ UNCHANGED <<method, looks, money, stale, landed, intent>>
      /\ events' = events \/ events' = events \cup {p}
      /\ antKnown' = antKnown \/ antKnown' = antKnown \cup {p}
      /\ jobs' = jobs
      /\ Trouble \/ NoTrouble
      /\ \E s : Begin(h, p, s)
  BY DEF handlePaymentSuccessEvent, redeemGift, addPendingPaymentTx, Job, names,
         creditPendingTransactionsHandler, createArNSPurchaseReceipt, NoTrouble
<1>2. ASSUME NEW q \in Payments \ {p} PROVE Same(q) /\ SameRun(q)
  <2>1. rows'[q] = rows[q] /\ credited'[q] = credited[q]
    BY DEF handlePaymentSuccessEvent, redeemGift, addPendingPaymentTx, Job, Typed, Move, Credit,
         creditPendingTransactionsHandler, createArNSPurchaseReceipt
  <2>2. SameRun(q)
    BY <1>1, BeginsAlone
  <2> QED BY <1>1, <2>1, <2>2 DEF Same
<1>3. OneWay(p)'
  <2>1. CASE method[p] \in {"card", "gift"}
    <3>1. handlePaymentSuccessEvent(h, p) \/ redeemGift(h, p)
      <4>1. ~(addPendingPaymentTx(h, p) \/ createArNSPurchaseReceipt(h, p))
        BY <2>1 DEF addPendingPaymentTx, createArNSPurchaseReceipt, OnCredit
      <4>2. ~Job(h, p)
        BY <2>1 DEF Job, creditPendingTransactionsHandler, Typed, Proper
      <4> QED BY <4>1, <4>2
    <3> QED BY <1>1, <2>1, <3>1, DeliveredCard, RedeemCard DEF OneWay, Outdated
  <2>2. CASE method[p] = "crypto"
    <3>1. addPendingPaymentTx(h, p) \/ Job(h, p)
      BY <2>2 DEF handlePaymentSuccessEvent, redeemGift, createArNSPurchaseReceipt, OnCredit,
             Stripe, Card, Typed, Proper
    <3> QED BY <2>2, <3>1, BeginChain
  <2>3. CASE NameOf(p)
    <3>1. createArNSPurchaseReceipt(h, p)
      BY <2>3 DEF handlePaymentSuccessEvent, redeemGift, addPendingPaymentTx, Job, NameOf,
             creditPendingTransactionsHandler, Stripe, Card, Typed, Proper
    <3> QED BY <2>3, <3>1, StartsName
  <2>4. CASE ~(method[p] \in {"card", "gift", "crypto"} \/ NameOf(p))
    BY <1>1, <2>4 DEF OneWay, NameOf
  <2> QED BY <2>1, <2>2, <2>3, <2>4
<1> QED BY <1>1, <1>2, <1>3, OthersKeep

LEMMA StepOneWay ==
    ASSUME Typed, Accounts, OneWayEach, NEW h \in Handlers, troubles' <= 1,
           (Step(h) /\ UNCHANGED names) \/ NameStep(h) \/ Crash(h)
    PROVE  OneWayEach'
<1> USE DEF Step, createPaymentReceipt, checkForExistingPaymentByTopUpQuoteId, refundPayment,
            RedeemCommit, getTransactionStatus, createPendingTransaction,
            createNewCreditedTransaction, creditPendingTransaction, failPendingTransaction,
            NameStep, persistSpawnedAntId, confirmArNSWriteLanded, MarkBought, Write,
            StoreMessageId, durableRefundArNSPurchase, getArNSPurchaseQuote,
            updateArNSPurchaseQuoteToSuccess, updateArNSPurchaseQuoteToFailure,
            getArNSPurchaseStatus, updateFailedArNSPurchase, Crash, names
<1>1. run[h] # None /\ UNCHANGED <<method, stale, events, intent>>
  BY DEF At
<1>2. PICK p \in Payments : p = run[h].p
  BY <1>1, AtPayment
<1>3. End(h) \/ \E s \in Steps : Then(h, s)
  <2>1. End(h) \/ \E s \in {"check", "refund", "credit", "pend", "write", "threw", "landed",
                            "not bought", "store", "bought", "bought by card",
                            "not bought by card", "write by card", "check status",
                            "waits"} : Then(h, s)
    OBVIOUS
  <2> QED BY <2>1 DEF Steps
<1>4. Trouble \/ NoTrouble
  BY DEF NoTrouble, Still
<1>5. /\ rows' = rows \/ \E from, to : Move(p, from, to)
      /\ credited' = credited \/ \E n : Credit(p, n)
      /\ money' = money \/ money' = [money EXCEPT ![p] = "returned"]
      /\ looks \subseteq looks'
      /\ landed' = landed \/ landed' = landed \cup {p}
      /\ antKnown' = antKnown \/ antKnown' = antKnown \cup {p}
      /\ jobs' = jobs \/ jobs' = jobs \cup {<<"refund", p>>} \/ jobs' = jobs \cup {<<"store-message-id", p>>}
  BY <1>2
<1> HIDE DEF Step, createPaymentReceipt, checkForExistingPaymentByTopUpQuoteId, refundPayment,
            RedeemCommit, getTransactionStatus, createPendingTransaction,
            createNewCreditedTransaction, creditPendingTransaction, failPendingTransaction,
            NameStep, persistSpawnedAntId, confirmArNSWriteLanded, MarkBought, Write,
            StoreMessageId, durableRefundArNSPurchase, getArNSPurchaseQuote,
            updateArNSPurchaseQuoteToSuccess, updateArNSPurchaseQuoteToFailure,
            getArNSPurchaseStatus, updateFailedArNSPurchase, Crash, names
<1>6. ASSUME NEW q \in Payments \ {p} PROVE Same(q) /\ SameRun(q)
  <2>1. rows'[q] = rows[q] /\ credited'[q] = credited[q] /\ money'[q] = money[q]
    BY <1>5 DEF Move, Credit, Typed
  <2>2. SameRun(q)
    BY <1>1, <1>2, <1>3, RunsApart
  <2> QED BY <1>1, <1>5, <2>1, <2>2 DEF Same
<1>7. OneWay(p)'
  <2>1. CASE method[p] \in {"card", "gift"}
    <3>1. Fit("card", run[h].step) \/ Fit("gift", run[h].step)
      BY <1>1, <1>2, <2>1, AtPayment
    <3>2. run[h].step \in {"create", "check", "refund", "redeem"}
      BY <3>1 DEF Fit
    <3>3. ~NameStep(h) /\ ~Crash(h)
      BY <1>2, <2>1, <3>2 DEF NameStep, persistSpawnedAntId, confirmArNSWriteLanded, MarkBought,
            StoreMessageId, durableRefundArNSPurchase, getArNSPurchaseQuote,
            updateArNSPurchaseQuoteToSuccess, updateArNSPurchaseQuoteToFailure,
            getArNSPurchaseStatus, Crash, OnCredit, At
    <3>4. \/ createPaymentReceipt(h) \/ checkForExistingPaymentByTopUpQuoteId(h)
          \/ refundPayment(h) \/ RedeemCommit(h)
      BY <3>2, <3>3 DEF Step, getTransactionStatus, createPendingTransaction, At,
            createNewCreditedTransaction, creditPendingTransaction, failPendingTransaction
    <3>5. CASE Outdated(p)'
      BY <1>1, <2>1, <3>5 DEF OneWay
    <3>6. CASE ~Outdated(p)'
      <4>1. ~Outdated(p)
        BY <1>5, <3>6 DEF Outdated
      <4> QED BY <1>2, <2>1, <3>4, <3>6, <4>1, ReceiptCard, HandlerCard
    <3> QED BY <3>5, <3>6
  <2>2. CASE method[p] = "crypto"
    <3>1. Fit("crypto", run[h].step)
      BY <1>1, <1>2, <2>2, AtPayment
    <3>2. run[h].step \in {"status", "pend", "credit", "job credit", "job fail"}
      BY <3>1 DEF Fit
    <3>3. ~NameStep(h) /\ ~Crash(h)
      BY <1>2, <2>2, <3>2 DEF NameStep, persistSpawnedAntId, confirmArNSWriteLanded, MarkBought,
            StoreMessageId, durableRefundArNSPurchase, getArNSPurchaseQuote,
            updateArNSPurchaseQuoteToSuccess, updateArNSPurchaseQuoteToFailure,
            getArNSPurchaseStatus, Crash, OnCredit, At
    <3> QED BY <1>2, <2>2, <3>3, HandlerChain
  <2>3. CASE NameOf(p)
    <3>1. Fit("name on credit", run[h].step)
      BY <1>1, <1>2, <2>3, AtPayment DEF NameOf
    <3>2. ~Step(h)
      BY <3>1 DEF Fit, At, Step, createPaymentReceipt, checkForExistingPaymentByTopUpQuoteId,
            refundPayment, RedeemCommit, getTransactionStatus, createPendingTransaction,
            createNewCreditedTransaction, creditPendingTransaction, failPendingTransaction
    <3> QED BY <1>2, <2>3, <3>2, RequestName, CrashName
  <2>4. CASE ~(method[p] \in {"card", "gift", "crypto"} \/ NameOf(p))
    BY <1>1, <2>4 DEF OneWay, NameOf
  <2> QED BY <2>1, <2>2, <2>3, <2>4
<1> QED BY <1>1, <1>4, <1>6, <1>7, OthersKeep

LEMMA QuoteOneWay ==
    ASSUME Typed, Accounts, OneWayEach, NEW p \in Payments, createArNSPurchaseQuote(p)
    PROVE  OneWayEach'
<1>1. /\ UNCHANGED <<method, looks, money, run, stale, credited, events, intent, landed, jobs, troubles>>
      /\ method[p] = "name" /\ Move(p, {}, {"arns_purchase_quote"})
      /\ antKnown' = antKnown \/ antKnown' = antKnown \cup {p}
  BY DEF createArNSPurchaseQuote
<1>2. ASSUME NEW q \in Payments \ {p} PROVE Same(q) /\ SameRun(q)
  BY <1>1 DEF Same, SameRun, Move, Typed
<1>3. OneWay(p)'
  BY <1>1, Trivial
<1> QED BY <1>1, <1>2, <1>3, OthersKeep DEF NoTrouble

LEMMA WorkerOneWay ==
    ASSUME Typed, Accounts, OneWayEach, NEW p \in Payments, Worker(p)
    PROVE  OneWayEach'
<1>1. UNCHANGED <<method, looks, money, run, stale, events, intent, landed, antKnown, troubles>>
  BY DEF Worker, reconcileStaleArNSPurchases, arnsRefundWorker, vars
<1>2. UNCHANGED <<rows, credited>> \/ (updateFailedArNSPurchase(p) /\ Receipt(p))
  BY DEF Worker, reconcileStaleArNSPurchases, arnsRefundWorker, vars,
         updateFailedArNSPurchase, Undecided
<1>3. \/ jobs' = jobs \cup {<<"refund", p>>} \/ jobs' = jobs
      \/ \E kind : jobs' = jobs \ {<<kind, p>>}
  BY DEF Worker, reconcileStaleArNSPurchases, arnsRefundWorker
<1>4. ASSUME NEW q \in Payments \ {p} PROVE Same(q) /\ SameRun(q)
  <2>1. rows'[q] = rows[q] /\ credited'[q] = credited[q]
    BY <1>2 DEF updateFailedArNSPurchase, Move, Credit, Typed
  <2> QED BY <1>1, <1>3, <2>1 DEF Same, SameRun
<1>5. CASE NameOf(p)
  BY <1>1, <1>4, <1>5, WorkerName, OthersKeep DEF NoTrouble
<1>6. CASE method[p] \in {"card", "gift", "crypto"}
  <2>1. UNCHANGED <<rows, credited>>
    BY <1>2, <1>6 DEF Receipt, Typed, Proper
  <2>2. /\ \A h \in Handlers : \A s : OnAt(h, p, s)' <=> OnAt(h, p, s)
        /\ \A t : In(p, t)' <=> In(p, t)
        /\ SetAside(p)' <=> SetAside(p)
    BY <1>1, <2>1 DEF OnAt, On, In, SetAside
  <2>3. OneWay(p)'
    <3>1. CASE method[p] = "crypto"
      <4>1. \A h \in Handlers : Credits1(h, p)' => Credits1(h, p)
        BY <2>2 DEF Credits1
      <4> QED BY <1>1, <2>1, <3>1, <4>1, ChainKeeps DEF OneWayEach
    <3>2. CASE method[p] \in {"card", "gift"}
      <4>1. Going(p)
        BY <1>1, <2>2 DEF Going
      <4>2. UNCHANGED <<method, stale, events>> /\ NoTrouble
        BY <1>1 DEF NoTrouble
      <4> QED BY <1>1, <3>2, <4>1, <4>2, GoingCard DEF OneWay, Outdated
    <3> QED BY <1>6, <3>1, <3>2
  <2> QED BY <1>1, <1>4, <2>3, OthersKeep DEF NoTrouble
<1>7. CASE ~(method[p] \in {"card", "gift", "crypto"} \/ NameOf(p))
  <2>1. OneWay(p)'
    BY <1>1, <1>7 DEF OneWay, NameOf
  <2> QED BY <1>1, <1>4, <2>1, OthersKeep DEF NoTrouble
<1> QED BY <1>5, <1>6, <1>7

LEMMA AuthorizedOneWay ==
    ASSUME Typed, Accounts, OneWayEach, NEW h \in Handlers, X402Step(h) \/ Die(h)
    PROVE  OneWayEach'
<1> USE DEF X402Step, verifyPayment, rawVerifyPayment, settlePayment, rawSettlePayment,
            Verify, Settle, createX402Payment, createX402PaymentReservation,
            adjustUserWinstonBalance, verifyAndSettleX402Payment, x402FinalizeRoute,
            finalizeX402Payment, acceptSignedItem, insertX402Payment, storeRawDataItem, Die
<1>1. run[h] # None /\ method[run[h].p] = "x402" /\ run[h].p \in Payments
  BY X402StepTyped, AtPayment
<1>2. PICK p \in Payments : p = run[h].p
  BY <1>1
<1>3. UNCHANGED <<method, looks, stale, credited, events, intent, landed, antKnown, jobs>>
  BY DEF Unchanged, names
<1>4. \/ End(h) \/ \E s \in Steps : Then(h, s)
      \/ method[run[h].p] = "x402" /\ \E q \in Payments : Finalizes(h, q)
  <2>1. \/ End(h) \/ \E q \in Payments : Finalizes(h, q)
        \/ \E s \in {"verify", "settle", "record", "reserve", "top up", "receive", "finalize",
                     "accept", "store raw"} : Then(h, s)
    BY DEF Fails
  <2> QED BY <1>1, <2>1 DEF Steps
<1>5. /\ \/ rows' = rows
         \/ Move(p, {}, {"x402_payment_transaction"}) \/ Move(p, {}, {"x402_payments"})
      /\ money' = money \/ money' = [money EXCEPT ![p] = "paid"]
  BY <1>2
<1>6. Trouble \/ NoTrouble
  BY DEF NoTrouble, x402
<1> HIDE DEF X402Step, verifyPayment, rawVerifyPayment, settlePayment, rawSettlePayment,
             Verify, Settle, createX402Payment, createX402PaymentReservation,
             adjustUserWinstonBalance, verifyAndSettleX402Payment, x402FinalizeRoute,
             finalizeX402Payment, acceptSignedItem, insertX402Payment, storeRawDataItem, Die
<1>7. ASSUME NEW q \in Payments \ {p} PROVE Same(q) /\ SameRun(q)
  <2>1. rows'[q] = rows[q] /\ money'[q] = money[q]
    BY <1>5 DEF Move, Typed
  <2>2. SameRun(q)
    BY <1>1, <1>2, <1>3, <1>4, RunsApart
  <2> QED BY <1>3, <2>1, <2>2 DEF Same
<1>8. OneWay(p)'
  BY <1>1, <1>2, <1>3, Trivial
<1> QED BY <1>3, <1>6, <1>7, <1>8, OthersKeep

LEMMA AsksOneWay ==
    ASSUME Typed, Accounts, OneWayEach, NEW h \in Handlers, NEW p \in Payments,
           \/ rawDataUploadRoute(h, p) \/ x402TopUpRoute(h, p)
           \/ \E x \in Goods : postSignedItem(h, p, x) \/ x402PaymentRoute(h, p, x)
    PROVE  OneWayEach'
<1>1. PICK kind, x : Ask(h, p, kind, x) /\ UNCHANGED <<rows, money, troubles>> /\ Unchanged
  BY DEF rawDataUploadRoute, x402TopUpRoute, postSignedItem, x402PaymentRoute
<1>2. /\ UNCHANGED <<method, looks, rows, credited, stale, events, intent, landed, antKnown, jobs>>
      /\ method[p] = "x402" /\ run[h] = None
  BY <1>1 DEF Unchanged, names, Ask
<1>3. run'[h].p = p /\ \A g \in Handlers \ {h} : run'[g] = run[g]
  BY <1>1 DEF Ask, Typed, Runs
<1>4. ASSUME NEW q \in Payments \ {p} PROVE Same(q) /\ SameRun(q)
  <2>1. ~On(h, q) /\ ~On(h, q)'
    BY <1>2, <1>3 DEF On
  <2> QED BY <1>1, <1>2, <1>3, <2>1 DEF Same, SameRun
<1>5. OneWay(p)'
  BY <1>2, Trivial
<1> QED BY <1>1, <1>2, <1>4, <1>5, OthersKeep DEF NoTrouble

LEMMA TroublesGrow == ASSUME Typed, [X402Next]_x402Vars, troubles' <= 1 PROVE troubles <= 1
<1>1. Trouble \/ NoTrouble
  <2> USE DEF NoTrouble
  <2>1. CASE UNCHANGED x402Vars
    BY <2>1 DEF x402Vars, allVars, vars
  <2>2. CASE Next
    BY <2>2 DEF Next, topUp, Pay, Age, handleDisputeCreatedEvent, handlePaymentSuccessEvent,
       redeemGift, addPendingPaymentTx, Job, creditPendingTransactionsHandler, Step,
       createPaymentReceipt, checkForExistingPaymentByTopUpQuoteId, refundPayment,
       RedeemCommit, getTransactionStatus, createPendingTransaction,
       createNewCreditedTransaction, creditPendingTransaction, failPendingTransaction, Still
  <2>3. CASE NamesNext /\ ~Next
    BY <2>3 DEF NamesNext, NameStep, persistSpawnedAntId, confirmArNSWriteLanded, MarkBought,
       Write, StoreMessageId, durableRefundArNSPurchase, getArNSPurchaseQuote,
       updateArNSPurchaseQuoteToSuccess, updateArNSPurchaseQuoteToFailure,
       getArNSPurchaseStatus, Crash, createArNSPurchaseReceipt, createArNSPurchaseQuote, Still,
       Worker, reconcileStaleArNSPurchases, arnsRefundWorker, vars
  <2>4. ASSUME NEW h \in Handlers, X402Step(h) \/ Die(h) PROVE Trouble \/ NoTrouble
    BY <2>4 DEF X402Step, verifyPayment, rawVerifyPayment, settlePayment, rawSettlePayment,
       Verify, Settle, createX402Payment, createX402PaymentReservation,
       adjustUserWinstonBalance, verifyAndSettleX402Payment, x402FinalizeRoute,
       finalizeX402Payment, acceptSignedItem, insertX402Payment, storeRawDataItem, Die
  <2>5. CASE \/ \E h \in Handlers, p \in Payments :
                   \/ rawDataUploadRoute(h, p) \/ x402TopUpRoute(h, p)
                   \/ \E x \in Goods : postSignedItem(h, p, x) \/ x402PaymentRoute(h, p, x)
             \/ \E x \in Goods : ExpireMark(x)
    BY <2>5 DEF rawDataUploadRoute, x402TopUpRoute, postSignedItem, x402PaymentRoute, ExpireMark
  <2> QED BY <2>1, <2>2, <2>3, <2>4, <2>5 DEF X402Next
<1> QED BY <1>1, PaymentsAssumption DEF Typed, Trouble, NoTrouble

LEMMA NextOneWay ==
    ASSUME Typed, Accounts, OneWayEach, [X402Next]_x402Vars, troubles' <= 1
    PROVE  OneWayEach'
<1>1. CASE UNCHANGED x402Vars
  <2>1. /\ UNCHANGED <<method, looks, rows, money, stale, credited, events, run, troubles>>
        /\ UNCHANGED <<intent, landed, antKnown, jobs>>
    BY <1>1 DEF x402Vars, allVars, vars, names
  <2> QED BY <2>1, AllKeep DEF Same, SameRun, NoTrouble
<1>2. CASE NamesNext
  <2>1. CASE Next /\ UNCHANGED names
    BY <2>1, OutsideOneWay, BeginOneWay, StepOneWay DEF Next
  <2> QED BY <1>2, <2>1, StepOneWay, BeginOneWay, QuoteOneWay, WorkerOneWay DEF NamesNext
<1>3. ASSUME NEW x \in Goods, ExpireMark(x) PROVE OneWayEach'
  <2>1. /\ UNCHANGED <<method, looks, rows, money, stale, credited, events, run, troubles>>
        /\ UNCHANGED <<intent, landed, antKnown, jobs>>
    BY <1>3 DEF ExpireMark, Unchanged, names
  <2> QED BY <2>1, AllKeep DEF Same, SameRun, NoTrouble
<1> QED BY <1>1, <1>2, <1>3, AuthorizedOneWay, AsksOneWay DEF X402Next

LEMMA InitOneWay == ASSUME X402Init PROVE OneWayEach
<1>1. Init /\ intent \in [Payments -> Intents] /\ landed = {} /\ jobs = {}
  BY DEF X402Init, NamesInit
<1>2. /\ run = [h \in Handlers |-> None] /\ stale = {} /\ events = {}
      /\ \A p \in Payments : rows[p] = {} /\ credited[p] = 0 /\ money[p] = "unpaid"
  BY <1>1 DEF Init
<1>3. \A h \in Handlers : \A p : ~On(h, p)
  BY <1>2 DEF On
<1>4. ASSUME NEW p \in Payments PROVE OneWay(p)
  <2>1. ~Paper(p) /\ ~SetAside(p) /\ ~Receipt(p)
    BY <1>2 DEF Paper, SetAside, In, Receipt
  <2>2. Deliveries(p)
    BY <1>2, <1>3 DEF Deliveries, OnAt
  <2>3. Taken(p)
    BY <1>2, <2>1 DEF Taken
  <2>4. Confirmed(p)
    <3>1. credited[p] # 1 /\ \A h \in Handlers : \A s : ~OnAt(h, p, s)
      BY <1>2, <1>3 DEF OnAt
    <3> QED BY <3>1 DEF Confirmed
  <2>5. Name(p)
    BY <1>1, <1>2, <1>3 DEF Name, NotRefundable
  <2> QED BY <2>2, <2>3, <2>4, <2>5 DEF OneWay
<1> QED BY <1>1, <1>4 DEF OneWayEach

LEMMA OneWayAlways == X402Spec => [](Typed /\ Accounts /\ (troubles <= 1 => OneWayEach))
<1>1. X402Init => Typed /\ Accounts /\ (troubles <= 1 => OneWayEach)
  BY InitTyped, InitBooks, InitOneWay
<1>2. Typed /\ Accounts /\ (troubles <= 1 => OneWayEach) /\ [X402Next]_x402Vars =>
          (Typed /\ Accounts /\ (troubles <= 1 => OneWayEach))'
  BY NextTyped, NextBooks, NextOneWay, TroublesGrow
<1> QED BY <1>1, <1>2, PTL DEF X402Spec

\* While at most one thing went wrong, no payment is credited that was given back, or is
\* disputed and was not a gift, unless a replica hid its receipt from the second look: the
\* webhook's deliveries, the refund after a failed createPaymentReceipt, a dispute, and
\* the request and the job that credit a transaction.
THEOREM NotBothWaysAlways == X402Spec => [](troubles <= 1 => NotBothWays)
<1>1. Typed /\ Accounts /\ (troubles <= 1 => OneWayEach) => (troubles <= 1 => NotBothWays)
  <2> SUFFICES ASSUME Typed, Accounts, OneWayEach, NEW p \in Credits, credited[p] = 1,
                      ~Outdated(p)
               PROVE  money[p] = "paid" \/ (money[p] = "disputed" /\ method[p] = "gift")
    BY DEF NotBothWays
  <2>1. p \in Payments /\ OneWay(p) /\ Books(p) /\ method[p] \in {"card", "gift", "crypto"}
    BY DEF Credits, Card, OneWayEach, Accounts
  <2>2. CASE method[p] = "crypto"
    BY <2>1, <2>2 DEF OneWay, Confirmed
  <2>3. CASE method[p] = "card"
    <3>1. In(p, "payment_receipt")
      BY <2>1, <2>3 DEF Books
    <3>2. Paper(p) /\ ~In(p, "chargeback_receipt") /\ Taken(p)
      BY <2>1, <2>3, <3>1 DEF Books, Paper, OneWay
    <3> QED BY <3>1, <3>2 DEF Taken, Refused
  <2>4. CASE method[p] = "gift"
    <3>1. SetAside(p) /\ Taken(p)
      BY <2>1, <2>4 DEF Books, SetAside, OneWay
    <3>2. Paper(p)
      BY <3>1 DEF Taken
    <3> QED BY <2>4, <3>1, <3>2 DEF Taken, Refused
  <2> QED BY <2>1, <2>2, <2>3, <2>4
<1> QED BY <1>1, OneWayAlways, PTL

\* While at most one thing went wrong, a name bought with credits that landed is never
\* refunded, and no name is refunded twice: initiateArNSPurchase with its durable refund,
\* the worker of its jobs and the reconciler, a crash of the request included.
THEOREM NameOrCreditsAlways == X402Spec => [](troubles <= 1 => NameOrCredits)
<1>1. Typed /\ Accounts /\ (troubles <= 1 => OneWayEach) => (troubles <= 1 => NameOrCredits)
  <2> SUFFICES ASSUME Typed, Accounts, OneWayEach, NEW p \in Payments, OnCredit(p)
               PROVE  /\ credited[p] \in {-1, 0}
                      /\ p \in landed /\ intent[p] # "change" /\ rows[p] # {} => credited[p] = -1
    BY DEF NameOrCredits
  <2>1. OneWay(p) /\ Books(p) /\ method[p] = "name on credit"
    BY DEF OnCredit, OneWayEach, Accounts
  <2>2. credited[p] = IF In(p, "arns_purchase_receipt") THEN -1 ELSE 0
    BY <2>1 DEF Books
  <2>3. p \in landed /\ intent[p] # "change" => In(p, "arns_purchase_receipt")
    BY <2>1 DEF OneWay, Name, Receipt, In
  <2> QED BY <2>2, <2>3
<1> QED BY <1>1, OneWayAlways, PTL
=============================================================================
