---------------------------- MODULE CreditLedger ----------------------------
(***************************************************************************)
(* Balances, delegated payment approvals and balance reservations of the   *)
(* payment service (PostgresDatabase).  A database transaction that locks  *)
(* or indexes what it depends on is one step, or the steps between which   *)
(* others may commit.  A refund locks nothing it reads first: its reads    *)
(* and its commit are steps of their own.  The trimming of expired         *)
(* approvals, which is outside every transaction, is as many steps as it   *)
(* has statements that matter.                                             *)
(***************************************************************************)
EXTENDS Integers, Sequences, FiniteSets, Functions

CONSTANTS
    Users, Items, Approvals,
    Callers,          \* connections that reserve balance
    Readers,          \* requests that read approvals and trim the expired
    Refunders,        \* connections that refund
    SignerOf,         \* the user who signs each item
    Approved,         \* users whom others give approvals
    Costs,            \* prices an item may have
    Amounts,          \* sums a top-up or an approval may have
    PaidBy,           \* lists of payers an upload may name, repeats left out
    Opening,          \* balance of each user at first
    None,
    ApprovalsShared,  \* a user may get a second approval from the same payer
    TrimOverlaps,     \* others go on while expired approvals are trimmed
    LapsedShared,     \* a refund follows the end of an approval that paid more items
    MaxPaidIn,        \* bound: credits bought
    MaxAmiss          \* bound: users paid by refunds of what is no longer as read

ASSUME LedgerAssumption ==
    /\ SignerOf \in [Items -> Users] /\ Approved \subseteq Users /\ Opening \in [Users -> Nat]
    /\ Costs \subseteq Nat \ {0} /\ Amounts \subseteq Nat \ {0}
    /\ PaidBy \subseteq Seq(Users) /\ MaxPaidIn \in Nat /\ MaxAmiss \in Nat
    /\ \A list \in PaidBy : \A j, k \in DOMAIN list : list[j] = list[k] => j = k
    /\ {ApprovalsShared, TrimOverlaps, LapsedShared} \subseteq BOOLEAN
    /\ IsFiniteSet(Users) /\ IsFiniteSet(Approvals)
    /\ IsFiniteSet(Readers) /\ IsFiniteSet(Refunders) /\ Readers \cap Refunders = {}

VARIABLES
    balance,       \* winston_credit_balance of each user row
    approval,      \* each approval: its row and the table it is in, or None
    reservations,  \* balance_reservation rows with is_refunded = false
    reserving,     \* the item each reserve transaction found no row for, or None
    refunding,     \* what each refund transaction has read, or None
    trim,          \* what each trimming reader or refund has read, or None
    paidIn,        \* credits bought so far
    amiss          \* history: per payer and signer, refunds on rows no longer as read

vars == <<balance, approval, reservations, reserving, refunding, trim, paidIn, amiss>>
Trimmers == Readers \cup Refunders

Tables == {"active", "used", "revoked", "expired"}
Row == [payer : Users, user : Users, amount : Nat, used : Nat, due : BOOLEAN,
        table : Tables]
\* The spend of each payer, or None (a null overflow_spend): the signer paid it all.
Reservation == [by : Callers, item : Items, winc : Nat, spend : [Users -> Nat] \cup {None}]
\* The expired approvals a reader found, what their payers are owed for them, and the
\* balances it read to add that to.
Trimming == [step : {"move", "pay"}, gone : SUBSET Approvals, seen : [Users -> Nat],
             owed : [Users -> Nat]]
\* The row a refund has read, as long as that is active; what each payer is to get back;
\* and the payers' approvals as it has read them, or None.
Refund == [item : Items, row : Reservation \cup {None}, spend : [Users -> Nat],
           seen : [Approvals -> Row \cup {None}] \cup {None}]

ASSUME NoneAssumption ==
    /\ None \notin Items /\ None \notin Row /\ None \notin [Users -> Nat]
    /\ None \notin Trimming /\ None \notin Reservation /\ None \notin Refund
    /\ None \notin [Approvals -> Row \cup {None}]

In(app, a, table) == app[a] # None /\ app[a].table = table
Between(app, p, u, table) ==
    {a \in Approvals : In(app, a, table) /\ app[a].payer = p /\ app[a].user = u}
Left(app, a) == app[a].amount - app[a].used
Sum(S, f) == SumFunctionOnSet(f, S)
LeftOf(app, S) == Sum(S, [a \in S |-> Left(app, a)])
UsedOf(app, S) == Sum(S, [a \in S |-> app[a].used])
Moved(app, S, table) ==
    [a \in Approvals |-> IF a \in S THEN [app[a] EXCEPT !.table = table] ELSE app[a]]
Smaller(m, n) == IF m < n THEN m ELSE n
Larger(m, n) == IF m < n THEN n ELSE m
ActiveFor(i) == {r \in reservations : r.item = i}

Undisturbed == TrimOverlaps \/ \A t \in Trimmers : trim[t] = None
\* The refunds under way, and what they have done.
refundVars == <<refunding, amiss>>

(***************************************************************************)
(* Credits and approvals.                                                  *)
(***************************************************************************)
atomicCreditUser(u, n) ==
    /\ Undisturbed /\ paidIn + n <= MaxPaidIn /\ paidIn' = paidIn + n
    /\ balance' = [balance EXCEPT ![u] = @ + n]
    /\ UNCHANGED <<approval, reservations, reserving, trim, refundVars>>

\* An approval's id is refused for good, whichever table it is in.
createDelegatedPaymentApproval(a, p, u, n) ==
    /\ Undisturbed /\ approval[a] = None /\ balance[p] >= n
    /\ ~ApprovalsShared => \A b \in Approvals : approval[b] # None =>
                              <<approval[b].payer, approval[b].user>> # <<p, u>>
    /\ approval' = [approval EXCEPT ![a] = [payer |-> p, user |-> u, amount |-> n,
                        used |-> 0, due |-> FALSE, table |-> "active"]]
    /\ balance' = [balance EXCEPT ![p] = @ - n]
    /\ UNCHANGED <<reservations, reserving, trim, paidIn, refundVars>>

\* The expiration date of an approval passes: nothing happens to its row.
Expire(a) ==
    /\ Undisturbed /\ In(approval, a, "active") /\ ~approval[a].due
    /\ approval' = [approval EXCEPT ![a].due = TRUE]
    /\ UNCHANGED <<balance, reservations, reserving, trim, paidIn, refundVars>>

\* Approvals already used up are marked too, so that a refund finds the payer.
revokeDelegatedPaymentApprovals(p, u) ==
    LET gone == Between(approval, p, u, "active")
        used == Between(approval, p, u, "used")
    IN
    /\ Undisturbed /\ gone \cup used # {}
    /\ approval' = Moved(approval, gone \cup used, "revoked")
    /\ balance' = [balance EXCEPT ![p] = @ + LeftOf(approval, gone)]
    /\ UNCHANGED <<reservations, reserving, trim, paidIn, refundVars>>

(***************************************************************************)
(* reserveBalance.                                                         *)
(***************************************************************************)

\* The lookup before: nothing locks an item that has no row.
reserveBalance(c, i) ==
    /\ Undisturbed /\ reserving[c] = None /\ ActiveFor(i) = {}
    /\ reserving' = [reserving EXCEPT ![c] = i]
    /\ UNCHANGED <<balance, approval, reservations, trim, paidIn, refundVars>>

\* useBalanceAndApprovals: payers of the list in turn, each as far as it goes,
\* and the signer for the rest, unless the list is all that may be used.
Offer(u, p) == IF p = u THEN balance[u]
               ELSE LeftOf(approval, Between(approval, p, u, "active"))
Ahead(list, p) == {list[j] : j \in {j \in DOMAIN list : \E k \in DOMAIN list : j < k /\ list[k] = p}}
Rest(u, w, payers) == Larger(0, w - Sum(payers, [p \in payers |-> Offer(u, p)]))
Shares(u, w, list, listOnly) ==
    LET asked == [p \in Users |-> IF p \in Range(list)
                                  THEN Smaller(Offer(u, p), Rest(u, w, Ahead(list, p))) ELSE 0]
        mayOverflow == (list = <<>> \/ ~listOnly) /\ asked[u] = 0
    IN  IF mayOverflow THEN [asked EXCEPT ![u] = Rest(u, w, Range(list))] ELSE asked

Covers(u, w, shares) == Sum(Users, shares) = w /\ shares[u] <= balance[u]
SignerOnly(u, shares) == \A p \in Users \ {u} : shares[p] = 0

\* What each approval gives: those of a payer are drained one after the other, in
\* the order the query happens to return them, so at most one is left half used.
Draws(u, w, shares) ==
    {d \in [Approvals -> 0..w] :
        /\ \A a \in Approvals : d[a] > 0 =>
              /\ In(approval, a, "active") /\ approval[a].user = u /\ approval[a].payer # u
              /\ d[a] <= Left(approval, a)
        /\ \A p \in Users \ {u} :
              LET from == Between(approval, p, u, "active") IN
              /\ Sum(from, d) = shares[p]
              /\ Cardinality({a \in from : d[a] \in 1..(Left(approval, a) - 1)}) <= 1}
Drawn(d) ==
    [a \in Approvals |->
        IF d[a] = 0 THEN approval[a]
        ELSE [approval[a] EXCEPT !.used = @ + d[a],
                 !.table = IF Left(approval, a) = d[a] THEN "used" ELSE "active"]]

\* Mutant: the row is inserted without a unique index.
ReserveUnindexed(c, w, list, listOnly) ==
    LET i == reserving[c]
        u == SignerOf[i]
        shares == Shares(u, w, list, listOnly)
    IN
    /\ Undisturbed /\ i # None
    /\ reserving' = [reserving EXCEPT ![c] = None]
    /\ IF Covers(u, w, shares)
       THEN \E d \in Draws(u, w, shares) :
              /\ balance' = [balance EXCEPT ![u] = @ - shares[u]]
              /\ approval' = Drawn(d)
              /\ reservations' = reservations \cup
                     {[by |-> c, item |-> i, winc |-> w,
                       spend |-> IF SignerOnly(u, shares) THEN None ELSE shares]}
       ELSE UNCHANGED <<balance, approval, reservations>>
    /\ UNCHANGED <<trim, paidIn, refundVars>>
\* The rest of the transaction.  It rolls back when a payer is short, and when a row
\* of the item was committed meanwhile (the unique index), which counts as done.
ReserveCommit(c, w, list, listOnly) ==
    LET i == reserving[c]
        u == SignerOf[i]
        shares == Shares(u, w, list, listOnly)
    IN
    /\ Undisturbed /\ i # None
    /\ reserving' = [reserving EXCEPT ![c] = None]
    /\ IF Covers(u, w, shares) /\ ActiveFor(i) = {}
       THEN \E d \in Draws(u, w, shares) :
              /\ balance' = [balance EXCEPT ![u] = @ - shares[u]]
              /\ approval' = Drawn(d)
              /\ reservations' = reservations \cup
                     {[by |-> c, item |-> i, winc |-> w,
                       spend |-> IF SignerOnly(u, shares) THEN None ELSE shares]}
       ELSE UNCHANGED <<balance, approval, reservations>>
    /\ UNCHANGED <<trim, paidIn, refundVars>>

(***************************************************************************)
(* refundBalance: refundWincFromOverflowSpend gives the payers of an item  *)
(* what they spent, each on the approvals the signer u has from it, the    *)
(* active ones first, until what it spent has been found.  The reservation *)
(* and the approvals are read without a lock, and what was used of an      *)
(* approval is written as worked out from what was read.  (The reads of    *)
(* the approvals of all payers are one step, and so are all the writes.)   *)
(***************************************************************************)

\* The signer gets what the request names, a payer of the list what it had spent.
BySigner(u, w) == [p \in Users |-> IF p = u THEN w ELSE 0]
SpendOf(u, r) == IF r.spend = None THEN BySigner(u, r.winc) ELSE r.spend
Refunding(f, r) == refunding' = [refunding EXCEPT ![f] = r]
NoApprovals == [a \in Approvals |-> None]

\* The active reservation of the item, or none, in which case the signer is paid.
refundBalance(f, i, w) ==
    /\ Undisturbed /\ refunding[f] = None
    /\ \/ \E r \in ActiveFor(i) :
             /\ w = r.winc
             /\ Refunding(f, [item |-> i, row |-> r, spend |-> SpendOf(SignerOf[i], r),
                              seen |-> IF r.spend = None THEN NoApprovals ELSE None])
       \/ /\ ActiveFor(i) = {}
          /\ Refunding(f, [item |-> i, row |-> None, spend |-> BySigner(SignerOf[i], w),
                           seen |-> NoApprovals])
    /\ UNCHANGED <<balance, approval, reservations, reserving, trim, paidIn, amiss>>

\* safeGetApprovalsFromPayerForAddress, and the inactive ones.  The expired are trimmed
\* when they are read: by statements of their own, which stay when the refund fails.
Lapsing(u, spend) ==
    {a \in Approvals : /\ In(approval, a, "active") /\ approval[a].due
                       /\ approval[a].user = u /\ approval[a].payer # u
                       /\ spend[approval[a].payer] > 0}
Asked(app, u, spend) ==
    [a \in Approvals |-> IF /\ app[a] # None /\ app[a].user = u /\ app[a].payer # u
                            /\ spend[app[a].payer] > 0
                         THEN app[a] ELSE None]
ToTrim(gone) ==
    [step |-> "move", gone |-> gone, seen |-> balance,
     owed |-> [p \in Users |-> LeftOf(approval, {a \in gone : approval[a].payer = p})]]
RefundApprovals(f) ==
    LET u == SignerOf[refunding[f].item]
        spend == refunding[f].spend
        gone == Lapsing(u, spend)
    IN
    /\ Undisturbed /\ refunding[f] # None /\ refunding[f].seen = None
    /\ Refunding(f, [refunding[f] EXCEPT !.seen = Asked(Moved(approval, gone, "expired"), u, spend)])
    /\ trim' = IF gone = {} THEN trim ELSE [trim EXCEPT ![f] = ToTrim(gone)]
    /\ UNCHANGED <<balance, approval, reservations, reserving, paidIn, amiss>>

\* What the approvals visited before one make up for: not the expired and revoked.
Found(app, order, a) ==
    LET before(b) == \/ app[b].table = "active" /\ app[a].table # "active"
                     \/ (app[b].table = "active" <=> app[a].table = "active") /\ order[b] < order[a]
    IN  UsedOf(app, {b \in Between(app, app[a].payer, app[a].user, "active")
                          \cup Between(app, app[a].payer, app[a].user, "used") : before(b)})
Visited(seen, spend, order) ==
    {a \in Approvals : seen[a] # None /\ Found(seen, order, a) < spend[seen[a].payer]}

\* Mutant: an active approval is not updated.
GiveActiveNothing(row, used, share) == row
\* The comparison is with the payer's whole share, not with what remains of it.  A row
\* that is not active any more is not found, and that is all.
GiveActive(row, used, share) ==
    IF row.table = "active" THEN [row EXCEPT !.used = IF used >= share THEN used - share ELSE 0]
    ELSE row

\* Mutant: an approval that was used up stays inactive.
GiveInactiveStays(row, rest) == [row EXCEPT !.used = @ - Smaller(@, rest)]
GiveInactive(row, rest) == [row EXCEPT !.used = @ - Smaller(@, rest), !.table = "active"]

GiveBack(seen, spend, order) ==
    [a \in Approvals |->
        IF a \notin Visited(seen, spend, order) THEN approval[a]
        ELSE CASE seen[a].table = "active" ->
                     GiveActive(approval[a], seen[a].used, spend[seen[a].payer])
               [] seen[a].table = "used" ->
                     GiveInactive(approval[a], spend[seen[a].payer] - Found(seen, order, a))
               [] OTHER -> approval[a]]

\* All an expired or revoked approval ever paid goes to its payer's balance.
Lapsed(seen, spend, order) ==
    {a \in Visited(seen, spend, order) : seen[a].table \in {"revoked", "expired"}}
Repaid(seen, u, spend, order) ==
    [p \in Users |-> balance[p] +
        IF p = u THEN spend[u]
        ELSE UsedOf(seen, {a \in Lapsed(seen, spend, order) : seen[a].payer = p})]

\* An approval that was used up, and that another refund has made active again.
TakenBack(seen, spend, order) ==
    {a \in Visited(seen, spend, order) : seen[a].table = "used" /\ approval[a].table = "active"}
Orders == {order \in [Approvals -> 1..Cardinality(Approvals)] :
              \A a, b \in Approvals : order[a] = order[b] => a = b}
refundWincFromOverflowSpend(seen, u, spend) ==
    \E order \in Orders :
        /\ LapsedShared \/ \A a \in Lapsed(seen, spend, order) : seen[a].used = spend[seen[a].payer]
        /\ TakenBack(seen, spend, order) = {}
        /\ balance' = Repaid(seen, u, spend, order)
        /\ approval' = GiveBack(seen, spend, order)

\* Whether the signer's approvals from p are not those the refund has read.
Differs(r, p) ==
    \E a \in Approvals :
        /\ approval[a] # None /\ approval[a].payer = p /\ approval[a].user = SignerOf[r.item]
        /\ \/ r.seen[a] = None
           \/ r.seen[a].used # approval[a].used \/ r.seen[a].table # approval[a].table
\* The users paid for a reservation that is not active (any more), and the payers whose
\* approvals are written as worked out from others.
Misread(r) ==
    {p \in Users : /\ r.spend[p] > 0
                   /\ r.row = None \/ (p # SignerOf[r.item] /\ Differs(r, p))}

\* The transaction's writes, and its commit: the row is marked by its id.
RefundCommit(f) ==
    LET r == refunding[f]
        u == SignerOf[r.item]
    IN
    /\ Undisturbed /\ r # None /\ trim[f] = None /\ r.seen # None
    /\ refundWincFromOverflowSpend(r.seen, u, r.spend)
    /\ Misread(r) # {} => Sum(Users \X Users, amiss) < MaxAmiss
    /\ amiss' = [pu \in Users \X Users |->
                    IF pu[2] = u /\ pu[1] \in Misread(r) THEN amiss[pu] + 1 ELSE amiss[pu]]
    /\ reservations' = reservations \ {r.row}
    /\ refunding' = [g \in Refunders |->
          IF g = f THEN None
          ELSE IF refunding[g] # None /\ refunding[g].row = r.row
               THEN [refunding[g] EXCEPT !.row = None] ELSE refunding[g]]
    /\ UNCHANGED <<reserving, trim, paidIn>>

\* A statement that fails, as one on a row taken back does, rolls everything back.
RefundFails(f) ==
    /\ Undisturbed /\ refunding[f] # None /\ trim[f] = None
    /\ Refunding(f, None)
    /\ UNCHANGED <<balance, approval, reservations, reserving, trim, paidIn, amiss>>

(***************************************************************************)
(* trimExpiredApprovals, by a reader of a user's approvals or by a refund.  *)
(***************************************************************************)
TrimRead(t, u) ==
    LET gone == {a \in Approvals : /\ In(approval, a, "active") /\ approval[a].due
                                   /\ u \in {approval[a].payer, approval[a].user}}
    IN
    /\ Undisturbed /\ trim[t] = None /\ gone # {}
    /\ trim' = [trim EXCEPT ![t] = ToTrim(gone)]
    /\ UNCHANGED <<balance, approval, reservations, reserving, paidIn, refundVars>>

\* A row another reader took is skipped, but it is still owed for.  The balances
\* are read next, by statements of their own that lock nothing.
TrimMove(t) ==
    /\ trim[t] # None /\ trim[t].step = "move"
    /\ approval' = Moved(approval, {a \in trim[t].gone : In(approval, a, "active")}, "expired")
    /\ trim' = [trim EXCEPT ![t].step = "pay", ![t].seen = balance]
    /\ UNCHANGED <<balance, reservations, reserving, paidIn, refundVars>>

\* Mutant: what was used of an expired approval is paid back too.
TrimPaysUsed(t) ==
    /\ trim[t] # None /\ trim[t].step = "pay"
    /\ balance' = [p \in Users |-> balance[p] +
           LET owedFor == {a \in trim[t].gone : approval[a].payer = p}
           IN  Sum(owedFor, [a \in owedFor |-> approval[a].amount])]
    /\ trim' = [trim EXCEPT ![t] = None]
    /\ UNCHANGED <<approval, reservations, reserving, paidIn, refundVars>>
TrimPay(t) ==
    /\ trim[t] # None /\ trim[t].step = "pay"
    /\ balance' = [p \in Users |-> IF trim[t].owed[p] = 0 THEN balance[p]
                                  ELSE trim[t].seen[p] + trim[t].owed[p]]
    /\ trim' = [trim EXCEPT ![t] = None]
    /\ UNCHANGED <<approval, reservations, reserving, paidIn, refundVars>>

(***************************************************************************)
(* The ledger.                                                             *)
(***************************************************************************)
Init ==
    /\ balance = Opening /\ approval = [a \in Approvals |-> None]
    /\ reservations = {} /\ reserving = [c \in Callers |-> None]
    /\ trim = [t \in Trimmers |-> None] /\ paidIn = 0
    /\ refunding = [f \in Refunders |-> None] /\ amiss = [pu \in Users \X Users |-> 0]

Next ==
    \/ \E u \in Users, n \in Amounts : atomicCreditUser(u, n)
    \/ \E a \in Approvals, p \in Users, u \in Approved, n \in Amounts :
          p # u /\ createDelegatedPaymentApproval(a, p, u, n)
    \/ \E a \in Approvals : Expire(a)
    \/ \E p, u \in Users : revokeDelegatedPaymentApprovals(p, u)
    \/ \E c \in Callers, i \in Items : reserveBalance(c, i)
    \/ \E c \in Callers, w \in Costs, list \in PaidBy, listOnly \in BOOLEAN :
          ReserveCommit(c, w, list, listOnly)
    \/ \E f \in Refunders, i \in Items, w \in Costs : refundBalance(f, i, w)
    \/ \E f \in Refunders : RefundApprovals(f) \/ RefundCommit(f) \/ RefundFails(f)
    \/ \E t \in Readers, u \in Users : TrimRead(t, u)
    \/ \E t \in Trimmers : TrimMove(t) \/ TrimPay(t)

Spec == Init /\ [][Next]_vars

(***************************************************************************)
(* Properties.                                                             *)
(***************************************************************************)

\* Every variable has its type: no balance is below zero and no approval gives more
\* than its amount, whoever spends, revokes or refunds.
TypeOK ==
    /\ balance \in [Users -> Nat] /\ paidIn \in 0..MaxPaidIn
    /\ approval \in [Approvals -> Row \cup {None}]
    /\ \A a \in Approvals : approval[a] # None =>
          /\ approval[a].used <= approval[a].amount
          /\ approval[a].table = "active" => approval[a].used < approval[a].amount
          /\ approval[a].table = "used" => approval[a].used = approval[a].amount
    /\ reservations \subseteq Reservation
    /\ reserving \in [Callers -> Items \cup {None}]
    /\ refunding \in [Refunders -> Refund \cup {None}]
    /\ trim \in [Trimmers -> Trimming \cup {None}]
    /\ amiss \in [Users \X Users -> Nat]

\* However many reserve requests of an item run at once, it has one reservation that
\* is not refunded: reserveBalance's lookup does not lock, the unique index decides.
OneReservation == \A r1, r2 \in reservations : r1.item = r2.item => r1 = r2

\* What the approvals of a payer have been used for is what the reservations say that
\* payer spent, whichever reserves, revokes and refunds overlap: as long as no refund
\* wrote over rows of these two users that were no longer as it had read them, and no
\* approval expired or was revoked (what such an approval paid is given back at once and
\* stays recorded as used).
SpentBy(p, r) == IF r.spend = None THEN 0 ELSE r.spend[p]
Spent(p, u) == LET held == {r \in reservations : SignerOf[r.item] = u}
               IN  Sum(held, [r \in held |-> SpentBy(p, r)])
UsedIsReserved ==
    \A p, u \in Users :
        (/\ p # u /\ amiss[<<p, u>>] = 0
         /\ \A t \in {"revoked", "expired"} : Between(approval, p, u, t) = {}) =>
            UsedOf(approval, Between(approval, p, u, "active") \cup Between(approval, p, u, "used"))
            = Spent(p, u)

\* The wallets, the approvals and the credits on their way between them add up as
\* Ledger says, as long as every refund found what it had read: an item is charged its
\* price once and refunded what it was charged, although what a refund reads is not locked.
OnTheWay(t) == IF trim[t] # None /\ trim[t].step = "pay" THEN Sum(Users, trim[t].owed) ELSE 0
Credit ==
    Sum(Users, balance)
    + LeftOf(approval, {a \in Approvals : In(approval, a, "active")})
    + Sum(Trimmers, [t \in Trimmers |-> OnTheWay(t)])
Held == [i \in Items |-> Sum(ActiveFor(i), [r \in ActiveFor(i) |-> r.winc])]
NoneAmiss == \A pu \in Users \X Users : amiss[pu] = 0
Promise == INSTANCE Ledger WITH credit <- Credit, held <- Held, sound <- NoneAmiss
ImplementsLedger == Promise!Spec

\* When no request trims and every refund found what it had read, nobody has gained
\* credit: what is at hand and what is reserved is what the users began with and bought.
NoFreeCredit ==
    (NoneAmiss /\ \A t \in Trimmers : trim[t] = None) =>
        Credit + Sum(Items, Held) <= Sum(Users, Opening) + paidIn
=============================================================================
