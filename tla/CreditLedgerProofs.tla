------------------------- MODULE CreditLedgerProofs -------------------------
(***************************************************************************)
(* Proofs about CreditLedger, for any finite sets of users, approvals,     *)
(* readers and refunders, any items, callers, prices and lists of payers.  *)
(* Types and OneReservation hold whatever the flags are.  That used        *)
(* amounts equal reservations needs one approval per pair of users, and    *)
(* that the whole adds up as Ledger says needs the conditions of InScope:  *)
(* without either of ~TrimOverlaps and ~LapsedShared TLC finds it violated. *)
(* What refunds do that overlap others is in: amiss counts where one wrote *)
(* over what was no longer as it had read it.                              *)
(*                                                                         *)
(* Sums over wallets, approvals, readers and reservations are taken apart  *)
(* with the facts of SumTheorems.                                          *)
(***************************************************************************)
EXTENDS CreditLedger, SumTheorems, TLAPS

(***************************************************************************)
(* Types.                                                                  *)
(***************************************************************************)

\* A row of a table: nobody gives to itself, an active row has something left, a used
\* one has not.

RowSound(row) ==
    /\ row \in Row /\ row.payer # row.user /\ row.amount > 0 /\ row.used <= row.amount
    /\ row.table = "active" => row.used < row.amount
    /\ row.table = "used" => row.used = row.amount
Sound(app) == \A a \in Approvals : app[a] # None => RowSound(app[a])
Mapping(app) == app \in [Approvals -> Row \cup {None}]

\* TypeOK with what it rests on: the rows are sound and the reservations finitely many.
TypeInv ==
    /\ balance \in [Users -> Nat] /\ paidIn \in 0..MaxPaidIn
    /\ Mapping(approval) /\ Sound(approval)
    /\ reservations \subseteq Reservation /\ IsFiniteSet(reservations)
    /\ reserving \in [Callers -> Items \cup {None}]
    /\ refunding \in [Refunders -> Refund \cup {None}]
    /\ trim \in [Trimmers -> Trimming \cup {None}]
    /\ amiss \in [Users \X Users -> Nat]

\* What a refund has read: its row, if any, is a reservation of its item, and the rows of
\* the approvals stand for approvals of the signer that are still there.
Alike(row, old) == row.payer = old.payer /\ row.user = old.user /\ row.amount = old.amount
StandsFor(seen, app, u, spend) ==
    /\ Mapping(seen) /\ Sound(seen)
    /\ \A a \in Approvals : seen[a] # None =>
          /\ app[a] # None /\ Alike(app[a], seen[a])
          /\ seen[a].user = u /\ spend[seen[a].payer] > 0
Reading(r, app, held) ==
    /\ r.row # None => /\ r.row \in held /\ r.row.item = r.item
                       /\ r.spend = SpendOf(SignerOf[r.item], r.row)
    /\ r.seen # None => StandsFor(r.seen, app, SignerOf[r.item], r.spend)
Refunds == \A f \in Refunders : refunding[f] # None => Reading(refunding[f], approval, reservations)

LEMMA TypeInvTyped == TypeInv => TypeOK
BY DEF TypeInv, TypeOK, Mapping, Sound, RowSound

\* What rows have left, and were used for, is never negative.
LEMMA LeftNat ==
    ASSUME NEW app, NEW S \in SUBSET Approvals, \A a \in S : RowSound(app[a])
    PROVE  /\ LeftOf(app, S) \in Nat
           /\ \A a \in S : Left(app, a) \in Nat
<1>1. IsFiniteSet(S)
  BY LedgerAssumption, FS_Subset
<1>2. \A a \in S : [b \in S |-> Left(app, b)][a] \in Nat
  BY DEF RowSound, Row, Left
<1> QED BY <1>1, <1>2, SumNat DEF LeftOf, Sum

LEMMA UsedNat ==
    ASSUME NEW app, NEW S \in SUBSET Approvals, \A a \in S : RowSound(app[a])
    PROVE  UsedOf(app, S) \in Nat
<1>1. IsFiniteSet(S)
  BY LedgerAssumption, FS_Subset
<1>2. \A a \in S : [b \in S |-> app[b].used][a] \in Nat
  BY DEF RowSound, Row
<1> QED BY <1>1, <1>2, SumNat DEF UsedOf, Sum

\* Rows that leave the active table, or the used one when they are revoked, stay sound.
LEMMA MovedSound ==
    ASSUME NEW app, Mapping(app), Sound(app), NEW S \in SUBSET Approvals,
           \A a \in S : app[a] # None, NEW table \in {"revoked", "expired"}
    PROVE  Mapping(Moved(app, S, table)) /\ Sound(Moved(app, S, table))
<1>1. \A a \in S : app[a] \in Row /\ RowSound(app[a])
  BY DEF Sound, Mapping, RowSound
<1>2. ASSUME NEW a \in S
      PROVE  /\ [app[a] EXCEPT !.table = table] \in Row
             /\ RowSound([app[a] EXCEPT !.table = table])
  BY <1>1 DEF RowSound, Row, Tables
<1>3. \A a \in Approvals : Moved(app, S, table)[a] =
          IF a \in S THEN [app[a] EXCEPT !.table = table] ELSE app[a]
  BY DEF Moved
<1> QED BY <1>2, <1>3 DEF Mapping, Sound, Moved

LEMMA InitTyped == Init => TypeInv /\ Refunds
BY LedgerAssumption, FS_EmptySet DEF Init, TypeInv, Mapping, Sound, Refunds

LEMMA CreditTyped ==
    ASSUME TypeInv, NEW u \in Users, NEW n \in Amounts, atomicCreditUser(u, n)
    PROVE  TypeInv'
<1>1. n \in Nat /\ balance' = [balance EXCEPT ![u] = @ + n] /\ paidIn' = paidIn + n /\ paidIn + n <= MaxPaidIn
  BY LedgerAssumption DEF atomicCreditUser
<1>2. balance' \in [Users -> Nat] /\ paidIn' \in 0..MaxPaidIn
  BY <1>1, LedgerAssumption DEF TypeInv
<1> QED BY <1>2 DEF TypeInv, atomicCreditUser, Mapping, Sound, RowSound, refundVars

LEMMA CreateTyped ==
    ASSUME TypeInv, NEW a \in Approvals, NEW p \in Users, NEW u \in Users, NEW n \in Amounts,
           p # u, createDelegatedPaymentApproval(a, p, u, n)
    PROVE  TypeInv'
<1> DEFINE row == [payer |-> p, user |-> u, amount |-> n, used |-> 0, due |-> FALSE,
                   table |-> "active"]
<1>1. n \in Nat /\ n > 0 /\ balance[p] >= n /\ balance' = [balance EXCEPT ![p] = @ - n]
  BY LedgerAssumption DEF createDelegatedPaymentApproval
<1>2. balance' \in [Users -> Nat]
  BY <1>1 DEF TypeInv
<1>3. row \in Row /\ RowSound(row)
  BY <1>1 DEF Row, RowSound, Tables
<1>4. approval' = [approval EXCEPT ![a] = row]
  BY DEF createDelegatedPaymentApproval
<1> HIDE DEF row
<1>5. Mapping(approval)' /\ Sound(approval)'
  BY <1>3, <1>4 DEF TypeInv, Mapping, Sound
<1> QED BY <1>2, <1>5 DEF TypeInv, createDelegatedPaymentApproval, refundVars

LEMMA ExpireTyped ==
    ASSUME TypeInv, NEW a \in Approvals, Expire(a)
    PROVE  TypeInv'
<1>1. approval[a] # None /\ approval[a] \in Row /\ RowSound(approval[a])
  BY DEF TypeInv, Expire, In, Mapping, Sound
<1>2. [approval[a] EXCEPT !.due = TRUE] \in Row /\ RowSound([approval[a] EXCEPT !.due = TRUE])
  BY <1>1 DEF Row, RowSound
<1>3. approval' = [approval EXCEPT ![a] = [approval[a] EXCEPT !.due = TRUE]]
  BY DEF Expire
<1>4. Mapping(approval)' /\ Sound(approval)'
  BY <1>2, <1>3 DEF TypeInv, Mapping, Sound
<1> QED BY <1>4 DEF TypeInv, Expire, refundVars

LEMMA RevokeTyped ==
    ASSUME TypeInv, NEW p \in Users, NEW u \in Users, revokeDelegatedPaymentApprovals(p, u)
    PROVE  TypeInv'
<1> DEFINE gone == Between(approval, p, u, "active")
           used == Between(approval, p, u, "used")
<1>1. /\ approval' = Moved(approval, gone \cup used, "revoked")
      /\ balance' = [balance EXCEPT ![p] = @ + LeftOf(approval, gone)]
  BY DEF revokeDelegatedPaymentApprovals
<1>2. gone \in SUBSET Approvals /\ used \in SUBSET Approvals
      /\ \A a \in gone \cup used : approval[a] # None /\ RowSound(approval[a])
  BY DEF Between, In, TypeInv, Sound
<1> HIDE DEF gone, used
<1>3. Mapping(approval)' /\ Sound(approval)'
  BY <1>1, <1>2, MovedSound DEF TypeInv
<1>4. LeftOf(approval, gone) \in Nat
  BY <1>2, LeftNat
<1>5. balance' \in [Users -> Nat]
  BY <1>1, <1>4 DEF TypeInv
<1> QED BY <1>3, <1>5 DEF TypeInv, revokeDelegatedPaymentApprovals, refundVars

\* The two updates of a row that a reserve and a refund make.
Changed(row, used, table) == [row EXCEPT !.used = used, !.table = table]

LEMMA RowChanged ==
    ASSUME NEW row \in Row, NEW used \in Nat, NEW table \in Tables
    PROVE  /\ Changed(row, used, table) \in Row
           /\ Changed(row, used, table).payer = row.payer
           /\ Changed(row, used, table).user = row.user
           /\ Changed(row, used, table).amount = row.amount
           /\ Changed(row, used, table).used = used
           /\ Changed(row, used, table).table = table
<1> DEFINE mid == [row EXCEPT !.used = used]
           new == Changed(row, used, table)
<1>1. mid \in Row /\ mid.used = used /\ mid.payer = row.payer /\ mid.user = row.user
      /\ mid.amount = row.amount
  BY DEF Row
<1>2. new = [mid EXCEPT !.table = table]
  BY DEF Changed
<1> HIDE DEF mid, new
<1>3. new \in Row /\ new.payer = row.payer /\ new.user = row.user
      /\ new.amount = row.amount /\ new.used = used /\ new.table = table
  BY <1>1, <1>2 DEF Row
<1> QED BY <1>3 DEF new

\* A reserve draws no more from an approval than it has left.
LEMMA DrawnSound ==
    ASSUME TypeInv, NEW u \in Users, NEW w \in Nat, NEW shares, NEW d \in Draws(u, w, shares)
    PROVE  Mapping(Drawn(d)) /\ Sound(Drawn(d))
<1>1. ASSUME NEW a \in Approvals
      PROVE  \/ d[a] = 0 /\ Drawn(d)[a] = approval[a]
             \/ Drawn(d)[a] \in Row /\ RowSound(Drawn(d)[a])
  <2>1. d[a] \in Nat
    BY DEF Draws
  <2>2. CASE d[a] = 0
    BY <2>2 DEF Drawn
  <2>3. CASE d[a] > 0
    <3>1. In(approval, a, "active") /\ d[a] <= Left(approval, a)
      BY <2>3 DEF Draws
    <3>2. approval[a] \in Row /\ RowSound(approval[a])
      BY <3>1 DEF TypeInv, In, Mapping, Sound
    <3> DEFINE row == approval[a]
               used == row.used + d[a]
               new == [row EXCEPT !.used = @ + d[a],
                          !.table = IF row.amount - row.used = d[a] THEN "used" ELSE "active"]
    <3>3. Drawn(d)[a] = new
      BY <2>3 DEF Drawn, Left
    <3>4. d[a] <= row.amount - row.used
      BY <3>1 DEF Left
    <3> HIDE DEF row
    <3>5. row \in Row /\ RowSound(row)
      BY <3>2 DEF row
    <3>6. row.amount \in Nat /\ "active" \in Tables /\ "used" \in Tables
      BY <3>5 DEF Row, Tables
    <3>7. new \in Row /\ RowSound(new)
      <4>1. CASE row.amount - row.used = d[a]
        <5>1. new = Changed(row, used, "used")
          BY <4>1 DEF Changed
        <5>2. used = row.amount /\ used \in Nat
          BY <2>1, <3>5, <4>1 DEF Row
        <5> HIDE DEF new, used
        <5>3. row \in Row /\ used \in Nat /\ "used" \in Tables
          BY <3>5, <3>6, <5>2
        <5>4. new \in Row
          BY <5>1, <5>3, RowChanged
        <5>5. /\ new.payer = row.payer /\ new.user = row.user /\ new.amount = row.amount
              /\ new.used = used /\ new.table = "used"
          BY <5>1, <5>3, RowChanged
        <5> QED BY <3>5, <3>6, <5>2, <5>4, <5>5 DEF RowSound
      <4>2. CASE row.amount - row.used # d[a]
        <5>1. new = Changed(row, used, "active")
          BY <4>2 DEF Changed
        <5>2. used \in Nat /\ used < row.amount
          BY <2>1, <3>4, <3>5, <4>2 DEF Row
        <5> HIDE DEF new, used
        <5>3. row \in Row /\ used \in Nat /\ "active" \in Tables
          BY <3>5, <3>6, <5>2
        <5>4. new \in Row
          BY <5>1, <5>3, RowChanged
        <5>5. /\ new.payer = row.payer /\ new.user = row.user /\ new.amount = row.amount
              /\ new.used = used /\ new.table = "active"
          BY <5>1, <5>3, RowChanged
        <5> QED BY <3>5, <3>6, <5>2, <5>4, <5>5 DEF RowSound
      <4> QED BY <4>1, <4>2
    <3> QED BY <3>3, <3>7
  <2> QED BY <2>1, <2>2, <2>3
<1> QED BY <1>1 DEF TypeInv, Mapping, Sound, Drawn

\* What each payer of the list is asked for is a natural number.
LEMMA SharesNat ==
    ASSUME TypeInv, NEW u \in Users, NEW w \in Nat, NEW list \in PaidBy, NEW listOnly
    PROVE  Shares(u, w, list, listOnly) \in [Users -> Nat]
<1>1. ASSUME NEW p \in Users PROVE Offer(u, p) \in Nat
  <2>1. Between(approval, p, u, "active") \in SUBSET Approvals
        /\ \A a \in Between(approval, p, u, "active") : RowSound(approval[a])
    BY DEF Between, In, TypeInv, Sound
  <2>2. balance[u] \in Nat
    BY DEF TypeInv
  <2>3. LeftOf(approval, Between(approval, p, u, "active")) \in Nat
    BY <2>1, LeftNat
  <2> QED BY <2>2, <2>3 DEF Offer
<1>2. ASSUME NEW payers \in SUBSET Users PROVE Rest(u, w, payers) \in Nat
  <2>1. IsFiniteSet(payers)
    BY LedgerAssumption, FS_Subset
  <2>2. Sum(payers, [p \in payers |-> Offer(u, p)]) \in Nat
    BY <1>1, <2>1, SumNat DEF Sum
  <2> QED BY <2>2 DEF Rest, Larger
<1>3. Range(list) \in SUBSET Users /\ \A p : Ahead(list, p) \in SUBSET Users
  BY LedgerAssumption DEF Ahead, Range
<1>4. \A p \in Users : Rest(u, w, Ahead(list, p)) \in Nat /\ Rest(u, w, Range(list)) \in Nat
  BY <1>2, <1>3
<1>5. \A p \in Users : Smaller(Offer(u, p), Rest(u, w, Ahead(list, p))) \in Nat
  BY <1>1, <1>4 DEF Smaller
<1> QED BY <1>4, <1>5 DEF Shares

LEMMA ReserveTyped ==
    ASSUME TypeInv, NEW c \in Callers, NEW i \in Items, reserveBalance(c, i)
    PROVE  TypeInv'
BY DEF TypeInv, reserveBalance, Mapping, Sound, refundVars

LEMMA CommitTyped ==
    ASSUME TypeInv, NEW c \in Callers, NEW w \in Costs, NEW list \in PaidBy, NEW listOnly \in BOOLEAN,
           ReserveCommit(c, w, list, listOnly)
    PROVE  TypeInv'
<1> DEFINE i == reserving[c]
           u == SignerOf[i]
           shares == Shares(u, w, list, listOnly)
           row == [by |-> c, item |-> i, winc |-> w,
                   spend |-> IF SignerOnly(u, shares) THEN None ELSE shares]
<1>1. w \in Nat /\ i \in Items /\ u \in Users
  BY LedgerAssumption DEF TypeInv, ReserveCommit
<1>2. shares \in [Users -> Nat]
  BY <1>1, SharesNat
<1>3. reserving' \in [Callers -> Items \cup {None}] /\ UNCHANGED <<trim, paidIn, refunding, amiss>>
  BY DEF ReserveCommit, TypeInv, refundVars
<1>4. \/ UNCHANGED <<balance, approval, reservations>>
      \/ /\ Covers(u, w, shares) /\ balance' = [balance EXCEPT ![u] = @ - shares[u]]
         /\ reservations' = reservations \cup {row}
         /\ \E d \in Draws(u, w, shares) : approval' = Drawn(d)
  BY DEF ReserveCommit
<1>5. row \in Reservation
  BY <1>1, <1>2 DEF Reservation
<1> HIDE DEF i, u, shares, row
<1>6. CASE UNCHANGED <<balance, approval, reservations>>
  BY <1>3, <1>6 DEF TypeInv, Mapping, Sound
<1>7. CASE /\ Covers(u, w, shares) /\ balance' = [balance EXCEPT ![u] = @ - shares[u]]
           /\ reservations' = reservations \cup {row}
           /\ \E d \in Draws(u, w, shares) : approval' = Drawn(d)
  <2>1. balance' \in [Users -> Nat]
    BY <1>1, <1>2, <1>7 DEF TypeInv, Covers
  <2>2. Mapping(approval)' /\ Sound(approval)'
    BY <1>1, <1>7, DrawnSound
  <2>3. reservations' \subseteq Reservation /\ IsFiniteSet(reservations')
    BY <1>5, <1>7, FS_AddElement DEF TypeInv
  <2> QED BY <1>3, <2>1, <2>2, <2>3 DEF TypeInv
<1> QED BY <1>4, <1>6, <1>7

LEMMA LapsingSound ==
    ASSUME TypeInv, NEW u, NEW spend
    PROVE  /\ Lapsing(u, spend) \in SUBSET Approvals
           /\ \A a \in Lapsing(u, spend) : In(approval, a, "active") /\ RowSound(approval[a])
BY DEF Lapsing, In, TypeInv, Sound

\* What a refund reads of the approvals: rows of the signer's, as they will be when the
\* expired are trimmed.
LEMMA AskedSound ==
    ASSUME TypeInv, NEW u, NEW spend, NEW S \in SUBSET Approvals,
           \A a \in S : In(approval, a, "active"),
           NEW seen, seen = Asked(Moved(approval, S, "expired"), u, spend)
    PROVE  StandsFor(seen, approval, u, spend)
<1> DEFINE app == Moved(approval, S, "expired")
<1>1. Mapping(app) /\ Sound(app)
  BY MovedSound DEF TypeInv, In
<1>2. ASSUME NEW a \in Approvals, app[a] # None
      PROVE  approval[a] # None /\ Alike(approval[a], app[a])
  <2>1. app[a] = IF a \in S THEN [approval[a] EXCEPT !.table = "expired"] ELSE approval[a]
    BY DEF Moved
  <2>2. CASE a \in S
    <3>1. approval[a] \in Row /\ approval[a] # None
      BY <2>2 DEF In, TypeInv, Mapping
    <3> QED BY <2>1, <2>2, <3>1 DEF Alike, Row
  <2>3. CASE a \notin S
    <3>1. app[a] = approval[a]
      BY <2>1, <2>3
    <3> QED BY <1>2, <3>1 DEF Alike
  <2> QED BY <2>2, <2>3
<1> HIDE DEF app
<1>3. \A a \in Approvals : seen[a] = IF /\ app[a] # None /\ app[a].user = u /\ app[a].payer # u
                                        /\ spend[app[a].payer] > 0
                                     THEN app[a] ELSE None
  BY DEF Asked, app
<1>4. seen = [a \in Approvals |-> seen[a]]
  BY DEF Asked, app
<1>5. Mapping(seen) /\ Sound(seen)
  BY <1>1, <1>3, <1>4 DEF Mapping, Sound
<1> QED BY <1>2, <1>3, <1>5 DEF StandsFor

\* What a refund found before an approval is never negative, so that what it gives back
\* to an approval leaves a sound row.
LEMMA FoundNat ==
    ASSUME NEW app, Sound(app), NEW order, NEW a
    PROVE  Found(app, order, a) \in Nat
<1> DEFINE before(b) == \/ app[b].table = "active" /\ app[a].table # "active"
                        \/ /\ app[b].table = "active" <=> app[a].table = "active"
                           /\ order[b] < order[a]
           S == {b \in Between(app, app[a].payer, app[a].user, "active")
                         \cup Between(app, app[a].payer, app[a].user, "used") : before(b)}
<1>1. S \in SUBSET Approvals /\ \A b \in S : RowSound(app[b])
  BY DEF Between, In, Sound
<1>2. Found(app, order, a) = UsedOf(app, S)
  BY DEF Found
<1> HIDE DEF S
<1> QED BY <1>1, <1>2, UsedNat

LEMMA GiveBackSound ==
    ASSUME TypeInv, NEW u, NEW spend \in [Users -> Nat], NEW seen, StandsFor(seen, approval, u, spend),
           NEW order, TakenBack(seen, spend, order) = {},
           NEW after, after = GiveBack(seen, spend, order)
    PROVE  /\ Mapping(after) /\ Sound(after)
           /\ \A a \in Approvals : /\ approval[a] = None <=> after[a] = None
                                   /\ approval[a] # None => Alike(after[a], approval[a])
<1>1. ASSUME NEW a \in Approvals
      PROVE  \/ after[a] = approval[a]
             \/ /\ approval[a] # None /\ after[a] \in Row /\ RowSound(after[a])
                /\ Alike(after[a], approval[a])
  <2>1. CASE ~(a \in Visited(seen, spend, order) /\ seen[a].table \in {"active", "used"})
    <3>1. CASE a \notin Visited(seen, spend, order)
      BY <3>1 DEF GiveBack
    <3>2. CASE a \in Visited(seen, spend, order)
      <4>1. seen[a].table # "active" /\ seen[a].table # "used"
        BY <2>1, <3>2
      <4> QED BY <3>2, <4>1 DEF GiveBack
    <3> QED BY <3>1, <3>2
  <2>2. CASE a \in Visited(seen, spend, order) /\ seen[a].table \in {"active", "used"}
    <3> DEFINE old == seen[a]
               row == approval[a]
               share == spend[old.payer]
               rest == share - Found(seen, order, a)
    <3>1. /\ old # None /\ old \in Row /\ RowSound(old) /\ row # None /\ row \in Row
          /\ RowSound(row) /\ Alike(row, old)
      BY <2>2 DEF Visited, StandsFor, Sound, RowSound, TypeInv, Mapping
    <3>2. old.payer \in Users /\ share \in Nat
      BY <3>1 DEF Row
    <3>3. rest \in Nat /\ rest > 0 /\ share > 0
      <4>1. Found(seen, order, a) \in Nat
        BY FoundNat DEF StandsFor
      <4> QED BY <2>2, <3>2, <4>1 DEF Visited
    <3>4. after[a] = IF old.table = "active" THEN GiveActive(row, old.used, share)
                     ELSE GiveInactive(row, rest)
      BY <2>2 DEF GiveBack
    <3>5. old.table = "used" => row.table # "active"
      BY <2>2 DEF TakenBack
    <3> HIDE DEF share, rest
    <3>6. CASE old.table = "active" /\ row.table # "active"
      BY <3>1, <3>4, <3>6 DEF GiveActive
    <3>7. CASE old.table = "active" /\ row.table = "active"
      <4> DEFINE n == IF old.used >= share THEN old.used - share ELSE 0
      <4>1. after[a] = [row EXCEPT !.used = n]
        BY <3>4, <3>7 DEF GiveActive
      <4>2. n \in Nat /\ n < row.amount
        BY <3>1, <3>2, <3>3, <3>7 DEF RowSound, Row, Alike
      <4> HIDE DEF n
      <4>3. after[a] \in Row /\ RowSound(after[a]) /\ Alike(after[a], row)
        BY <3>1, <3>7, <4>1, <4>2 DEF Row, RowSound, Alike
      <4> QED BY <3>1, <4>3
    <3>8. CASE old.table # "active"
      <4> DEFINE left == row.used - Smaller(row.used, rest)
      <4>1. after[a] = Changed(row, left, "active")
        BY <3>4, <3>8 DEF GiveInactive, Changed
      <4>2. left \in Nat /\ row.amount \in Nat /\ left < row.amount
        BY <3>1, <3>3 DEF Row, RowSound, Smaller
      <4> HIDE DEF left
      <4>3. "active" \in Tables
        BY DEF Tables
      <4>4. /\ after[a] \in Row /\ after[a].payer = row.payer /\ after[a].user = row.user
            /\ after[a].amount = row.amount /\ after[a].used = left /\ after[a].table = "active"
        BY <3>1, <4>1, <4>2, <4>3, RowChanged
      <4>5. after[a] \in Row /\ RowSound(after[a]) /\ Alike(after[a], row)
        BY <3>1, <4>2, <4>4 DEF RowSound, Alike
      <4> QED BY <3>1, <4>5
    <3> QED BY <3>6, <3>7, <3>8
  <2> QED BY <2>1, <2>2
<1>2. after = [a \in Approvals |-> after[a]]
  BY DEF GiveBack
<1>3. Mapping(after) /\ Sound(after)
  BY <1>1, <1>2 DEF Mapping, Sound, TypeInv
<1> QED BY <1>1, <1>3, NoneAssumption DEF Alike

LEMMA RepaidNat ==
    ASSUME TypeInv, NEW u \in Users, NEW spend \in [Users -> Nat], NEW seen, Sound(seen), NEW order
    PROVE  Repaid(seen, u, spend, order) \in [Users -> Nat]
<1>1. ASSUME NEW p \in Users
      PROVE  UsedOf(seen, {a \in Lapsed(seen, spend, order) : seen[a].payer = p}) \in Nat
  <2> DEFINE S == {a \in Lapsed(seen, spend, order) : seen[a].payer = p}
  <2>1. S \in SUBSET Approvals /\ \A a \in S : RowSound(seen[a])
    BY DEF Lapsed, Visited, Sound
  <2> HIDE DEF S
  <2>2. UsedOf(seen, S) \in Nat
    BY <2>1, UsedNat
  <2> QED BY <2>2 DEF S
<1>2. \A p \in Users : balance[p] \in Nat /\ spend[u] \in Nat
  BY DEF TypeInv
<1> QED BY <1>1, <1>2 DEF Repaid

\* A refund under way, and what it is to give back.
LEMMA RefundSpends ==
    ASSUME TypeInv, NEW f \in Refunders, refunding[f] # None
    PROVE  /\ refunding[f] \in Refund /\ refunding[f].item \in Items
           /\ SignerOf[refunding[f].item] \in Users /\ refunding[f].spend \in [Users -> Nat]
BY LedgerAssumption DEF TypeInv, Refund

LEMMA SpendTyped ==
    ASSUME NEW u \in Users, NEW r \in Reservation
    PROVE  SpendOf(u, r) \in [Users -> Nat]
<1>1. r.winc \in Nat /\ (r.spend = None \/ r.spend \in [Users -> Nat])
  BY LedgerAssumption DEF Reservation
<1> QED BY <1>1 DEF SpendOf, BySigner

\* What a refund has read when it has looked for the reservation.
LEMMA RefundBegins ==
    ASSUME TypeInv, NEW f \in Refunders, NEW i \in Items, NEW w \in Costs, refundBalance(f, i, w)
    PROVE  /\ UNCHANGED <<balance, approval, reservations, reserving, trim, paidIn, amiss>>
           /\ \E r \in Refund : refunding' = [refunding EXCEPT ![f] = r] /\ Reading(r, approval, reservations)
<1> DEFINE u == SignerOf[i]
<1>1. u \in Users /\ w \in Nat
  BY LedgerAssumption
<1>2. NoApprovals \in [Approvals -> Row \cup {None}] /\ NoApprovals # None
      /\ StandsFor(NoApprovals, approval, u, [p \in Users |-> 0])
      /\ \A spend : StandsFor(NoApprovals, approval, u, spend)
  BY NoneAssumption DEF NoApprovals, StandsFor, Mapping, Sound
<1>3. ASSUME NEW r \in ActiveFor(i)
      PROVE  LET q == [item |-> i, row |-> r, spend |-> SpendOf(u, r),
                       seen |-> IF r.spend = None THEN NoApprovals ELSE None]
             IN  q \in Refund /\ Reading(q, approval, reservations)
  <2> DEFINE spend == SpendOf(u, r)
             seen == IF r.spend = None THEN NoApprovals ELSE None
             q == [item |-> i, row |-> r, spend |-> spend, seen |-> seen]
  <2>1. r \in reservations /\ r.item = i /\ r \in Reservation
    BY DEF ActiveFor, TypeInv
  <2>2. spend \in [Users -> Nat]
    BY <1>1, <2>1, SpendTyped
  <2>3. seen \in [Approvals -> Row \cup {None}] \cup {None} /\ (seen # None => seen = NoApprovals)
    BY <1>2
  <2> HIDE DEF seen
  <2>4. q.item = i /\ q.row = r /\ q.spend = SpendOf(u, r) /\ q.seen = seen
    OBVIOUS
  <2> HIDE DEF spend
  <2>5. q \in Refund
    BY <2>1, <2>2, <2>3 DEF Refund
  <2> HIDE DEF q
  <2>6. Reading(q, approval, reservations)
    BY <1>2, <2>1, <2>3, <2>4 DEF Reading
  <2> QED BY <2>5, <2>6 DEF q, spend, seen
<1>4. LET q == [item |-> i, row |-> None, spend |-> BySigner(u, w), seen |-> NoApprovals]
      IN  q \in Refund /\ Reading(q, approval, reservations)
  <2>1. BySigner(u, w) \in [Users -> Nat]
    BY <1>1 DEF BySigner
  <2> QED BY <1>2, <2>1 DEF Refund, Reading
<1>5. UNCHANGED <<balance, approval, reservations, reserving, trim, paidIn, amiss>>
  BY DEF refundBalance
<1> QED BY <1>3, <1>4, <1>5 DEF refundBalance, Refunding

LEMMA RefundBeginsTyped ==
    ASSUME TypeInv, NEW f \in Refunders, NEW i \in Items, NEW w \in Costs, refundBalance(f, i, w)
    PROVE  TypeInv'
BY RefundBegins DEF TypeInv, Mapping, Sound

LEMMA RefundReads ==
    ASSUME TypeInv, NEW f \in Refunders, RefundApprovals(f)
    PROVE  /\ refunding[f] # None
           /\ \E seen \in [Approvals -> Row \cup {None}], gone \in SUBSET Approvals :
                 /\ StandsFor(seen, approval, SignerOf[refunding[f].item], refunding[f].spend)
                 /\ refunding' = [refunding EXCEPT ![f] = [refunding[f] EXCEPT !.seen = seen]]
                 /\ \A a \in gone : In(approval, a, "active") /\ RowSound(approval[a])
                 /\ trim' = trim \/ trim' = [trim EXCEPT ![f] = ToTrim(gone)]
           /\ Undisturbed
           /\ UNCHANGED <<balance, approval, reservations, reserving, paidIn, amiss>>
<1> DEFINE u == SignerOf[refunding[f].item]
           spend == refunding[f].spend
           gone == Lapsing(u, spend)
           seen == Asked(Moved(approval, gone, "expired"), u, spend)
<1>1. gone \in SUBSET Approvals /\ \A a \in gone : In(approval, a, "active") /\ RowSound(approval[a])
  BY LapsingSound
<1>2. StandsFor(seen, approval, u, spend)
  <2> HIDE DEF gone
  <2> QED BY <1>1, AskedSound
<1>3. seen \in [Approvals -> Row \cup {None}]
  BY <1>2 DEF StandsFor, Mapping
<1>4. /\ refunding' = [refunding EXCEPT ![f] = [refunding[f] EXCEPT !.seen = seen]]
      /\ refunding[f] # None /\ Undisturbed
      /\ trim' = trim \/ trim' = [trim EXCEPT ![f] = ToTrim(gone)]
      /\ UNCHANGED <<balance, approval, reservations, reserving, paidIn, amiss>>
  BY DEF RefundApprovals, Refunding
<1> HIDE DEF seen, gone
<1> QED BY <1>1, <1>2, <1>3, <1>4

\* What is read before a trim is of the right type.
LEMMA ToTrimTyped ==
    ASSUME TypeInv, NEW gone \in SUBSET Approvals, \A a \in gone : RowSound(approval[a])
    PROVE  ToTrim(gone) \in Trimming
<1>1. ASSUME NEW p \in Users
      PROVE  LeftOf(approval, {a \in gone : approval[a].payer = p}) \in Nat
  <2> DEFINE S == {a \in gone : approval[a].payer = p}
  <2>1. S \in SUBSET Approvals /\ \A a \in S : RowSound(approval[a])
    OBVIOUS
  <2> HIDE DEF S
  <2>2. LeftOf(approval, S) \in Nat
    BY <2>1, LeftNat
  <2> QED BY <2>2 DEF S
<1> QED BY <1>1 DEF ToTrim, Trimming, TypeInv

LEMMA RefundReadsTyped ==
    ASSUME TypeInv, NEW f \in Refunders, RefundApprovals(f)
    PROVE  TypeInv'
<1>1. PICK seen \in [Approvals -> Row \cup {None}], gone \in SUBSET Approvals :
             /\ refunding' = [refunding EXCEPT ![f] = [refunding[f] EXCEPT !.seen = seen]]
             /\ \A a \in gone : In(approval, a, "active") /\ RowSound(approval[a])
             /\ trim' = trim \/ trim' = [trim EXCEPT ![f] = ToTrim(gone)]
  BY RefundReads
<1>2. refunding[f] \in Refund /\ UNCHANGED <<balance, approval, reservations, reserving, paidIn, amiss>>
  BY RefundReads, RefundSpends
<1>3. [refunding[f] EXCEPT !.seen = seen] \in Refund
  BY <1>2 DEF Refund
<1>4. refunding' \in [Refunders -> Refund \cup {None}]
  BY <1>1, <1>3 DEF TypeInv
<1>5. ToTrim(gone) \in Trimming
  BY <1>1, ToTrimTyped
<1>6. trim' \in [Trimmers -> Trimming \cup {None}]
  BY <1>1, <1>5 DEF TypeInv, Trimmers
<1> QED BY <1>2, <1>4, <1>6 DEF TypeInv, Mapping, Sound

\* What a refund that commits does.
LEMMA RefundStep ==
    ASSUME TypeInv, Refunds, NEW f \in Refunders, RefundCommit(f), NEW r, r = refunding[f],
           NEW u, u = SignerOf[r.item]
    PROVE  /\ UNCHANGED <<reserving, trim, paidIn>> /\ Undisturbed
           /\ r \in Refund /\ r # None /\ r.seen # None /\ Reading(r, approval, reservations)
           /\ u \in Users /\ r.spend \in [Users -> Nat] /\ StandsFor(r.seen, approval, u, r.spend)
           /\ reservations' = reservations \ {r.row}
           /\ \E order \in Orders :
                 /\ LapsedShared \/ \A a \in Lapsed(r.seen, r.spend, order) :
                                       r.seen[a].used = r.spend[r.seen[a].payer]
                 /\ TakenBack(r.seen, r.spend, order) = {}
                 /\ balance' = Repaid(r.seen, u, r.spend, order)
                 /\ approval' = GiveBack(r.seen, r.spend, order)
<1>1. r # None /\ r.seen # None /\ Undisturbed /\ UNCHANGED <<reserving, trim, paidIn>>
      /\ refundWincFromOverflowSpend(r.seen, u, r.spend) /\ reservations' = reservations \ {r.row}
  BY DEF RefundCommit
<1>2. r \in Refund /\ u \in Users /\ r.spend \in [Users -> Nat]
  BY <1>1, RefundSpends
<1>3. Reading(r, approval, reservations) /\ StandsFor(r.seen, approval, u, r.spend)
  BY <1>1 DEF Refunds, Reading
<1> QED BY <1>1, <1>2, <1>3 DEF refundWincFromOverflowSpend

LEMMA RefundCommitTyped ==
    ASSUME TypeInv, Refunds, NEW f \in Refunders, RefundCommit(f)
    PROVE  /\ TypeInv'
           /\ \A a \in Approvals : /\ approval[a] = None <=> approval'[a] = None
                                   /\ approval[a] # None => Alike(approval'[a], approval[a])
<1> DEFINE r == refunding[f]
           u == SignerOf[r.item]
<1>1. /\ UNCHANGED <<reserving, trim, paidIn>>
      /\ u \in Users /\ r.spend \in [Users -> Nat] /\ StandsFor(r.seen, approval, u, r.spend)
      /\ reservations' = reservations \ {r.row}
      /\ \E order \in Orders : /\ TakenBack(r.seen, r.spend, order) = {}
                               /\ balance' = Repaid(r.seen, u, r.spend, order)
                               /\ approval' = GiveBack(r.seen, r.spend, order)
  BY RefundStep
<1>2. PICK order : /\ TakenBack(r.seen, r.spend, order) = {}
                   /\ balance' = Repaid(r.seen, u, r.spend, order)
                   /\ approval' = GiveBack(r.seen, r.spend, order)
  BY <1>1
<1>3. /\ amiss' = [pu \in Users \X Users |->
                     IF pu[2] = u /\ pu[1] \in Misread(r) THEN amiss[pu] + 1 ELSE amiss[pu]]
      /\ refunding' = [g \in Refunders |->
            IF g = f THEN None
            ELSE IF refunding[g] # None /\ refunding[g].row = r.row
                 THEN [refunding[g] EXCEPT !.row = None] ELSE refunding[g]]
  BY DEF RefundCommit
<1> HIDE DEF r, u
<1>4. balance' \in [Users -> Nat]
  BY <1>1, <1>2, RepaidNat DEF StandsFor
<1>5. Mapping(approval') /\ Sound(approval')
      /\ \A a \in Approvals : /\ approval[a] = None <=> approval'[a] = None
                              /\ approval[a] # None => Alike(approval'[a], approval[a])
  BY <1>1, <1>2, GiveBackSound
<1>6. reservations' \subseteq Reservation /\ IsFiniteSet(reservations')
  BY <1>1, FS_Subset DEF TypeInv
<1>7. \A q \in Refund : [q EXCEPT !.row = None] \in Refund
  BY DEF Refund
<1>8. refunding' \in [Refunders -> Refund \cup {None}]
  BY <1>3, <1>7 DEF TypeInv
<1>9. amiss' \in [Users \X Users -> Nat]
  BY <1>3 DEF TypeInv
<1>10. TypeInv'
  BY <1>1, <1>4, <1>5, <1>6, <1>8, <1>9 DEF TypeInv, Mapping, Sound
<1> QED BY <1>5, <1>10

LEMMA TrimReadTyped ==
    ASSUME TypeInv, NEW t \in Readers, NEW u \in Users, TrimRead(t, u)
    PROVE  TypeInv'
<1> DEFINE gone == {a \in Approvals : /\ In(approval, a, "active") /\ approval[a].due
                                      /\ u \in {approval[a].payer, approval[a].user}}
<1>1. gone \in SUBSET Approvals /\ \A a \in gone : RowSound(approval[a])
  BY DEF In, TypeInv, Sound
<1>2. /\ trim' = [trim EXCEPT ![t] = ToTrim(gone)]
      /\ UNCHANGED <<balance, approval, reservations, reserving, paidIn, refundVars>>
  BY DEF TrimRead
<1> HIDE DEF gone
<1>3. ToTrim(gone) \in Trimming
  BY <1>1, ToTrimTyped
<1> QED BY <1>2, <1>3 DEF TypeInv, Mapping, Sound, Trimmers, refundVars

LEMMA TrimMoveTyped ==
    ASSUME TypeInv, NEW t \in Trimmers, TrimMove(t)
    PROVE  TypeInv'
<1> DEFINE S == {a \in trim[t].gone : In(approval, a, "active")}
<1>1. trim[t] \in Trimming
  BY DEF TrimMove, TypeInv
<1>2. S \in SUBSET Approvals /\ \A a \in S : approval[a] # None
  BY <1>1 DEF Trimming, In
<1>3. approval' = Moved(approval, S, "expired")
  BY DEF TrimMove
<1> HIDE DEF S
<1>4. Mapping(approval)' /\ Sound(approval)'
  BY <1>2, <1>3, MovedSound DEF TypeInv
<1>5. trim' = [trim EXCEPT ![t] = [trim[t] EXCEPT !.step = "pay", !.seen = balance]]
  BY DEF TrimMove
<1>6. [trim[t] EXCEPT !.step = "pay", !.seen = balance] \in Trimming
  BY <1>1 DEF Trimming, TypeInv
<1> QED BY <1>4, <1>5, <1>6 DEF TypeInv, TrimMove, refundVars

LEMMA TrimPayTyped ==
    ASSUME TypeInv, NEW t \in Trimmers, TrimPay(t)
    PROVE  TypeInv'
<1>1. trim[t] \in Trimming
  BY DEF TrimPay, TypeInv
<1>2. \A p \in Users : trim[t].seen[p] \in Nat /\ trim[t].owed[p] \in Nat /\ balance[p] \in Nat
  BY <1>1 DEF Trimming, TypeInv
<1>3. balance' \in [Users -> Nat]
  BY <1>2 DEF TrimPay
<1>4. trim' \in [Trimmers -> Trimming \cup {None}]
  BY DEF TrimPay, TypeInv
<1> QED BY <1>3, <1>4 DEF TypeInv, TrimPay, Mapping, Sound, refundVars

\* What every step keeps of the approvals: they stay, with payer, user and amount.
LEMMA MovedLasting ==
    ASSUME TypeInv, NEW S, NEW table \in Tables, NEW a \in Approvals, approval[a] # None
    PROVE  Moved(approval, S, table)[a] # None /\ Alike(Moved(approval, S, table)[a], approval[a])
<1>1. approval[a] \in Row
  BY DEF TypeInv, Mapping
<1>2. /\ [approval[a] EXCEPT !.table = table] \in Row
      /\ Alike([approval[a] EXCEPT !.table = table], approval[a])
  BY <1>1 DEF Row, Alike
<1>3. Moved(approval, S, table)[a] \in {approval[a], [approval[a] EXCEPT !.table = table]}
  BY DEF Moved
<1> QED BY <1>2, <1>3, NoneAssumption DEF Alike

LEMMA DrawnLasting ==
    ASSUME TypeInv, NEW d, NEW u, NEW w \in Nat, NEW shares, d \in Draws(u, w, shares),
           NEW a \in Approvals, approval[a] # None
    PROVE  Drawn(d)[a] # None /\ Alike(Drawn(d)[a], approval[a])
<1>1. approval[a] \in Row /\ d[a] \in Nat
  BY DEF TypeInv, Mapping, Draws
<1>2. CASE d[a] = 0
  BY <1>2 DEF Drawn, Alike
<1>3. CASE d[a] # 0
  <2> DEFINE t == IF Left(approval, a) = d[a] THEN "used" ELSE "active"
  <2>1. Drawn(d)[a] = Changed(approval[a], approval[a].used + d[a], t)
    BY <1>3 DEF Drawn, Changed
  <2>2. t \in Tables /\ approval[a].used + d[a] \in Nat
    BY <1>1 DEF Tables, Row
  <2> HIDE DEF t
  <2> QED BY <1>1, <2>1, <2>2, RowChanged, NoneAssumption DEF Alike
<1> QED BY <1>2, <1>3

LEMMA StepLasting ==
    ASSUME TypeInv, Refunds, [Next]_vars, NEW a \in Approvals, approval[a] # None
    PROVE  approval'[a] # None /\ Alike(approval'[a], approval[a])
<1>1. CASE UNCHANGED approval
  BY <1>1 DEF Alike
<1>2. ASSUME NEW S, NEW table \in Tables, approval' = Moved(approval, S, table)
      PROVE  approval'[a] # None /\ Alike(approval'[a], approval[a])
  BY <1>2, MovedLasting
<1>3. CASE \E b \in Approvals, p \in Users, u \in Approved, n \in Amounts :
             p # u /\ createDelegatedPaymentApproval(b, p, u, n)
  <2>1. PICK b \in Approvals : approval[b] = None /\ \E row : approval' = [approval EXCEPT ![b] = row]
    BY <1>3 DEF createDelegatedPaymentApproval
  <2>2. approval'[a] = approval[a]
    BY <2>1 DEF TypeInv, Mapping
  <2> QED BY <2>2 DEF Alike
<1>4. CASE \E b \in Approvals : Expire(b)
  <2>1. PICK b \in Approvals : Expire(b)
    BY <1>4
  <2>2. approval' = [approval EXCEPT ![b].due = TRUE]
    BY <2>1 DEF Expire
  <2>3. approval[a] \in Row
    BY DEF TypeInv, Mapping
  <2>4. approval'[a] \in {approval[a], [approval[a] EXCEPT !.due = TRUE]}
    BY <2>2 DEF TypeInv, Mapping
  <2>5. [approval[a] EXCEPT !.due = TRUE] \in Row /\ Alike([approval[a] EXCEPT !.due = TRUE], approval[a])
    BY <2>3 DEF Row, Alike
  <2> QED BY <2>4, <2>5, NoneAssumption DEF Alike
<1>5. CASE \E p, u \in Users : revokeDelegatedPaymentApprovals(p, u)
  <2>1. \E S : approval' = Moved(approval, S, "revoked")
    BY <1>5 DEF revokeDelegatedPaymentApprovals
  <2>2. "revoked" \in Tables
    BY DEF Tables
  <2> QED BY <1>2, <2>1, <2>2
<1>6. CASE \E c \in Callers, w \in Costs, list \in PaidBy, listOnly \in BOOLEAN :
             ReserveCommit(c, w, list, listOnly)
  <2>1. PICK c \in Callers, w \in Costs, list \in PaidBy, listOnly \in BOOLEAN :
             ReserveCommit(c, w, list, listOnly)
    BY <1>6
  <2>2. \/ UNCHANGED approval
        \/ \E u, shares : \E d \in Draws(u, w, shares) : approval' = Drawn(d)
    BY <2>1 DEF ReserveCommit
  <2>3. w \in Nat
    BY LedgerAssumption
  <2> QED BY <1>1, <2>2, <2>3, DrawnLasting
<1>7. CASE \/ \E f \in Refunders, i \in Items, w \in Costs : refundBalance(f, i, w)
           \/ \E f \in Refunders : RefundApprovals(f) \/ RefundFails(f)
  BY <1>1, <1>7 DEF refundBalance, RefundApprovals, RefundFails
<1>8. CASE \E f \in Refunders : RefundCommit(f)
  BY <1>8, RefundCommitTyped
<1>9. CASE \E t \in Trimmers : TrimMove(t)
  <2>1. \E S : approval' = Moved(approval, S, "expired")
    BY <1>9 DEF TrimMove
  <2>2. "expired" \in Tables
    BY DEF Tables
  <2> QED BY <1>2, <2>1, <2>2
<1>10. CASE \/ UNCHANGED vars
            \/ \E u \in Users, n \in Amounts : atomicCreditUser(u, n)
            \/ \E c \in Callers, i \in Items : reserveBalance(c, i)
            \/ \E t \in Readers, u \in Users : TrimRead(t, u)
            \/ \E t \in Trimmers : TrimPay(t)
  BY <1>1, <1>10 DEF vars, atomicCreditUser, reserveBalance, TrimRead, TrimPay
<1> QED BY <1>3, <1>4, <1>5, <1>6, <1>7, <1>8, <1>9, <1>10 DEF Next

\* So what a refund has read stands for what is there, and its row is there unless a
\* refund has marked it, in which case the refund goes on without.
LEMMA ReadingKept ==
    ASSUME TypeInv, Refunds, [Next]_vars, NEW r, Reading(r, approval, reservations),
           r.row # None => r.row \in reservations'
    PROVE  Reading(r, approval', reservations')
<1>1. ASSUME NEW a \in Approvals, approval[a] # None
      PROVE  approval'[a] # None /\ Alike(approval'[a], approval[a])
  BY <1>1, StepLasting
<1> QED BY <1>1 DEF Reading, StandsFor, Alike

LEMMA StepRefunds ==
    ASSUME TypeInv, Refunds, [Next]_vars
    PROVE  Refunds'
<1>1. ASSUME NEW g \in Refunders, NEW r, refunding[g] = r, r # None,
             r.row # None => r.row \in reservations'
      PROVE  Reading(r, approval', reservations')
  BY <1>1, ReadingKept DEF Refunds
<1>2. CASE reservations \subseteq reservations' /\ UNCHANGED refunding
  <2>1. ASSUME NEW g \in Refunders, refunding[g] # None
        PROVE  Reading(refunding[g], approval', reservations')
    BY <1>1, <1>2, <2>1 DEF Refunds, Reading
  <2> QED BY <1>2, <2>1 DEF Refunds
<1>3. ASSUME NEW f \in Refunders, NEW q, q = None \/ Reading(q, approval', reservations'),
             reservations \subseteq reservations', refunding' = [refunding EXCEPT ![f] = q]
      PROVE  Refunds'
  <2>1. ASSUME NEW g \in Refunders, g # f, refunding[g] # None
        PROVE  Reading(refunding[g], approval', reservations')
    BY <1>1, <1>3, <2>1 DEF Refunds, Reading
  <2>2. \A g \in Refunders : refunding'[g] = IF g = f THEN q ELSE refunding[g]
    BY <1>3 DEF TypeInv
  <2> QED BY <1>3, <2>1, <2>2 DEF Refunds
<1>4. CASE \E f \in Refunders, i \in Items, w \in Costs : refundBalance(f, i, w)
  <2>1. PICK f \in Refunders, i \in Items, w \in Costs : refundBalance(f, i, w)
    BY <1>4
  <2>2. PICK q \in Refund : /\ refunding' = [refunding EXCEPT ![f] = q]
                            /\ Reading(q, approval, reservations)
    BY <2>1, RefundBegins
  <2>3. UNCHANGED <<approval, reservations>>
    BY <2>1, RefundBegins
  <2> QED BY <1>3, <2>2, <2>3
<1>5. CASE \E f \in Refunders : RefundApprovals(f)
  <2>1. PICK f \in Refunders : RefundApprovals(f)
    BY <1>5
  <2>2. PICK seen \in [Approvals -> Row \cup {None}] :
           /\ StandsFor(seen, approval, SignerOf[refunding[f].item], refunding[f].spend)
           /\ refunding' = [refunding EXCEPT ![f] = [refunding[f] EXCEPT !.seen = seen]]
    BY <2>1, RefundReads
  <2>3. refunding[f] # None /\ refunding[f] \in Refund /\ UNCHANGED <<approval, reservations>>
    BY <2>1, RefundReads, RefundSpends
  <2> DEFINE r == refunding[f]
             q == [r EXCEPT !.seen = seen]
  <2>4. q.row = r.row /\ q.item = r.item /\ q.spend = r.spend /\ q.seen = seen
    BY <2>3 DEF Refund
  <2>5. Reading(r, approval, reservations)
    BY <2>3 DEF Refunds
  <2> HIDE DEF q
  <2>6. Reading(q, approval', reservations')
    BY <2>2, <2>3, <2>4, <2>5 DEF Reading
  <2>7. refunding' = [refunding EXCEPT ![f] = q]
    BY <2>2 DEF q
  <2> QED BY <1>3, <2>3, <2>6, <2>7
<1>6. CASE \E f \in Refunders : RefundFails(f)
  BY <1>3, <1>6 DEF RefundFails, Refunding
<1>7. CASE \E f \in Refunders : RefundCommit(f)
  <2>1. PICK f \in Refunders : RefundCommit(f)
    BY <1>7
  <2> DEFINE old == refunding[f].row
  <2>2. /\ reservations' = reservations \ {old}
        /\ \A g \in Refunders : refunding'[g] =
              IF g = f THEN None
              ELSE IF refunding[g] # None /\ refunding[g].row = old
                   THEN [refunding[g] EXCEPT !.row = None] ELSE refunding[g]
    BY <2>1 DEF RefundCommit
  <2> HIDE DEF old
  <2>3. ASSUME NEW g \in Refunders, refunding'[g] # None
        PROVE  Reading(refunding'[g], approval', reservations')
    <3> DEFINE r == refunding[g]
    <3>1. g # f /\ r # None /\ r \in Refund
      BY <2>2, <2>3, RefundSpends
    <3>2. Reading(r, approval, reservations)
      BY <3>1 DEF Refunds
    <3>3. CASE r.row # old
      <4>1. r.row # None => r.row \in reservations'
        BY <2>2, <3>2, <3>3 DEF Reading
      <4>2. refunding'[g] = r
        BY <2>2, <3>1, <3>3
      <4> HIDE DEF r
      <4> QED BY <3>2, <4>1, <4>2, ReadingKept
    <3>4. CASE r.row = old
      <4> DEFINE q == [r EXCEPT !.row = None]
      <4>1. refunding'[g] = q /\ q.row = None
        BY <2>2, <3>1, <3>4 DEF Refund
      <4>2. q.item = r.item /\ q.spend = r.spend /\ q.seen = r.seen
        BY <3>1 DEF Refund
      <4> HIDE DEF q, r
      <4>3. Reading(q, approval, reservations)
        BY <3>2, <4>1, <4>2 DEF Reading
      <4> QED BY <4>1, <4>3, ReadingKept
    <3> QED BY <3>3, <3>4
  <2> QED BY <2>3 DEF Refunds
<1>8. CASE UNCHANGED vars
  BY <1>2, <1>8 DEF vars
<1>9. CASE \E c \in Callers, w \in Costs, list \in PaidBy, listOnly \in BOOLEAN :
             ReserveCommit(c, w, list, listOnly)
  BY <1>2, <1>9 DEF ReserveCommit, refundVars
<1>10. CASE \/ \E u \in Users, n \in Amounts : atomicCreditUser(u, n)
            \/ \E a \in Approvals, p \in Users, u \in Approved, n \in Amounts :
                 p # u /\ createDelegatedPaymentApproval(a, p, u, n)
            \/ \E a \in Approvals : Expire(a)
            \/ \E p, u \in Users : revokeDelegatedPaymentApprovals(p, u)
            \/ \E c \in Callers, i \in Items : reserveBalance(c, i)
            \/ \E t \in Readers, u \in Users : TrimRead(t, u)
            \/ \E t \in Trimmers : TrimMove(t) \/ TrimPay(t)
  BY <1>2, <1>10 DEF atomicCreditUser, createDelegatedPaymentApproval, Expire, reserveBalance,
     revokeDelegatedPaymentApprovals, TrimRead, TrimMove, TrimPay, refundVars
<1> QED BY <1>4, <1>5, <1>6, <1>7, <1>8, <1>9, <1>10 DEF Next

LEMMA StepTyped ==
    ASSUME TypeInv, Refunds, [Next]_vars
    PROVE  TypeInv'
<1>1. CASE UNCHANGED vars
  BY <1>1 DEF vars, TypeInv, Mapping, Sound
<1>2. CASE \E u \in Users, n \in Amounts : atomicCreditUser(u, n)
  BY <1>2, CreditTyped
<1>3. CASE \E a \in Approvals, p \in Users, u \in Approved, n \in Amounts :
             p # u /\ createDelegatedPaymentApproval(a, p, u, n)
  BY <1>3, CreateTyped, LedgerAssumption
<1>4. CASE \E a \in Approvals : Expire(a)
  BY <1>4, ExpireTyped
<1>5. CASE \E p, u \in Users : revokeDelegatedPaymentApprovals(p, u)
  BY <1>5, RevokeTyped
<1>6. CASE \E c \in Callers, i \in Items : reserveBalance(c, i)
  BY <1>6, ReserveTyped
<1>7. CASE \E c \in Callers, w \in Costs, list \in PaidBy, listOnly \in BOOLEAN :
             ReserveCommit(c, w, list, listOnly)
  BY <1>7, CommitTyped
<1>8. CASE \/ \E f \in Refunders, i \in Items, w \in Costs : refundBalance(f, i, w)
           \/ \E f \in Refunders : RefundApprovals(f) \/ RefundCommit(f) \/ RefundFails(f)
  BY <1>8, RefundBeginsTyped, RefundReadsTyped, RefundCommitTyped DEF RefundFails, Refunding, TypeInv,
     Mapping, Sound
<1>9. CASE \E t \in Readers, u \in Users : TrimRead(t, u)
  BY <1>9, TrimReadTyped
<1>10. CASE \E t \in Trimmers : TrimMove(t) \/ TrimPay(t)
  BY <1>10, TrimMoveTyped, TrimPayTyped
<1> QED BY <1>1, <1>2, <1>3, <1>4, <1>5, <1>6, <1>7, <1>8, <1>9, <1>10 DEF Next

\* Every variable has its type, with any of the flags set: no balance goes below zero,
\* and no approval gives more than its amount, whoever reserves, refunds, revokes or
\* trims in between, although a refund writes what it has worked out from earlier rows.
THEOREM TypeCorrect == Spec => []TypeOK
<1>1. Init => TypeInv /\ Refunds
  BY InitTyped
<1>2. TypeInv /\ Refunds /\ [Next]_vars => (TypeInv /\ Refunds)'
  BY StepTyped, StepRefunds
<1>3. TypeInv => TypeOK
  BY TypeInvTyped
<1> QED BY <1>1, <1>2, <1>3, PTL DEF Spec

(***************************************************************************)
(* What the approvals were used for.                                       *)
(***************************************************************************)

\* The approvals a user has, or had, from a payer.
Of(app, p, u) == {a \in Approvals : app[a] # None /\ app[a].payer = p /\ app[a].user = u}
OnePair(app) ==
    \A a, b \in Approvals :
        (/\ app[a] # None /\ app[b] # None
         /\ app[a].payer = app[b].payer /\ app[a].user = app[b].user) => a = b

\* The inductive form of UsedIsReserved: an approval that has not lapsed was used for
\* what the reservations say its payer spent for its user, and a payer that never gave
\* that user an approval has spent nothing, unless a refund wrote over their rows.
Accounted ==
    /\ OnePair(approval)
    /\ \A p, u \in Users : p # u /\ amiss[<<p, u>>] = 0 =>
          /\ Of(approval, p, u) = {} => Spent(p, u) = 0
          /\ \A a \in Of(approval, p, u) :
                approval[a].table \in {"active", "used"} => approval[a].used = Spent(p, u)

\* A payer spent at least what one reservation says it did.
LEMMA SpentNat ==
    ASSUME TypeInv, NEW p \in Users, NEW u \in Users
    PROVE  /\ Spent(p, u) \in Nat
           /\ \A r \in reservations : SpentBy(p, r) \in Nat
           /\ \A r \in reservations : SignerOf[r.item] = u => SpentBy(p, r) <= Spent(p, u)
<1> DEFINE held == {r \in reservations : SignerOf[r.item] = u}
           f == [r \in held |-> SpentBy(p, r)]
<1>1. \A r \in reservations : SpentBy(p, r) \in Nat
  BY DEF TypeInv, Reservation, SpentBy
<1>2. IsFiniteSet(held)
  BY FS_Subset DEF TypeInv
<1>3. Spent(p, u) = SumFunctionOnSet(f, held)
  BY DEF Spent, Sum
<1>4. \A r \in held : f[r] = SpentBy(p, r) /\ f[r] \in Nat
  BY <1>1
<1> HIDE DEF f
<1>5. SumFunctionOnSet(f, held) \in Nat
  <2> HIDE DEF held
  <2> QED BY <1>2, <1>4, SumNat
<1>6. ASSUME NEW r \in held PROVE f[r] <= SumFunctionOnSet(f, held)
  <2> HIDE DEF held
  <2>1. SumFunctionOnSet(f, {r}) = f[r]
    BY <1>4, SumSingleton
  <2>2. SumFunctionOnSet(f, {r}) <= SumFunctionOnSet(f, held)
    <3>1. {r} \in SUBSET held
      OBVIOUS
    <3> QED BY <1>2, <1>4, <3>1, SumSubset
  <2> QED BY <2>1, <2>2
<1> QED BY <1>1, <1>3, <1>4, <1>5, <1>6

\* What one more reservation, or one less, does to what a payer spent.
LEMMA SpentAdded ==
    ASSUME TypeInv, TypeInv', NEW r, r \notin reservations, reservations' = reservations \cup {r},
           NEW p \in Users, NEW u \in Users
    PROVE  Spent(p, u)' = IF SignerOf[r.item] = u THEN Spent(p, u) + SpentBy(p, r) ELSE Spent(p, u)
<1> DEFINE held == {q \in reservations : SignerOf[q.item] = u}
           new == {q \in reservations' : SignerOf[q.item] = u}
           f == [q \in held |-> SpentBy(p, q)]
           g == [q \in new |-> SpentBy(p, q)]
<1>1. IsFiniteSet(held)
  BY FS_Subset DEF TypeInv
<1>2. \A q \in reservations' : SpentBy(p, q) \in Nat
  BY DEF TypeInv, Reservation, SpentBy
<1>3. Spent(p, u) = SumFunctionOnSet(f, held) /\ Spent(p, u)' = SumFunctionOnSet(g, new)
  BY DEF Spent, Sum, SpentBy
<1>4. /\ \A q \in held : f[q] \in Int /\ g[q] = f[q]
      /\ \A q \in new : g[q] = SpentBy(p, q) /\ g[q] \in Int
  BY <1>2
<1>5. r \in reservations'
  OBVIOUS
<1>6. CASE SignerOf[r.item] = u
  <2>1. new = held \cup {r} /\ r \notin held /\ r \in new
    BY <1>6
  <2> HIDE DEF f, g, held, new
  <2>2. SumFunctionOnSet(g, held \cup {r}) = g[r] + SumFunctionOnSet(g, held)
    BY <1>1, <1>4, <2>1, SumAdd
  <2>3. SumFunctionOnSet(g, held) = SumFunctionOnSet(f, held) /\ SumFunctionOnSet(f, held) \in Int
    BY <1>1, <1>4, SumSame, SumInt
  <2> QED BY <1>3, <1>4, <1>6, <2>1, <2>2, <2>3
<1>7. CASE SignerOf[r.item] # u
  <2>1. new = held
    BY <1>7
  <2> HIDE DEF f, g, held, new
  <2>2. SumFunctionOnSet(g, held) = SumFunctionOnSet(f, held)
    BY <1>1, <1>4, SumSame
  <2> QED BY <1>3, <1>7, <2>1, <2>2
<1> QED BY <1>6, <1>7

LEMMA SpentRemoved ==
    ASSUME TypeInv, TypeInv', NEW r \in reservations, reservations' = reservations \ {r},
           NEW p \in Users, NEW u \in Users
    PROVE  Spent(p, u)' = IF SignerOf[r.item] = u THEN Spent(p, u) - SpentBy(p, r) ELSE Spent(p, u)
<1> DEFINE held == {q \in reservations : SignerOf[q.item] = u}
           new == {q \in reservations' : SignerOf[q.item] = u}
           f == [q \in held |-> SpentBy(p, q)]
           g == [q \in new |-> SpentBy(p, q)]
<1>1. IsFiniteSet(held) /\ IsFiniteSet(new)
  BY FS_Subset DEF TypeInv
<1>2. \A q \in reservations : SpentBy(p, q) \in Nat
  BY DEF TypeInv, Reservation, SpentBy
<1>3. Spent(p, u) = SumFunctionOnSet(f, held) /\ Spent(p, u)' = SumFunctionOnSet(g, new)
  BY DEF Spent, Sum, SpentBy
<1>4. /\ \A q \in new : f[q] \in Int /\ g[q] = f[q]
      /\ \A q \in held : f[q] = SpentBy(p, q) /\ f[q] \in Int
  BY <1>2
<1>5. SumFunctionOnSet(g, new) = SumFunctionOnSet(f, new)
  <2> HIDE DEF f, g, held, new
  <2> QED BY <1>1, <1>4, SumSame
<1>6. CASE SignerOf[r.item] = u
  <2>1. new = held \ {r} /\ r \in held
    BY <1>6
  <2> HIDE DEF f, g, held, new
  <2>2. SumFunctionOnSet(f, held) = f[r] + SumFunctionOnSet(f, held \ {r})
    BY <1>1, <1>4, <2>1, SumRemove
  <2>3. SumFunctionOnSet(f, new) \in Int
    BY <1>1, <1>4, SumInt
  <2> QED BY <1>3, <1>4, <1>5, <1>6, <2>1, <2>2, <2>3
<1>7. CASE SignerOf[r.item] # u
  <2>1. new = held
    BY <1>7
  <2> HIDE DEF f, g, held, new
  <2> QED BY <1>3, <1>5, <1>7, <2>1
<1> QED BY <1>6, <1>7

\* Steps that keep the reservations and, of every approval, its pair and what was used
\* while it is not lapsed.
LEMMA KeepsAccounted ==
    ASSUME TypeInv, Accounted, UNCHANGED <<reservations, amiss>>,
           \A a \in Approvals :
              /\ approval'[a] = None <=> approval[a] = None
              /\ approval[a] # None =>
                    /\ approval'[a].payer = approval[a].payer
                    /\ approval'[a].user = approval[a].user
                    /\ approval'[a].table \in {"active", "used"} =>
                          /\ approval[a].table \in {"active", "used"}
                          /\ approval'[a].used = approval[a].used
    PROVE  Accounted'
<1>1. \A p, u \in Users : Spent(p, u)' = Spent(p, u)
  BY DEF Spent, SpentBy
<1>2. \A p, u \in Users : Of(approval', p, u) = Of(approval, p, u)
  BY DEF Of
<1>3. OnePair(approval')
  BY DEF Accounted, OnePair
<1>4. ASSUME NEW p \in Users, NEW u \in Users, p # u, amiss'[<<p, u>>] = 0
      PROVE  /\ Of(approval', p, u) = {} => Spent(p, u)' = 0
             /\ \A a \in Of(approval', p, u) :
                   approval'[a].table \in {"active", "used"} => approval'[a].used = Spent(p, u)'
  <2>1. /\ Of(approval, p, u) = {} => Spent(p, u) = 0
        /\ \A a \in Of(approval, p, u) :
              approval[a].table \in {"active", "used"} => approval[a].used = Spent(p, u)
    BY <1>4 DEF Accounted
  <2>2. \A a \in Of(approval, p, u) : a \in Approvals /\ approval[a] # None
    BY DEF Of
  <2> QED BY <1>1, <1>2, <2>1, <2>2
<1> QED BY <1>3, <1>4 DEF Accounted

LEMMA MovedAccounted ==
    ASSUME TypeInv, Accounted, UNCHANGED <<reservations, amiss>>, NEW S \in SUBSET Approvals,
           NEW table \in {"revoked", "expired"}, \A a \in S : approval[a] # None,
           approval' = Moved(approval, S, table)
    PROVE  Accounted'
<1>1. ASSUME NEW a \in Approvals
      PROVE  /\ approval'[a] = None <=> approval[a] = None
             /\ approval[a] # None =>
                    /\ approval'[a].payer = approval[a].payer
                    /\ approval'[a].user = approval[a].user
                    /\ approval'[a].table \in {"active", "used"} =>
                          /\ approval[a].table \in {"active", "used"}
                          /\ approval'[a].used = approval[a].used
  <2>1. CASE a \notin S
    BY <2>1 DEF Moved
  <2>2. CASE a \in S
    <3>1. approval[a] \in Row
      BY <2>2 DEF TypeInv, Mapping
    <3>2. approval'[a] = [approval[a] EXCEPT !.table = table]
      BY <2>2 DEF Moved
    <3>3. [approval[a] EXCEPT !.table = table] \in Row
      BY <3>1 DEF Row, Tables
    <3> QED BY <2>2, <3>1, <3>2, <3>3, NoneAssumption DEF Row
  <2> QED BY <2>1, <2>2
<1> QED BY <1>1, KeepsAccounted

\* A pair of users that gets its approval had no other, so nothing was spent on it.
LEMMA CreateAccounted ==
    ASSUME TypeInv, Accounted, ~ApprovalsShared, NEW a \in Approvals, NEW p \in Users,
           NEW u \in Users, NEW n \in Amounts, p # u, createDelegatedPaymentApproval(a, p, u, n)
    PROVE  Accounted'
<1> DEFINE row == [payer |-> p, user |-> u, amount |-> n, used |-> 0, due |-> FALSE,
                   table |-> "active"]
<1>1. /\ approval' = [approval EXCEPT ![a] = row] /\ approval[a] = None
      /\ UNCHANGED <<reservations, amiss>>
  BY DEF createDelegatedPaymentApproval, refundVars
<1>2. \A b \in Approvals : approval[b] # None => approval[b].payer # p \/ approval[b].user # u
  BY DEF createDelegatedPaymentApproval
<1>3. row.payer = p /\ row.user = u /\ row.used = 0
  OBVIOUS
<1> HIDE DEF row
<1>4. \A b \in Approvals : approval'[b] = IF b = a THEN row ELSE approval[b]
  BY <1>1 DEF TypeInv, Mapping
<1>5. \A x, y \in Users : Spent(x, y)' = Spent(x, y)
  BY <1>1 DEF Spent, SpentBy
<1>6. OnePair(approval')
  BY <1>2, <1>3, <1>4 DEF Accounted, OnePair
<1>7. ASSUME NEW x \in Users, NEW y \in Users, x # y, amiss'[<<x, y>>] = 0
      PROVE  /\ Of(approval', x, y) = {} => Spent(x, y)' = 0
             /\ \A b \in Of(approval', x, y) :
                   approval'[b].table \in {"active", "used"} => approval'[b].used = Spent(x, y)'
  <2>1. /\ Of(approval, x, y) = {} => Spent(x, y) = 0
        /\ \A b \in Of(approval, x, y) :
              approval[b].table \in {"active", "used"} => approval[b].used = Spent(x, y)
    BY <1>1, <1>7 DEF Accounted
  <2>2. Of(approval', x, y) = {} => Of(approval, x, y) = {}
    BY <1>1, <1>4 DEF Of
  <2>3. ASSUME NEW b \in Of(approval', x, y), approval'[b].table \in {"active", "used"}
        PROVE  approval'[b].used = Spent(x, y)'
    <3>1. b \in Approvals /\ approval'[b] # None /\ approval'[b].payer = x /\ approval'[b].user = y
      BY DEF Of
    <3>2. CASE b = a
      <4>1. x = p /\ y = u
        BY <1>3, <1>4, <3>1, <3>2
      <4>2. Of(approval, x, y) = {}
        BY <1>2, <4>1 DEF Of
      <4> QED BY <1>3, <1>4, <1>5, <2>1, <3>1, <3>2, <4>2
    <3>3. CASE b # a
      <4>1. approval'[b] = approval[b]
        BY <1>4, <3>1, <3>3
      <4>2. b \in Of(approval, x, y)
        BY <3>1, <4>1 DEF Of
      <4> QED BY <1>5, <2>1, <2>3, <4>1, <4>2
    <3> QED BY <3>2, <3>3
  <2> QED BY <1>5, <2>1, <2>2, <2>3
<1> QED BY <1>6, <1>7 DEF Accounted

\* A payer's share is what its one approval of the signer gives.
LEMMA OneDraw ==
    ASSUME TypeInv, OnePair(approval), NEW u \in Users, NEW w \in Nat, NEW shares \in [Users -> Nat],
           NEW d \in Draws(u, w, shares), NEW p \in Users, p # u
    PROVE  /\ Of(approval, p, u) = {} => shares[p] = 0
           /\ \A a \in Of(approval, p, u) : shares[p] = d[a]
<1> DEFINE S == Between(approval, p, u, "active")
<1>1. SumFunctionOnSet(d, S) = shares[p]
  BY DEF Draws, Sum
<1>2. S \subseteq Of(approval, p, u)
  BY DEF Between, In, Of
<1>3. \A a \in Approvals : d[a] \in Nat /\ (d[a] > 0 => In(approval, a, "active"))
  BY DEF Draws
<1>4. CASE Of(approval, p, u) = {}
  <2>1. S = {}
    BY <1>2, <1>4
  <2>2. SumFunctionOnSet(d, {}) = 0
    BY SumEmpty
  <2>3. SumFunctionOnSet(d, S) = 0
    BY <2>1, <2>2, Zenon
  <2> QED BY <1>1, <1>4, <2>3
<1>5. ASSUME NEW a \in Of(approval, p, u)
      PROVE  shares[p] = d[a]
  <2>1. \A b \in Of(approval, p, u) : b = a
    BY DEF Of, OnePair
  <2>2. a \in Approvals
    BY DEF Of
  <2>3. CASE In(approval, a, "active")
    <3>1. S = {a}
      BY <1>2, <2>1, <2>3 DEF Between, Of
    <3>2. SumFunctionOnSet(d, {a}) = d[a]
      <4>1. d[a] \in Int
        BY <1>3, <2>2
      <4> QED BY <4>1, SumSingleton, Zenon
    <3>3. SumFunctionOnSet(d, S) = d[a]
      BY <3>1, <3>2, Zenon
    <3> QED BY <1>1, <3>3
  <2>4. CASE ~In(approval, a, "active")
    <3>1. S = {}
      BY <1>2, <2>1, <2>4 DEF Between
    <3>2. SumFunctionOnSet(d, {}) = 0
      BY SumEmpty
    <3>3. SumFunctionOnSet(d, S) = 0
      BY <3>1, <3>2, Zenon
    <3>4. d[a] = 0
      BY <1>3, <2>2, <2>4
    <3> QED BY <1>1, <3>3, <3>4
  <2> QED BY <2>3, <2>4
<1> QED BY <1>4, <1>5

\* What a reserve transaction that goes through does.
LEMMA CommitStep ==
    ASSUME TypeInv, NEW c \in Callers, NEW w \in Costs, NEW list \in PaidBy, NEW listOnly \in BOOLEAN,
           ReserveCommit(c, w, list, listOnly)
    PROVE  /\ UNCHANGED <<trim, paidIn, refunding, amiss>>
           /\ \/ UNCHANGED <<balance, approval, reservations>>
              \/ \E i \in Items, shares \in [Users -> Nat] :
                    /\ ActiveFor(i) = {} /\ Covers(SignerOf[i], w, shares)
                    /\ balance' = [balance EXCEPT ![SignerOf[i]] = @ - shares[SignerOf[i]]]
                    /\ reservations' = reservations \cup
                          {[by |-> c, item |-> i, winc |-> w,
                            spend |-> IF SignerOnly(SignerOf[i], shares) THEN None ELSE shares]}
                    /\ \E d \in Draws(SignerOf[i], w, shares) : approval' = Drawn(d)
<1> DEFINE i == reserving[c]
<1>1. w \in Nat /\ i \in Items /\ SignerOf[i] \in Users
  BY LedgerAssumption DEF TypeInv, ReserveCommit
<1>2. Shares(SignerOf[i], w, list, listOnly) \in [Users -> Nat]
  BY <1>1, SharesNat
<1> QED BY <1>1, <1>2 DEF ReserveCommit, refundVars

LEMMA CommitAccounted ==
    ASSUME TypeInv, TypeInv', Accounted, NEW c \in Callers, NEW w \in Costs, NEW list \in PaidBy,
           NEW listOnly \in BOOLEAN, ReserveCommit(c, w, list, listOnly)
    PROVE  Accounted'
<1>1. CASE UNCHANGED <<balance, approval, reservations>>
  BY <1>1, CommitStep, KeepsAccounted
<1>2. ASSUME NEW i \in Items, NEW shares \in [Users -> Nat], NEW spend,
             ActiveFor(i) = {},
             spend = IF SignerOnly(SignerOf[i], shares) THEN None ELSE shares,
             reservations' = reservations \cup {[by |-> c, item |-> i, winc |-> w, spend |-> spend]},
             NEW d \in Draws(SignerOf[i], w, shares), approval' = Drawn(d)
      PROVE  Accounted'
  <2> DEFINE u == SignerOf[i]
             r == [by |-> c, item |-> i, winc |-> w, spend |-> spend]
  <2>1. u \in Users /\ w \in Nat
    BY LedgerAssumption
  <2>2. r \notin reservations /\ r.item = i /\ r.spend = spend
    BY <1>2 DEF ActiveFor
  <2>3. \A p \in Users : p # u => SpentBy(p, r) = shares[p]
    BY <1>2, NoneAssumption DEF SpentBy, SignerOnly
  <2> HIDE DEF r, u
  <2>4. \A x, y \in Users : Spent(x, y)' = IF y = u THEN Spent(x, y) + SpentBy(x, r) ELSE Spent(x, y)
    BY <1>2, <2>2, SpentAdded DEF r, u
  <2>5. \A p \in Users : p # u =>
           /\ Of(approval, p, u) = {} => shares[p] = 0
           /\ \A a \in Of(approval, p, u) : shares[p] = d[a]
    BY <1>2, <2>1, OneDraw DEF Accounted, u
  <2>6. ASSUME NEW a \in Approvals
        PROVE  /\ approval'[a] = None <=> approval[a] = None
               /\ approval[a] # None =>
                     /\ approval'[a].payer = approval[a].payer /\ approval'[a].user = approval[a].user
                     /\ approval'[a].used = approval[a].used + d[a]
                     /\ approval[a].user # u => d[a] = 0
                     /\ approval'[a].table \in {"active", "used"} => approval[a].table \in {"active", "used"}
    <3>1. d[a] \in Nat
      BY DEF Draws
    <3>2. approval[a] # None => approval[a] \in Row
      BY DEF TypeInv, Mapping
    <3>3. CASE d[a] = 0
      <4>1. approval'[a] = approval[a]
        BY <1>2, <3>3 DEF Drawn
      <4>2. approval[a] # None => approval[a].used \in Nat
        BY <3>2 DEF Row
      <4> QED BY <3>3, <4>1, <4>2
    <3>4. CASE d[a] # 0
      <4>1. In(approval, a, "active") /\ approval[a].user = u
        BY <3>1, <3>4 DEF Draws, u
      <4>2. approval'[a] = [approval[a] EXCEPT !.used = @ + d[a],
                               !.table = IF Left(approval, a) = d[a] THEN "used" ELSE "active"]
        BY <1>2, <3>4 DEF Drawn
      <4> DEFINE t == IF Left(approval, a) = d[a] THEN "used" ELSE "active"
      <4>3. approval'[a] = Changed(approval[a], approval[a].used + d[a], t)
        BY <4>2 DEF Changed
      <4>4. t \in Tables /\ approval[a].used + d[a] \in Nat /\ approval[a] \in Row
        BY <3>1, <3>2, <4>1 DEF Tables, In, Row
      <4> HIDE DEF t
      <4>5. /\ approval'[a] \in Row
            /\ approval'[a].payer = approval[a].payer /\ approval'[a].user = approval[a].user
            /\ approval'[a].used = approval[a].used + d[a]
        BY <4>3, <4>4, RowChanged
      <4> QED BY <4>1, <4>5, NoneAssumption DEF In
    <3> QED BY <3>3, <3>4
  <2>7. OnePair(approval')
    BY <2>6 DEF Accounted, OnePair
  <2>8. \A x, y \in Users : Of(approval', x, y) = Of(approval, x, y)
    BY <2>6 DEF Of
  <2>9. \A a \in Approvals : approval[a] # None => approval[a].used \in Nat /\ d[a] \in Nat
    BY DEF TypeInv, Sound, RowSound, Row, Draws
  <2>10. UNCHANGED amiss
    BY CommitStep
  <2>11. ASSUME NEW x \in Users, NEW y \in Users, x # y, amiss'[<<x, y>>] = 0
         PROVE  /\ Of(approval', x, y) = {} => Spent(x, y)' = 0
                /\ \A a \in Of(approval', x, y) :
                      approval'[a].table \in {"active", "used"} => approval'[a].used = Spent(x, y)'
    <3>1. /\ Of(approval, x, y) = {} => Spent(x, y) = 0
          /\ \A a \in Of(approval, x, y) :
                approval[a].table \in {"active", "used"} => approval[a].used = Spent(x, y)
      BY <2>10, <2>11 DEF Accounted
    <3>2. Of(approval', x, y) = {} => Spent(x, y)' = 0
      BY <2>3, <2>4, <2>5, <2>8, <2>11, <3>1
    <3>3. ASSUME NEW a \in Of(approval, x, y), approval'[a].table \in {"active", "used"}
          PROVE  approval'[a].used = Spent(x, y)'
      <4>1. /\ a \in Approvals /\ approval[a] # None /\ approval[a].user = y
            /\ approval'[a].used = approval[a].used + d[a] /\ approval[a].used = Spent(x, y)
            /\ approval[a].used \in Nat /\ d[a] \in Nat
        BY <2>6, <2>9, <3>1, <3>3 DEF Of
      <4>2. CASE y = u
        BY <2>3, <2>4, <2>5, <2>11, <4>1, <4>2
      <4>3. CASE y # u
        BY <2>4, <2>6, <4>1, <4>3
      <4> QED BY <4>2, <4>3
    <3> QED BY <2>8, <3>2, <3>3
  <2> QED BY <2>7, <2>11 DEF Accounted
<1> QED BY <1>1, <1>2, CommitStep

\* The only approval of a pair has none before it.
LEMMA FoundAlone ==
    ASSUME NEW app, OnePair(app), NEW order \in Orders, NEW a \in Approvals, app[a] # None
    PROVE  Found(app, order, a) = 0
<1> DEFINE before(b) == \/ app[b].table = "active" /\ app[a].table # "active"
                        \/ /\ app[b].table = "active" <=> app[a].table = "active"
                           /\ order[b] < order[a]
           S == {b \in Between(app, app[a].payer, app[a].user, "active")
                         \cup Between(app, app[a].payer, app[a].user, "used") : before(b)}
           f == [b \in S |-> app[b].used]
<1>1. \A b \in S : b = a
  BY DEF OnePair, Between, In
<1>2. order[a] \in Int
  BY LedgerAssumption, FS_CardinalityType DEF Orders
<1>3. ~before(a)
  BY <1>2
<1>4. S = {}
  BY <1>1, <1>3
<1>5. Found(app, order, a) = SumFunctionOnSet(f, S)
  BY DEF Found, UsedOf, Sum
<1> HIDE DEF S, f
<1>6. SumFunctionOnSet(f, {}) = 0
  BY SumEmpty
<1>7. SumFunctionOnSet(f, S) = 0
  BY <1>4, <1>6, Zenon
<1> QED BY <1>5, <1>7

\* An approval a refund gives to is as it has read it.
AsRead(seen, u, spend, a) ==
    (approval[a].user = u /\ spend[approval[a].payer] > 0) =>
        /\ seen[a] # None
        /\ seen[a].used = approval[a].used /\ seen[a].table = approval[a].table

\* What a refund does to such an approval, when its payer and its user have no other: it
\* gives back to it, or the approval lapsed and all it ever paid goes to the payer.
LEMMA RefundRow ==
    ASSUME TypeInv, OnePair(approval), NEW u \in Users, NEW spend \in [Users -> Nat],
           NEW seen, StandsFor(seen, approval, u, spend), NEW order \in Orders,
           TakenBack(seen, spend, order) = {},
           NEW a \in Approvals, approval[a] # None, AsRead(seen, u, spend, a),
           NEW row, row = approval[a],
           (row.user = u /\ row.table \in {"active", "used"}) => spend[row.payer] <= row.used,
           NEW new, new = GiveBack(seen, spend, order)[a]
    PROVE  \/ /\ row.user # u \/ spend[row.payer] = 0
              /\ a \notin Lapsed(seen, spend, order) /\ new = row
           \/ /\ row.user = u /\ spend[row.payer] > 0 /\ row.table \in {"revoked", "expired"}
              /\ a \in Lapsed(seen, spend, order) /\ seen[a].used = row.used /\ new = row
           \/ /\ row.user = u /\ spend[row.payer] > 0 /\ row.table \in {"active", "used"}
              /\ a \notin Lapsed(seen, spend, order)
              /\ new = Changed(row, row.used - spend[row.payer], "active")
<1> DEFINE n == spend[row.payer]
           old == seen[a]
<1>1. /\ row \in Row /\ row.payer \in Users /\ row.payer # row.user /\ row.used \in Nat
      /\ row.table \in {"active", "used", "revoked", "expired"} /\ n \in Nat
  BY DEF TypeInv, Mapping, Sound, RowSound, Row, Tables
<1>2. OnePair(seen)
  BY DEF OnePair, StandsFor, Alike
<1>3. old # None => /\ old.payer = row.payer /\ row.user = u /\ n > 0 /\ Found(seen, order, a) = 0
  BY <1>2, FoundAlone DEF StandsFor, Alike
<1>4. a \in Visited(seen, spend, order) <=> old # None
  BY <1>1, <1>3 DEF Visited
<1>5. CASE row.user # u \/ n = 0
  <2>1. a \notin Visited(seen, spend, order)
    BY <1>1, <1>3, <1>4, <1>5
  <2> QED BY <1>5, <2>1 DEF GiveBack, Lapsed
<1>6. CASE row.user = u /\ n > 0
  <2>1. a \in Visited(seen, spend, order) /\ old.used = row.used /\ old.table = row.table
    BY <1>4, <1>6 DEF AsRead
  <2>2. CASE row.table \in {"revoked", "expired"}
    <3>1. old.table # "active" /\ old.table # "used"
      BY <2>1, <2>2
    <3>2. new = row
      BY <2>1, <3>1 DEF GiveBack
    <3> QED BY <1>6, <2>1, <2>2, <3>2 DEF Lapsed
  <2>3. CASE row.table \in {"active", "used"}
    <3>1. n <= row.used
      BY <1>6, <2>3
    <3>2. new = Changed(row, row.used - n, "active")
      <4>1. CASE row.table = "active"
        <5>1. new = GiveActive(row, row.used, n)
          BY <1>3, <1>4, <2>1, <4>1 DEF GiveBack
        <5>2. new = [row EXCEPT !.used = row.used - n]
          BY <1>1, <3>1, <4>1, <5>1 DEF GiveActive
        <5> HIDE DEF n
        <5>3. Changed(row, row.used - n, "active") = [row EXCEPT !.used = row.used - n]
          BY <1>1, <4>1 DEF Changed, Row
        <5> QED BY <5>2, <5>3
      <4>2. CASE row.table = "used"
        <5>1. new = GiveInactive(row, n - 0)
          <6>1. old.table # "active" /\ old.table = "used"
            BY <2>1, <4>2
          <6> QED BY <1>3, <1>4, <2>1, <6>1 DEF GiveBack
        <5>2. n - 0 = n /\ Smaller(row.used, n) = n
          BY <1>1, <3>1 DEF Smaller
        <5> HIDE DEF n
        <5> QED BY <5>1, <5>2 DEF GiveInactive, Changed
      <4> QED BY <2>3, <4>1, <4>2
    <3>3. a \notin Lapsed(seen, spend, order)
      BY <2>1, <2>3 DEF Lapsed
    <3> QED BY <1>6, <2>3, <3>2, <3>3
  <2> QED BY <1>1, <2>2, <2>3
<1> QED BY <1>1, <1>5, <1>6

\* What a refund is to give back to a payer whose rows it has not misread is what the
\* reservation says the payer spent.
LEMMA RefundOf ==
    ASSUME TypeInv, TypeInv', Refunds, NEW f \in Refunders, RefundCommit(f),
           NEW r, r = refunding[f], NEW u, u = SignerOf[r.item]
    PROVE  \E gave \in [Users -> Nat] :
              /\ \A x, y \in Users :
                    Spent(x, y)' = IF y = u THEN Spent(x, y) - gave[x] ELSE Spent(x, y)
              /\ \A x \in Users : x # u /\ x \notin Misread(r) => r.spend[x] = gave[x]
              /\ \A x \in Users : gave[x] <= Spent(x, u)
<1>1. /\ u \in Users /\ r.spend \in [Users -> Nat] /\ Reading(r, approval, reservations)
      /\ reservations' = reservations \ {r.row}
  BY RefundStep
<1>2. CASE r.row # None
  <2> DEFINE row == r.row
             g == [x \in Users |-> SpentBy(x, row)]
  <2>1. row \in reservations /\ SignerOf[row.item] = u /\ r.spend = SpendOf(u, row)
        /\ reservations' = reservations \ {row}
    BY <1>1, <1>2 DEF Reading
  <2> HIDE DEF row
  <2>2. \A x \in Users : SpentBy(x, row) \in Nat /\ SpentBy(x, row) <= Spent(x, u)
    BY <1>1, <2>1, SpentNat
  <2>3. \A x \in Users : x # u => r.spend[x] = SpentBy(x, row)
    BY <2>1 DEF SpentBy, SpendOf, BySigner
  <2>4. \A x, y \in Users : Spent(x, y)' = IF u = y THEN Spent(x, y) - SpentBy(x, row) ELSE Spent(x, y)
    BY <2>1, SpentRemoved
  <2>5. g \in [Users -> Nat] /\ \A x \in Users : g[x] = SpentBy(x, row)
    BY <2>2
  <2> HIDE DEF g
  <2> QED BY <2>2, <2>3, <2>4, <2>5
<1>3. CASE r.row = None
  <2> DEFINE g == [x \in Users |-> 0]
  <2>1. reservations' = reservations
    BY <1>1, <1>3, NoneAssumption DEF TypeInv
  <2>2. \A x, y \in Users : Spent(x, y)' = Spent(x, y) /\ Spent(x, y) \in Nat
    BY <2>1, SpentNat DEF Spent, SpentBy
  <2>3. \A x \in Users : x \notin Misread(r) => r.spend[x] = 0
    BY <1>1, <1>3 DEF Misread
  <2>4. g \in [Users -> Nat] /\ \A x \in Users : g[x] = 0
    OBVIOUS
  <2> HIDE DEF g
  <2> QED BY <1>1, <2>2, <2>3, <2>4
<1> QED BY <1>2, <1>3

\* Where a payer is not misread, the approvals it gave the signer are as read.
LEMMA ReadRight ==
    ASSUME TypeInv, Refunds, NEW f \in Refunders, RefundCommit(f),
           NEW r, r = refunding[f], NEW u, u = SignerOf[r.item],
           NEW a \in Approvals, approval[a] # None,
           approval[a].user = u => approval[a].payer \notin Misread(r)
    PROVE  AsRead(r.seen, u, r.spend, a)
<1>1. approval[a].payer \in Users /\ approval[a].payer # approval[a].user
  BY DEF TypeInv, Sound, RowSound, Row
<1> QED BY <1>1 DEF AsRead, Misread, Differs

LEMMA RefundAccounted ==
    ASSUME TypeInv, TypeInv', Refunds, Accounted, NEW f \in Refunders, RefundCommit(f)
    PROVE  Accounted'
<1> DEFINE r == refunding[f]
           u == SignerOf[r.item]
           spend == r.spend
<1>1. /\ u \in Users /\ spend \in [Users -> Nat] /\ StandsFor(r.seen, approval, u, spend)
      /\ \E order \in Orders : /\ TakenBack(r.seen, spend, order) = {}
                               /\ approval' = GiveBack(r.seen, spend, order)
  BY RefundStep
<1>2. PICK order \in Orders : /\ TakenBack(r.seen, spend, order) = {}
                              /\ approval' = GiveBack(r.seen, spend, order)
  BY <1>1
<1>3. PICK gave \in [Users -> Nat] :
         /\ \A x, y \in Users :
               Spent(x, y)' = IF y = u THEN Spent(x, y) - gave[x] ELSE Spent(x, y)
         /\ \A x \in Users : x # u /\ x \notin Misread(r) => spend[x] = gave[x]
         /\ \A x \in Users : gave[x] <= Spent(x, u)
  BY RefundOf
<1>4. \A x, y \in Users : amiss'[<<x, y>>] = 0 => amiss[<<x, y>>] = 0 /\ (y = u => x \notin Misread(r))
  <2>1. ASSUME NEW x \in Users, NEW y \in Users
        PROVE  /\ amiss[<<x, y>>] \in Nat
               /\ amiss'[<<x, y>>] = IF y = u /\ x \in Misread(r) THEN amiss[<<x, y>>] + 1 ELSE amiss[<<x, y>>]
    BY DEF RefundCommit, TypeInv
  <2> QED BY <2>1
<1>5. \A a \in Approvals : /\ approval[a] = None <=> approval'[a] = None
                           /\ approval[a] # None => Alike(approval'[a], approval[a])
  BY RefundCommitTyped
<1>6. OnePair(approval') /\ \A x, y \in Users : Of(approval', x, y) = Of(approval, x, y)
  BY <1>5 DEF Accounted, OnePair, Alike, Of
<1>7. ASSUME NEW x \in Users, NEW y \in Users, x # y, amiss'[<<x, y>>] = 0, Of(approval', x, y) = {}
      PROVE  Spent(x, y)' = 0
  <2>1. Spent(x, y) = 0
    BY <1>4, <1>6, <1>7 DEF Accounted
  <2> QED BY <1>3, <2>1
<1>8. ASSUME NEW x \in Users, NEW y \in Users, x # y, amiss'[<<x, y>>] = 0,
             NEW a \in Of(approval', x, y), approval'[a].table \in {"active", "used"}
      PROVE  approval'[a].used = Spent(x, y)'
  <2> DEFINE row == approval[a]
             new == approval'[a]
  <2>1. a \in Of(approval, x, y) /\ a \in Approvals /\ row # None /\ row.payer = x /\ row.user = y
    BY <1>6, <1>8 DEF Of
  <2>2. row.table \in {"active", "used"} => row.used = Spent(x, y)
    BY <1>4, <1>8, <2>1 DEF Accounted
  <2>3. (row.user = u /\ row.table \in {"active", "used"}) => spend[row.payer] <= row.used
    BY <1>3, <1>4, <1>8, <2>1, <2>2
  <2>4. AsRead(r.seen, u, spend, a)
    BY <1>4, <1>8, <2>1, ReadRight
  <2>5. new = GiveBack(r.seen, spend, order)[a]
    BY <1>2
  <2>6. \/ (row.user # u \/ spend[row.payer] = 0) /\ new = row
        \/ row.table \in {"revoked", "expired"} /\ new = row
        \/ /\ row.user = u /\ row.table \in {"active", "used"}
           /\ new = Changed(row, row.used - spend[row.payer], "active")
    <3> HIDE DEF r, u, spend
    <3>1. OnePair(approval)
      BY DEF Accounted
    <3> QED BY <1>1, <1>2, <2>1, <2>3, <2>4, <2>5, <3>1, RefundRow
  <2>7. row \in Row /\ row.used \in Nat /\ spend[x] \in Nat
    BY <1>1, <2>1 DEF TypeInv, Mapping, Row
  <2>8. y = u => spend[x] = gave[x]
    BY <1>3, <1>4, <1>8
  <2> HIDE DEF r, u, spend, new, row
  <2>9. CASE (row.user # u \/ spend[row.payer] = 0) /\ new = row
    <3>1. new.used = Spent(x, y)
      BY <1>8, <2>2, <2>9 DEF new
    <3>2. Spent(x, y)' = Spent(x, y)
      <4>1. Spent(x, y) \in Nat
        BY SpentNat
      <4> QED BY <1>3, <2>1, <2>8, <2>9, <4>1
    <3> QED BY <3>1, <3>2 DEF new
  <2>10. CASE row.table \in {"revoked", "expired"} /\ new = row
    BY <1>8, <2>10 DEF new
  <2>11. CASE /\ row.user = u /\ row.table \in {"active", "used"}
              /\ new = Changed(row, row.used - spend[row.payer], "active")
    <3> DEFINE used == row.used - spend[x]
    <3>1. used \in Nat /\ "active" \in Tables /\ new = Changed(row, used, "active")
      BY <2>1, <2>3, <2>7, <2>11 DEF Tables
    <3> HIDE DEF used
    <3>2. new.used = used
      BY <2>7, <3>1, RowChanged
    <3> QED BY <1>3, <2>1, <2>2, <2>8, <2>11, <3>2 DEF used, new
  <2> QED BY <2>6, <2>9, <2>10, <2>11
<1> QED BY <1>6, <1>7, <1>8 DEF Accounted

LEMMA InitAccounted == Init => Accounted
<1> SUFFICES ASSUME Init PROVE Accounted
  OBVIOUS
<1>1. reservations = {} /\ \A a \in Approvals : approval[a] = None
  BY DEF Init
<1>2. ASSUME NEW p \in Users, NEW u \in Users PROVE Spent(p, u) = 0
  <2> DEFINE held == {r \in reservations : SignerOf[r.item] = u}
             f == [r \in held |-> SpentBy(p, r)]
  <2>1. held = {}
    BY <1>1
  <2>2. Spent(p, u) = SumFunctionOnSet(f, held)
    BY DEF Spent, Sum
  <2> HIDE DEF held, f
  <2>3. SumFunctionOnSet(f, {}) = 0
    BY SumEmpty
  <2> QED BY <2>1, <2>2, <2>3, Zenon
<1>3. OnePair(approval) /\ \A p, u \in Users : Of(approval, p, u) = {}
  BY <1>1 DEF OnePair, Of
<1> QED BY <1>2, <1>3 DEF Accounted

LEMMA StepAccounted ==
    ASSUME TypeInv, TypeInv', Refunds, Accounted, ~ApprovalsShared, [Next]_vars
    PROVE  Accounted'
<1>1. CASE UNCHANGED <<approval, reservations, amiss>>
  BY <1>1, KeepsAccounted
<1>2. CASE UNCHANGED vars
  BY <1>1, <1>2 DEF vars
<1>3. CASE \E u \in Users, n \in Amounts : atomicCreditUser(u, n)
  BY <1>1, <1>3 DEF atomicCreditUser, refundVars
<1>4. CASE \E a \in Approvals, p \in Users, u \in Approved, n \in Amounts :
             p # u /\ createDelegatedPaymentApproval(a, p, u, n)
  BY <1>4, CreateAccounted, LedgerAssumption
<1>5. CASE \E a \in Approvals : Expire(a)
  <2>1. PICK a \in Approvals : Expire(a)
    BY <1>5
  <2>2. approval[a] \in Row /\ approval' = [approval EXCEPT ![a] = [approval[a] EXCEPT !.due = TRUE]]
        /\ UNCHANGED <<reservations, amiss>>
    BY <2>1 DEF Expire, In, TypeInv, Mapping, refundVars
  <2>3. [approval[a] EXCEPT !.due = TRUE] # None
    BY <2>2, NoneAssumption DEF Row
  <2>4. \A b \in Approvals :
            /\ approval'[b] = None <=> approval[b] = None
            /\ approval[b] # None =>
                  /\ approval'[b].payer = approval[b].payer /\ approval'[b].user = approval[b].user
                  /\ approval'[b].table = approval[b].table /\ approval'[b].used = approval[b].used
    BY <2>1, <2>2, <2>3 DEF TypeInv, Mapping, Row, Expire, In
  <2> QED BY <2>2, <2>4, KeepsAccounted
<1>6. CASE \E p, u \in Users : revokeDelegatedPaymentApprovals(p, u)
  <2>1. PICK p \in Users, u \in Users : revokeDelegatedPaymentApprovals(p, u)
    BY <1>6
  <2> DEFINE S == Between(approval, p, u, "active") \cup Between(approval, p, u, "used")
  <2>2. S \in SUBSET Approvals /\ (\A a \in S : approval[a] # None)
        /\ approval' = Moved(approval, S, "revoked") /\ UNCHANGED <<reservations, amiss>>
    BY <2>1 DEF revokeDelegatedPaymentApprovals, Between, In, refundVars
  <2> HIDE DEF S
  <2> QED BY <2>2, MovedAccounted
<1>7. CASE \E c \in Callers, i \in Items : reserveBalance(c, i)
  BY <1>1, <1>7 DEF reserveBalance, refundVars
<1>8. CASE \E c \in Callers, w \in Costs, list \in PaidBy, listOnly \in BOOLEAN :
             ReserveCommit(c, w, list, listOnly)
  BY <1>8, CommitAccounted
<1>9. CASE \/ \E f \in Refunders, i \in Items, w \in Costs : refundBalance(f, i, w)
           \/ \E f \in Refunders : RefundApprovals(f) \/ RefundFails(f)
  BY <1>1, <1>9 DEF refundBalance, RefundApprovals, RefundFails
<1>10. CASE \E f \in Refunders : RefundCommit(f)
  BY <1>10, RefundAccounted
<1>11. CASE \E t \in Readers, u \in Users : TrimRead(t, u)
  BY <1>1, <1>11 DEF TrimRead, refundVars
<1>12. CASE \E t \in Trimmers : TrimPay(t)
  BY <1>1, <1>12 DEF TrimPay, refundVars
<1>13. CASE \E t \in Trimmers : TrimMove(t)
  <2>1. PICK t \in Trimmers : TrimMove(t)
    BY <1>13
  <2> DEFINE S == {a \in trim[t].gone : In(approval, a, "active")}
  <2>2. S \in SUBSET Approvals /\ (\A a \in S : approval[a] # None)
        /\ approval' = Moved(approval, S, "expired") /\ UNCHANGED <<reservations, amiss>>
    BY <2>1 DEF TrimMove, TypeInv, Trimming, In, refundVars
  <2> HIDE DEF S
  <2> QED BY <2>2, MovedAccounted
<1> QED BY <1>2, <1>3, <1>4, <1>5, <1>6, <1>7, <1>8, <1>9, <1>10, <1>11, <1>12, <1>13 DEF Next

LEMMA AccountedReserved == TypeInv /\ Accounted => UsedIsReserved
<1> SUFFICES ASSUME TypeInv, Accounted, NEW p \in Users, NEW u \in Users, p # u, amiss[<<p, u>>] = 0,
                    \A t \in {"revoked", "expired"} : Between(approval, p, u, t) = {}
             PROVE  UsedOf(approval, Between(approval, p, u, "active") \cup Between(approval, p, u, "used"))
                    = Spent(p, u)
  BY DEF UsedIsReserved
<1> DEFINE S == Between(approval, p, u, "active") \cup Between(approval, p, u, "used")
           f == [a \in S |-> approval[a].used]
<1>1. S = Of(approval, p, u)
  BY DEF Between, In, Of, TypeInv, Sound, RowSound, Row, Tables
<1>2. UsedOf(approval, S) = SumFunctionOnSet(f, S)
  BY DEF UsedOf, Sum
<1>3. CASE S = {}
  <2>1. Spent(p, u) = 0
    BY <1>1, <1>3 DEF Accounted
  <2> HIDE DEF S, f
  <2>2. SumFunctionOnSet(f, {}) = 0
    BY SumEmpty
  <2>3. SumFunctionOnSet(f, S) = 0
    BY <1>3, <2>2, Zenon
  <2> QED BY <1>2, <2>1, <2>3 DEF S
<1>4. CASE S # {}
  <2>1. PICK a \in S : TRUE
    BY <1>4
  <2>2. S = {a}
    BY <1>1, <2>1 DEF Of, Accounted, OnePair
  <2>3. f[a] = approval[a].used /\ approval[a].used \in Nat
    BY <1>1, <2>1 DEF Of, TypeInv, Sound, RowSound, Row
  <2>4. approval[a].used = Spent(p, u)
    BY <1>1, <2>1 DEF Between, In, Accounted
  <2> HIDE DEF S, f
  <2>5. SumFunctionOnSet(f, {a}) = f[a]
    <3>1. f[a] \in Int
      BY <2>3
    <3> QED BY <3>1, SumSingleton, Zenon
  <2>6. SumFunctionOnSet(f, S) = f[a]
    BY <2>2, <2>5, Zenon
  <2> QED BY <1>2, <2>3, <2>4, <2>6 DEF S
<1> QED BY <1>3, <1>4

\* What a payer's approvals were used for is what the reservations say it spent: a
\* reserve adds to both, a refund takes from both, whatever expires or is revoked in
\* between and however many refunds overlap it, as long as no refund of the two wrote
\* over rows changed since it read them, and a user has one approval from a payer.
\* (With two, a refund compares each with the payer's whole share, and gives back less
\* than was spent.)
THEOREM UsedIsReservedAlways ==
    ASSUME ~ApprovalsShared PROVE Spec => []UsedIsReserved
<1>1. Init => TypeInv /\ Refunds /\ Accounted
  BY InitTyped, InitAccounted
<1>2. TypeInv /\ Refunds /\ [Next]_vars => TypeInv' /\ Refunds'
  BY StepTyped, StepRefunds
<1>3. TypeInv /\ TypeInv' /\ Refunds /\ Accounted /\ [Next]_vars => Accounted'
  BY StepAccounted
<1>4. TypeInv /\ Accounted => UsedIsReserved
  BY AccountedReserved
<1> QED BY <1>1, <1>2, <1>3, <1>4, PTL DEF Spec

(***************************************************************************)
(* Where the credits are.                                                  *)
(***************************************************************************)
LEMMA Finite == IsFiniteSet(Users) /\ IsFiniteSet(Approvals) /\ IsFiniteSet(Trimmers)
BY LedgerAssumption, FS_Union DEF Trimmers

\* What each approval holds for its user, and each reader's request for the payers.
Free(app) == [a \in Approvals |-> IF In(app, a, "active") THEN Left(app, a) ELSE 0]
Way == [t \in Trimmers |-> OnTheWay(t)]

\* Credit as three sums over fixed sets.
LEMMA FreeTyped ==
    ASSUME NEW app, Sound(app)
    PROVE  /\ \A a \in Approvals : Free(app)[a] \in Nat
           /\ SumFunctionOnSet(Free(app), Approvals) \in Nat
           /\ LeftOf(app, {a \in Approvals : In(app, a, "active")})
              = SumFunctionOnSet(Free(app), Approvals)
<1> DEFINE S == {a \in Approvals : In(app, a, "active")}
           f == [a \in S |-> Left(app, a)]
<1>1. \A a \in S : Left(app, a) \in Nat
  BY DEF Sound, In, RowSound, Row, Left
<1>2. \A a \in Approvals : Free(app)[a] \in Nat
  BY <1>1 DEF Free
<1>3. /\ \A a \in S : f[a] \in Int /\ Free(app)[a] = f[a]
      /\ \A a \in Approvals \ S : Free(app)[a] = 0
  BY <1>1 DEF Free
<1>4. S \in SUBSET Approvals /\ LeftOf(app, S) = SumFunctionOnSet(f, S)
  BY DEF LeftOf, Sum
<1> HIDE DEF S, f
<1>5. SumFunctionOnSet(Free(app), Approvals) = SumFunctionOnSet(f, S)
  <2> DEFINE g == Free(app)
  <2>1. (\A a \in S : f[a] \in Int /\ g[a] = f[a]) /\ \A a \in Approvals \ S : g[a] = 0
    BY <1>3
  <2> HIDE DEF g
  <2>2. SumFunctionOnSet(g, Approvals) = SumFunctionOnSet(f, S)
    BY <1>4, <2>1, Finite, SumWithin
  <2> QED BY <2>2 DEF g
<1>6. SumFunctionOnSet(Free(app), Approvals) \in Nat
  BY <1>2, Finite, SumNat
<1> QED BY <1>2, <1>4, <1>5, <1>6 DEF S

LEMMA CreditParts ==
    ASSUME TypeInv
    PROVE  /\ Credit = SumFunctionOnSet(balance, Users) + SumFunctionOnSet(Free(approval), Approvals)
                       + SumFunctionOnSet(Way, Trimmers)
           /\ SumFunctionOnSet(balance, Users) \in Nat
           /\ SumFunctionOnSet(Free(approval), Approvals) \in Nat
           /\ SumFunctionOnSet(Way, Trimmers) \in Nat
           /\ \A t \in Trimmers : Way[t] \in Nat
<1>1. SumFunctionOnSet(balance, Users) \in Nat
  <2>1. \A p \in Users : balance[p] \in Nat
    BY DEF TypeInv
  <2> QED BY <2>1, Finite, SumNat
<1>2. ASSUME NEW t \in Trimmers PROVE Way[t] \in Nat
  <2>1. Way[t] = OnTheWay(t)
    BY DEF Way
  <2>2. CASE trim[t] = None
    BY <2>1, <2>2 DEF OnTheWay
  <2>3. CASE trim[t] # None
    <3>1. \A p \in Users : trim[t].owed[p] \in Nat
      BY <2>3 DEF TypeInv, Trimming
    <3> DEFINE o == trim[t].owed
    <3>2. SumFunctionOnSet(o, Users) \in Nat
      <4> HIDE DEF o
      <4> QED BY <3>1, Finite, SumNat DEF o
    <3> QED BY <2>1, <3>2 DEF OnTheWay, Sum
  <2> QED BY <2>2, <2>3
<1>3. SumFunctionOnSet(Way, Trimmers) \in Nat
  BY <1>2, Finite, SumNat
<1>4. Sound(approval)
  BY DEF TypeInv
<1>5. Credit = SumFunctionOnSet(balance, Users) + SumFunctionOnSet(Free(approval), Approvals)
               + SumFunctionOnSet(Way, Trimmers)
  BY <1>4, FreeTyped DEF Credit, Sum, Way
<1> QED BY <1>1, <1>2, <1>3, <1>4, <1>5, FreeTyped

\* What is taken out of the active table, the payers no longer have set aside.
LEMMA FreeMoved ==
    ASSUME NEW app, Mapping(app), Sound(app), NEW S \in SUBSET Approvals,
           \A a \in S : app[a] # None, NEW table \in {"revoked", "expired"},
           NEW T, T = {a \in S : In(app, a, "active")}
    PROVE  /\ SumFunctionOnSet(Free(app), Approvals)
              = SumFunctionOnSet(Free(Moved(app, S, table)), Approvals) + LeftOf(app, T)
           /\ LeftOf(app, T) \in Nat
<1> DEFINE new == Moved(app, S, table)
           f == [a \in T |-> Left(app, a)]
           g == [a \in Approvals |-> IF a \in T THEN Left(app, a) ELSE 0]
<1>1. \A a \in T : RowSound(app[a]) /\ Left(app, a) \in Nat
  BY DEF Sound, In, RowSound, Row, Left
<1>2. LeftOf(app, T) = SumFunctionOnSet(f, T) /\ T \in SUBSET Approvals
  BY DEF LeftOf, Sum
<1>3. SumFunctionOnSet(g, Approvals) = SumFunctionOnSet(f, T)
  <2>1. (\A a \in T : f[a] \in Int /\ g[a] = f[a]) /\ \A a \in Approvals \ T : g[a] = 0
    BY <1>1, <1>2
  <2>2. T \in SUBSET Approvals
    OBVIOUS
  <2> HIDE DEF f, g
  <2> QED BY <2>1, <2>2, Finite, SumWithin
<1>4. Mapping(new) /\ Sound(new)
  BY MovedSound
<1>5. ASSUME NEW a \in Approvals
      PROVE  Free(new)[a] \in Int /\ g[a] \in Int /\ Free(app)[a] = Free(new)[a] + g[a]
  <2>1. Free(app)[a] \in Nat /\ Free(new)[a] \in Nat
    BY <1>4, FreeTyped
  <2>2. new[a] = IF a \in S THEN [app[a] EXCEPT !.table = table] ELSE app[a]
    BY DEF Moved
  <2>3. CASE a \notin S
    <3>1. new[a] = app[a] /\ g[a] = 0
      BY <2>2, <2>3
    <3> HIDE DEF new, g
    <3> QED BY <2>1, <3>1 DEF Free, In, Left
  <2>4. CASE a \in S
    <3>1. new[a] \in Row /\ new[a].table = table
      BY <2>2, <2>4 DEF Mapping, Row, Tables
    <3>2. Free(new)[a] = 0
      <4> HIDE DEF new
      <4> QED BY <3>1 DEF Free, In
    <3>3. Free(app)[a] = g[a]
      BY <2>4 DEF Free
    <3> QED BY <2>1, <3>2, <3>3
  <2> QED BY <2>3, <2>4
<1>6. SumFunctionOnSet(Free(app), Approvals)
      = SumFunctionOnSet(Free(new), Approvals) + SumFunctionOnSet(g, Approvals)
  <2> HIDE DEF new, g
  <2> QED BY <1>5, Finite, SumPlus
<1>7. LeftOf(app, T) \in Nat
  BY <1>1, <1>2, LeftNat
<1> QED BY <1>2, <1>3, <1>6, <1>7

\* What a reserve takes from the approvals is what is not the signer's.
LEMMA FreeDrawn ==
    ASSUME TypeInv, NEW u \in Users, NEW w \in Nat, NEW shares \in [Users -> Nat],
           Covers(u, w, shares), NEW d \in Draws(u, w, shares)
    PROVE  SumFunctionOnSet(Free(approval), Approvals)
           = SumFunctionOnSet(Free(Drawn(d)), Approvals) + (w - shares[u])
<1> DEFINE A == {a \in Approvals : d[a] > 0}
           key == [a \in A |-> approval[a].payer]
           K == Users \ {u}
<1>1. \A a \in Approvals : d[a] \in Nat
  BY DEF Draws
<1>2. A \in SUBSET Approvals /\ IsFiniteSet(A) /\ IsFiniteSet(K)
  BY Finite, FS_Subset, FS_RemoveElement
<1>3. \A a \in A : /\ In(approval, a, "active") /\ approval[a].user = u /\ d[a] <= Left(approval, a)
                   /\ approval[a] \in Row /\ RowSound(approval[a]) /\ key[a] \in K
  BY DEF Draws, TypeInv, Mapping, Sound, In, Row
<1>4. SumFunctionOnSet(d, Approvals) = SumFunctionOnSet(d, A)
  <2>1. (\A a \in A : d[a] \in Int /\ d[a] = d[a]) /\ \A a \in Approvals \ A : d[a] = 0
    BY <1>1
  <2> HIDE DEF A
  <2> QED BY <1>2, <2>1, Finite, SumWithin
<1>5. ASSUME NEW p \in K PROVE shares[p] = SumFunctionOnSet(d, {a \in A : key[a] = p})
  <2> DEFINE B == Between(approval, p, u, "active")
             C == {a \in A : key[a] = p}
  <2>1. SumFunctionOnSet(d, B) = shares[p]
    BY DEF Draws, Sum
  <2>2. C \in SUBSET B /\ IsFiniteSet(B) /\ B \in SUBSET Approvals
    BY <1>3, Finite, FS_Subset DEF Between
  <2>3. (\A a \in C : d[a] \in Int /\ d[a] = d[a]) /\ \A a \in B \ C : d[a] = 0
    BY <1>1, <2>2 DEF Between
  <2> HIDE DEF B, C
  <2>4. SumFunctionOnSet(d, B) = SumFunctionOnSet(d, C)
    BY <2>2, <2>3, SumWithin
  <2> QED BY <2>1, <2>4 DEF C
<1>6. \A a \in A : d[a] \in Int /\ key[a] \in K
  BY <1>1, <1>3
<1>7. ASSUME NEW a \in Approvals
      PROVE  Free(Drawn(d))[a] \in Int /\ d[a] \in Int /\ Free(approval)[a] = Free(Drawn(d))[a] + d[a]
  <2>1. Sound(approval) /\ Sound(Drawn(d)) /\ Mapping(Drawn(d))
    BY DrawnSound DEF TypeInv
  <2>2. Free(approval)[a] \in Nat /\ Free(Drawn(d))[a] \in Nat /\ d[a] \in Nat
    BY <1>1, <2>1, FreeTyped
  <2> DEFINE new == Drawn(d)[a]
  <2>3. CASE d[a] = 0
    <3>1. new = approval[a]
      BY <2>3 DEF Drawn
    <3>2. Free(Drawn(d))[a] = Free(approval)[a]
      <4> DEFINE D == Drawn(d)
      <4>1. D[a] = approval[a]
        BY <3>1
      <4> HIDE DEF D
      <4>2. Free(D)[a] = Free(approval)[a]
        BY <4>1 DEF Free, In, Left
      <4> QED BY <4>2 DEF D
    <3> QED BY <2>2, <2>3, <3>2
  <2>4. CASE d[a] # 0
    <3>0. a \in A
      BY <2>2, <2>4
    <3>1. /\ In(approval, a, "active") /\ d[a] <= Left(approval, a)
          /\ approval[a] \in Row /\ RowSound(approval[a])
      BY <1>3, <3>0
    <3> DEFINE row == approval[a]
               used == row.used + d[a]
               t == IF Left(approval, a) = d[a] THEN "used" ELSE "active"
    <3>2. new = Changed(row, used, t)
      BY <2>4 DEF Drawn, Changed
    <3>3. row \in Row /\ used \in Nat /\ t \in Tables /\ row.amount \in Nat /\ row.used \in Nat
      BY <2>2, <3>1 DEF Tables, Row
    <3>4. Free(approval)[a] = row.amount - row.used /\ Left(approval, a) = row.amount - row.used
      BY <3>1 DEF Free, Left
    <3> DEFINE D == Drawn(d)
    <3>5. D[a] = new
      OBVIOUS
    <3> HIDE DEF row, used, t, new, D
    <3>6. new \in Row /\ new.amount = row.amount
      BY <3>2, <3>3, RowChanged
    <3>7. new.used = used /\ new.table = t
      BY <3>2, <3>3, RowChanged
    <3>8. Free(D)[a] = IF t = "active" THEN row.amount - used ELSE 0
      BY <3>5, <3>6, <3>7, NoneAssumption DEF Free, In, Left
    <3>9. Free(D)[a] = row.amount - row.used - d[a]
      BY <2>2, <3>1, <3>3, <3>4, <3>8 DEF t, used
    <3> QED BY <2>2, <3>3, <3>4, <3>9 DEF D
  <2> QED BY <2>3, <2>4
<1>8. SumFunctionOnSet(Free(approval), Approvals)
      = SumFunctionOnSet(Free(Drawn(d)), Approvals) + SumFunctionOnSet(d, Approvals)
  BY <1>7, Finite, SumPlus
<1> HIDE DEF A, key, K
<1>9. SumFunctionOnSet(d, A) = SumFunctionOnSet(shares, K)
  BY <1>2, <1>5, <1>6, SumFibres
<1>10. SumFunctionOnSet(shares, Users) = shares[u] + SumFunctionOnSet(shares, K)
  <2>1. \A p \in Users : shares[p] \in Int
    OBVIOUS
  <2> QED BY <2>1, Finite, SumRemove DEF K
<1>11. SumFunctionOnSet(shares, Users) = w /\ shares[u] \in Nat
  BY DEF Covers, Sum
<1>12. SumFunctionOnSet(shares, K) \in Int
  <2>1. \A p \in K : shares[p] \in Int
    BY DEF K
  <2> QED BY <1>2, <2>1, SumInt
<1> QED BY <1>4, <1>8, <1>9, <1>10, <1>11, <1>12

\* What one payer and its approval get of a refund: what the payer had spent.
LEMMA RefundPayer ==
    ASSUME TypeInv, OnePair(approval), NEW u \in Users, NEW spend \in [Users -> Nat],
           NEW seen, StandsFor(seen, approval, u, spend), NEW order \in Orders,
           TakenBack(seen, spend, order) = {}, NEW p \in Users, p # u,
           Of(approval, p, u) = {} => spend[p] = 0,
           \A a \in Of(approval, p, u) :
              /\ AsRead(seen, u, spend, a)
              /\ approval[a].table \in {"active", "used"} => spend[p] <= approval[a].used,
           \A a \in Lapsed(seen, spend, order) : seen[a].used = spend[seen[a].payer],
           NEW after, after = GiveBack(seen, spend, order),
           NEW D, D = [a \in Approvals |-> Free(after)[a] - Free(approval)[a]]
    PROVE  (Repaid(seen, u, spend, order)[p] - balance[p])
           + SumFunctionOnSet(D, Of(approval, p, u)) = spend[p]
<1> DEFINE O == Of(approval, p, u)
           M == {a \in Lapsed(seen, spend, order) : seen[a].payer = p}
           g == [a \in M |-> seen[a].used]
<1>1. Repaid(seen, u, spend, order)[p] = balance[p] + SumFunctionOnSet(g, M)
  BY DEF Repaid, UsedOf, Sum
<1>2. M \subseteq O
  BY DEF Lapsed, Visited, StandsFor, Alike, Of
<1>3. balance[p] \in Nat /\ spend[p] \in Nat
  BY DEF TypeInv
<1>4. CASE O = {}
  <2>1. M = {}
    BY <1>2, <1>4
  <2> HIDE DEF O, M, g
  <2>2. SumFunctionOnSet(g, {}) = 0 /\ SumFunctionOnSet(D, {}) = 0
    BY SumEmpty
  <2>3. SumFunctionOnSet(g, M) = 0 /\ SumFunctionOnSet(D, O) = 0
    BY <1>4, <2>1, <2>2, Zenon
  <2> QED BY <1>1, <1>3, <1>4, <2>3 DEF O
<1>5. ASSUME NEW a \in O
      PROVE  (Repaid(seen, u, spend, order)[p] - balance[p]) + SumFunctionOnSet(D, O) = spend[p]
  <2> DEFINE row == approval[a]
             new == after[a]
             n == spend[p]
  <2>1. /\ a \in Approvals /\ approval[a] # None /\ row.payer = p /\ row.user = u
        /\ row \in Row /\ RowSound(row)
        /\ row.amount \in Nat /\ row.used \in Nat /\ row.table \in Tables
    BY <1>5 DEF Of, TypeInv, Sound, RowSound, Row
  <2>2. O = {a}
    BY <1>5 DEF Of, OnePair
  <2>3. seen[a] # None => seen[a].payer = p
    BY <2>1 DEF StandsFor, Alike
  <2>4. M = (IF a \in Lapsed(seen, spend, order) THEN {a} ELSE {})
    BY <1>2, <2>2, <2>3 DEF Lapsed, Visited
  <2>5. D[a] = Free(after)[a] - Free(approval)[a]
    BY <2>1
  <2>6. /\ Free(approval)[a] = IF row.table = "active" THEN row.amount - row.used ELSE 0
        /\ new # None => Free(after)[a] = IF new.table = "active" THEN new.amount - new.used ELSE 0
    BY <2>1 DEF Free, In, Left
  <2>7. \/ n = 0 /\ a \notin Lapsed(seen, spend, order) /\ new = row
        \/ /\ row.table \in {"revoked", "expired"} /\ a \in Lapsed(seen, spend, order)
           /\ seen[a].used = row.used /\ new = row
        \/ /\ row.table \in {"active", "used"} /\ a \notin Lapsed(seen, spend, order)
           /\ new = Changed(row, row.used - n, "active")
    <3>1. (row.user = u /\ row.table \in {"active", "used"}) => spend[row.payer] <= row.used
      BY <1>5, <2>1
    <3>2. AsRead(seen, u, spend, a) /\ new = GiveBack(seen, spend, order)[a]
      BY <1>5
    <3> DEFINE m == spend[row.payer]
    <3>3. \/ (row.user # u \/ m = 0) /\ a \notin Lapsed(seen, spend, order) /\ new = row
          \/ /\ row.table \in {"revoked", "expired"} /\ a \in Lapsed(seen, spend, order)
             /\ seen[a].used = row.used /\ new = row
          \/ /\ row.table \in {"active", "used"} /\ a \notin Lapsed(seen, spend, order)
             /\ new = Changed(row, row.used - m, "active")
      <4>1. a \in Approvals /\ row # None
        BY <2>1
      <4> QED BY <3>1, <3>2, <4>1, RefundRow
    <3>4. m = n /\ row.user = u
      BY <2>1
    <3> HIDE DEF m, new, n, row
    <3> QED BY <3>3, <3>4
  <2>8. a \in Lapsed(seen, spend, order) => seen[a].used = n
    BY <2>3 DEF Lapsed, Visited
  <2>9. row.table = "used" => row.used = row.amount
    BY <2>1 DEF RowSound
  <2>10. row.table \in {"active", "used"} => n <= row.used
    BY <1>5
  <2>11. ASSUME NEW h, NEW S
         PROVE  /\ S = {} => SumFunctionOnSet(h, S) = 0
                /\ S = {a} /\ h[a] \in Int => SumFunctionOnSet(h, S) = h[a]
    <3>1. SumFunctionOnSet(h, {}) = 0
      BY SumEmpty
    <3>2. h[a] \in Int => SumFunctionOnSet(h, {a}) = h[a]
      BY SumSingleton
    <3> QED BY <3>1, <3>2, Zenon
  <2>12. D[a] \in Int => SumFunctionOnSet(D, O) = D[a]
    BY <2>2, <2>11
  <2> DEFINE sg == SumFunctionOnSet(g, M)
  <2> SUFFICES D[a] \in Int /\ sg + D[a] = n /\ sg \in Int
    BY <1>1, <1>3, <2>12
  <2>13. /\ a \in Lapsed(seen, spend, order) => sg = n
         /\ a \notin Lapsed(seen, spend, order) => sg = 0
    <3>1. a \in Lapsed(seen, spend, order) => g[a] = n /\ n \in Int /\ M = {a}
      BY <1>3, <2>4, <2>8
    <3>2. a \notin Lapsed(seen, spend, order) => M = {}
      BY <2>4
    <3> HIDE DEF M, g, n
    <3> QED BY <2>11, <3>1, <3>2
  <2> HIDE DEF sg, M, g, O, row, new, n
  <2>14. CASE n = 0 /\ a \notin Lapsed(seen, spend, order) /\ new = row
    BY <2>1, <2>5, <2>6, <2>13, <2>14, NoneAssumption DEF row
  <2>15. CASE row.table \in {"revoked", "expired"} /\ a \in Lapsed(seen, spend, order) /\ new = row
    <3>1. D[a] = 0
      BY <2>1, <2>5, <2>6, <2>15, NoneAssumption
    <3>2. n \in Int
      BY <1>3 DEF n
    <3> QED BY <2>13, <2>15, <3>1, <3>2
  <2>16. CASE /\ row.table \in {"active", "used"} /\ a \notin Lapsed(seen, spend, order)
              /\ new = Changed(row, row.used - n, "active")
    <3> DEFINE used == row.used - n
    <3>1. used \in Nat /\ "active" \in Tables /\ n \in Nat
      BY <1>3, <2>1, <2>10, <2>16 DEF Tables, n
    <3>2. new = Changed(row, used, "active")
      BY <2>16
    <3> HIDE DEF used
    <3>3. new \in Row /\ new.amount = row.amount
      <4>1. row \in Row
        BY <2>1
      <4> QED BY <3>1, <3>2, <4>1, RowChanged
    <3>4. new.used = used /\ new.table = "active"
      <4>1. row \in Row
        BY <2>1
      <4> QED BY <3>1, <3>2, <4>1, RowChanged
    <3>5. Free(after)[a] = row.amount - used
      BY <2>6, <3>3, <3>4, NoneAssumption
    <3>6. Free(approval)[a] = row.amount - row.used
      BY <2>1, <2>6, <2>9, <2>16
    <3>7. D[a] = n
      BY <2>1, <2>5, <3>1, <3>5, <3>6 DEF used
    <3> QED BY <2>13, <2>16, <3>1, <3>7
  <2> QED BY <2>7, <2>14, <2>15, <2>16
<1> QED BY <1>4, <1>5

\* What is refunded was spent: by payers that gave approvals, which are as read, and no
\* more than those were used for; and all that a lapsed one was used for.
Backed(seen, u, spend) ==
    \A p \in Users \ {u} :
        /\ Of(approval, p, u) = {} => spend[p] = 0
        /\ \A a \in Of(approval, p, u) :
              /\ AsRead(seen, u, spend, a)
              /\ approval[a].table \in {"active", "used"} => spend[p] <= approval[a].used
LapsedAlone(seen, spend, order) ==
    \A a \in Lapsed(seen, spend, order) : seen[a].used = spend[seen[a].payer]

LEMMA RefundCredit ==
    ASSUME TypeInv, OnePair(approval), NEW u \in Users, NEW spend \in [Users -> Nat],
           NEW seen, StandsFor(seen, approval, u, spend), NEW order \in Orders,
           TakenBack(seen, spend, order) = {},
           Backed(seen, u, spend), LapsedAlone(seen, spend, order),
           NEW after, after = GiveBack(seen, spend, order)
    PROVE  SumFunctionOnSet(Repaid(seen, u, spend, order), Users)
           + SumFunctionOnSet(Free(after), Approvals)
           = SumFunctionOnSet(balance, Users) + SumFunctionOnSet(Free(approval), Approvals)
             + SumFunctionOnSet(spend, Users)
<1> DEFINE bal == Repaid(seen, u, spend, order)
           E == [p \in Users |-> bal[p] - balance[p]]
           D == [a \in Approvals |-> Free(after)[a] - Free(approval)[a]]
           K == Users \ {u}
           A == {a \in Approvals : approval[a] # None /\ approval[a].user = u /\ approval[a].payer # u}
           key == [a \in A |-> approval[a].payer]
           G == [p \in Users |-> SumFunctionOnSet(D, Of(approval, p, u))]
<1>1. bal \in [Users -> Nat] /\ balance \in [Users -> Nat]
  BY RepaidNat DEF TypeInv, StandsFor
<1>2. Mapping(after) /\ Sound(after) /\ Sound(approval)
  BY GiveBackSound DEF TypeInv
<1>3. \A a \in Approvals : /\ Free(after)[a] \in Int /\ Free(approval)[a] \in Int /\ D[a] \in Int
                           /\ Free(after)[a] = Free(approval)[a] + D[a]
  <2>1. \A a \in Approvals : Free(after)[a] \in Nat /\ Free(approval)[a] \in Nat
    BY <1>2, FreeTyped
  <2> QED BY <2>1
<1>4. \A p \in Users : /\ bal[p] \in Int /\ balance[p] \in Int /\ E[p] \in Int
                       /\ bal[p] = balance[p] + E[p]
  BY <1>1
<1>5. IsFiniteSet(K) /\ IsFiniteSet(A) /\ A \in SUBSET Approvals /\ K \in SUBSET Users
  BY Finite, FS_Subset
<1>6. ASSUME NEW a \in Approvals \ A PROVE D[a] = 0
  <2>1. seen[a] = None
    BY <1>6 DEF StandsFor, Alike, Sound, RowSound
  <2>2. a \notin Visited(seen, spend, order)
    BY <2>1 DEF Visited
  <2>3. after[a] = approval[a]
    BY <2>2 DEF GiveBack
  <2>4. Free(after)[a] = Free(approval)[a]
    BY <2>3 DEF Free, In, Left
  <2> QED BY <1>3, <2>4
<1>7. ASSUME NEW p \in K
      PROVE  /\ G[p] = SumFunctionOnSet(D, {a \in A : key[a] = p})
             /\ E[p] + G[p] = spend[p]
             /\ G[p] \in Int
  <2>1. {a \in A : key[a] = p} = Of(approval, p, u)
    BY DEF Of
  <2>2. G[p] = SumFunctionOnSet(D, Of(approval, p, u))
    BY <1>5
  <2>3. G[p] = SumFunctionOnSet(D, {a \in A : key[a] = p})
    <3> HIDE DEF G, D, A, key
    <3> QED BY <2>1, <2>2, Zenon
  <2>4. E[p] + G[p] = spend[p]
    <3>1. (bal[p] - balance[p]) + SumFunctionOnSet(D, Of(approval, p, u)) = spend[p]
      BY RefundPayer DEF Backed, LapsedAlone
    <3> QED BY <2>2, <3>1
  <2>5. G[p] \in Int
    <3>1. IsFiniteSet(Of(approval, p, u)) /\ \A a \in Of(approval, p, u) : D[a] \in Int
      BY <1>3, Finite, FS_Subset DEF Of
    <3> HIDE DEF D
    <3>2. SumFunctionOnSet(D, Of(approval, p, u)) \in Int
      BY <3>1, SumInt
    <3> QED BY <2>2, <3>2
  <2> QED BY <2>3, <2>4, <2>5
<1>8. E[u] = spend[u]
  BY <1>1 DEF Repaid
<1>9. \A a \in A : D[a] \in Int /\ key[a] \in K
  BY <1>3 DEF TypeInv, Sound, RowSound, Row
<1>10. \A p \in Users : spend[p] \in Int
  OBVIOUS
<1> HIDE DEF bal, E, D, A, key, G, K
<1>11. SumFunctionOnSet(bal, Users) = SumFunctionOnSet(balance, Users) + SumFunctionOnSet(E, Users)
  BY <1>4, Finite, SumPlus
<1>12. SumFunctionOnSet(Free(after), Approvals)
       = SumFunctionOnSet(Free(approval), Approvals) + SumFunctionOnSet(D, Approvals)
  BY <1>3, Finite, SumPlus
<1>13. SumFunctionOnSet(D, Approvals) = SumFunctionOnSet(D, A)
  BY <1>3, <1>5, <1>6, Finite, SumWithin
<1>14. SumFunctionOnSet(D, A) = SumFunctionOnSet(G, K)
  BY <1>5, <1>7, <1>9, SumFibres
<1>15. SumFunctionOnSet(E, Users) = E[u] + SumFunctionOnSet(E, K)
  BY <1>4, Finite, SumRemove DEF K
<1>16. SumFunctionOnSet(spend, Users) = spend[u] + SumFunctionOnSet(spend, K)
  BY <1>10, Finite, SumRemove DEF K
<1>17. SumFunctionOnSet(spend, K) = SumFunctionOnSet(E, K) + SumFunctionOnSet(G, K)
  <2>1. \A p \in K : E[p] \in Int /\ G[p] \in Int /\ spend[p] = E[p] + G[p]
    BY <1>4, <1>5, <1>7
  <2> QED BY <1>5, <2>1, SumPlus
<1>18. /\ SumFunctionOnSet(balance, Users) \in Int /\ SumFunctionOnSet(E, K) \in Int
       /\ SumFunctionOnSet(Free(approval), Approvals) \in Int /\ SumFunctionOnSet(G, K) \in Int
       /\ spend[u] \in Int
  <2>1. (\A p \in K : E[p] \in Int /\ G[p] \in Int) /\ \A a \in Approvals : Free(approval)[a] \in Int
    BY <1>3, <1>4, <1>5, <1>7
  <2> QED BY <1>4, <1>5, <1>10, <2>1, Finite, SumInt
<1>19. SumFunctionOnSet(bal, Users) + SumFunctionOnSet(Free(after), Approvals)
       = SumFunctionOnSet(balance, Users) + SumFunctionOnSet(Free(approval), Approvals)
         + SumFunctionOnSet(spend, Users)
  BY <1>8, <1>11, <1>12, <1>13, <1>14, <1>15, <1>16, <1>17, <1>18
<1> QED BY <1>19 DEF bal

(***************************************************************************)
(* The other parts of the invariant.                                       *)
(***************************************************************************)

\* A reservation's spend adds up to its price.
Whole == \A r \in reservations :
            r.winc > 0 /\ (r.spend # None => SumFunctionOnSet(r.spend, Users) = r.winc)

\* When nothing overlaps a trim, what its reader has read is still so.
Trims ==
    \A t \in Trimmers : trim[t] # None =>
        /\ \A s \in Trimmers : trim[s] # None => s = t
        /\ trim[t].step = "move" =>
              /\ \A a \in trim[t].gone : In(approval, a, "active")
              /\ \A p \in Users :
                    trim[t].owed[p] = LeftOf(approval, {a \in trim[t].gone : approval[a].payer = p})
        /\ trim[t].step = "pay" => trim[t].seen = balance

\* What the reservations of S are for.
HeldOf(S) == SumFunctionOnSet([r \in S |-> r.winc], S)

LEMMA HeldOfSome ==
    /\ HeldOf({}) = 0
    /\ \A r : r.winc \in Int => HeldOf({r}) = r.winc
<1>1. HeldOf({}) = 0
  BY SumEmpty DEF HeldOf
<1>2. ASSUME NEW r, r.winc \in Int PROVE HeldOf({r}) = r.winc
  <2> DEFINE f == [q \in {r} |-> q.winc]
  <2>1. f[r] = r.winc /\ f[r] \in Int
    BY <1>2
  <2>2. HeldOf({r}) = SumFunctionOnSet(f, {r})
    BY DEF HeldOf
  <2> HIDE DEF f
  <2>3. SumFunctionOnSet(f, {r}) = f[r]
    BY <2>1, SumSingleton
  <2> QED BY <2>1, <2>2, <2>3
<1> QED BY <1>1, <1>2

\* What an item was charged, when a reservation is added to it or taken from it.
LEMMA HeldIs == Held = [i \in Items |-> HeldOf(ActiveFor(i))]
BY DEF Held, HeldOf, Sum

LEMMA HeldSame == ASSUME reservations' = reservations PROVE Held' = Held
BY DEF Held, ActiveFor, Sum

LEMMA HeldAdded ==
    ASSUME NEW i \in Items, NEW r, r.item = i, r.winc \in Nat, ActiveFor(i) = {},
           reservations' = reservations \cup {r}
    PROVE  Held[i] = 0 /\ Held' = [Held EXCEPT ![i] = r.winc]
<1>1. ASSUME NEW j \in Items, j # i PROVE ActiveFor(j)' = ActiveFor(j)
  BY <1>1 DEF ActiveFor
<1>2. ActiveFor(i)' = {r}
  BY DEF ActiveFor
<1>3. Held' = [j \in Items |-> HeldOf(ActiveFor(j)')]
  BY DEF Held, HeldOf, Sum, ActiveFor
<1>4. HeldOf({}) = 0 /\ HeldOf({r}) = r.winc
  BY HeldOfSome
<1>5. HeldOf(ActiveFor(i)) = 0 /\ HeldOf(ActiveFor(i)') = r.winc
  BY <1>2, <1>4, Zenon
<1> QED BY <1>1, <1>3, <1>5, HeldIs

LEMMA HeldDropped ==
    ASSUME OneReservation, NEW i \in Items, NEW r \in ActiveFor(i), r.winc \in Nat,
           reservations' = reservations \ {r}
    PROVE  Held[i] = r.winc /\ Held' = [Held EXCEPT ![i] = 0]
<1>1. ASSUME NEW j \in Items, j # i PROVE ActiveFor(j)' = ActiveFor(j)
  BY <1>1 DEF ActiveFor
<1>2. ActiveFor(i) = {r} /\ ActiveFor(i)' = {}
  BY DEF ActiveFor, OneReservation
<1>3. Held' = [j \in Items |-> HeldOf(ActiveFor(j)')]
  BY DEF Held, HeldOf, Sum, ActiveFor
<1>4. HeldOf({}) = 0 /\ HeldOf({r}) = r.winc
  BY HeldOfSome
<1>5. HeldOf(ActiveFor(i)) = r.winc /\ HeldOf(ActiveFor(i)') = 0
  BY <1>2, <1>4, Zenon
<1> QED BY <1>1, <1>3, <1>5, HeldIs

LEMMA BySignerSum ==
    ASSUME NEW u \in Users, NEW w \in Nat
    PROVE  SumFunctionOnSet(BySigner(u, w), Users) = w
<1> DEFINE f == BySigner(u, w)
           K == Users \ {u}
<1>1. f[u] = w /\ \A p \in Users : f[p] \in Int /\ (p # u => f[p] = 0)
  BY DEF BySigner
<1>2. IsFiniteSet(K)
  BY Finite, FS_Subset
<1> HIDE DEF f
<1>3. SumFunctionOnSet(f, Users) = f[u] + SumFunctionOnSet(f, Users \ {u})
  BY <1>1, Finite, SumRemove
<1>4. SumFunctionOnSet(f, K) = 0
  BY <1>1, <1>2, SumZero
<1> QED BY <1>1, <1>3, <1>4 DEF f

LEMMA CommitWhole ==
    ASSUME TypeInv, Whole, NEW c \in Callers, NEW w \in Costs, NEW list \in PaidBy,
           NEW listOnly \in BOOLEAN, ReserveCommit(c, w, list, listOnly)
    PROVE  Whole'
<1>1. CASE UNCHANGED reservations
  BY <1>1 DEF Whole
<1>2. ASSUME NEW i \in Items, NEW shares \in [Users -> Nat], Covers(SignerOf[i], w, shares), NEW spend,
             spend = IF SignerOnly(SignerOf[i], shares) THEN None ELSE shares,
             reservations' = reservations \cup {[by |-> c, item |-> i, winc |-> w, spend |-> spend]}
      PROVE  Whole'
  <2> DEFINE r == [by |-> c, item |-> i, winc |-> w, spend |-> spend]
  <2>1. r.winc = w /\ r.spend = spend /\ w > 0
    BY LedgerAssumption
  <2>2. SumFunctionOnSet(shares, Users) = w
    BY <1>2 DEF Covers, Sum
  <2> HIDE DEF r
  <2>3. r.winc > 0 /\ (r.spend # None => SumFunctionOnSet(r.spend, Users) = r.winc)
    BY <1>2, <2>1, <2>2
  <2>4. reservations' = reservations \cup {r}
    BY <1>2 DEF r
  <2> QED BY <2>3, <2>4 DEF Whole
<1> QED BY <1>1, <1>2, CommitStep

LEMMA StepWhole ==
    ASSUME TypeInv, Whole, [Next]_vars
    PROVE  Whole'
<1>1. CASE reservations' \subseteq reservations
  BY <1>1 DEF Whole
<1>2. CASE \E c \in Callers, w \in Costs, list \in PaidBy, listOnly \in BOOLEAN :
             ReserveCommit(c, w, list, listOnly)
  BY <1>2, CommitWhole
<1>3. CASE \/ \E f \in Refunders, i \in Items, w \in Costs : refundBalance(f, i, w)
           \/ \E f \in Refunders : RefundApprovals(f) \/ RefundCommit(f) \/ RefundFails(f)
  BY <1>1, <1>3 DEF refundBalance, RefundApprovals, RefundCommit, RefundFails
<1> QED BY <1>1, <1>2, <1>3 DEF Next, vars, atomicCreditUser, createDelegatedPaymentApproval, Expire,
          revokeDelegatedPaymentApprovals, reserveBalance, TrimRead, TrimMove, TrimPay

\* A trim that begins while none is under way has read what there is.
Begins(t) ==
    \E gone \in SUBSET Approvals :
        /\ \A a \in gone : In(approval, a, "active")
        /\ trim' = [trim EXCEPT ![t] = ToTrim(gone)]
        /\ UNCHANGED <<balance, approval>>

LEMMA TrimBegins ==
    ASSUME TypeInv, NEW t \in Trimmers,
           (t \in Readers /\ \E u \in Users : TrimRead(t, u)) \/ (t \in Refunders /\ RefundApprovals(t))
    PROVE  /\ Begins(t) \/ UNCHANGED <<balance, approval, trim>>
           /\ Undisturbed /\ UNCHANGED <<reservations, paidIn, amiss>>
<1>1. CASE \E u \in Users : TrimRead(t, u)
  BY <1>1 DEF TrimRead, Begins, refundVars
<1>2. CASE t \in Refunders /\ RefundApprovals(t)
  BY <1>2, RefundReads DEF Begins
<1> QED BY <1>1, <1>2

LEMMA TrimBeginsTrims ==
    ASSUME TypeInv, NEW t \in Trimmers, \A s \in Trimmers : trim[s] = None, Begins(t)
    PROVE  Trims'
<1>1. PICK gone \in SUBSET Approvals : /\ \A a \in gone : In(approval, a, "active")
                                       /\ trim' = [trim EXCEPT ![t] = ToTrim(gone)]
                                       /\ UNCHANGED <<balance, approval>>
  BY DEF Begins
<1> DEFINE owed == [p \in Users |-> LeftOf(approval, {a \in gone : approval[a].payer = p})]
           read == ToTrim(gone)
<1>2. read.step = "move" /\ read.gone = gone /\ read.owed = owed
  BY DEF ToTrim
<1>3. \A p \in Users : owed[p] = LeftOf(approval, {a \in gone : approval[a].payer = p})
  OBVIOUS
<1> HIDE DEF read, owed
<1>4. \A s \in Trimmers : trim'[s] = IF s = t THEN read ELSE None
  BY <1>1 DEF TypeInv, read
<1>5. /\ \A a \in gone : In(approval', a, "active")
      /\ \A p \in Users : owed[p] = LeftOf(approval', {a \in gone : approval'[a].payer = p})
  BY <1>1, <1>2, <1>3
<1>6. ASSUME NEW s \in Trimmers, trim'[s] # None
      PROVE  /\ \A q \in Trimmers : trim'[q] # None => q = s
             /\ trim'[s].step = "move" /\ trim'[s].gone = gone /\ trim'[s].owed = owed
  BY <1>2, <1>4, <1>6
<1> QED BY <1>5, <1>6 DEF Trims

LEMMA TrimMoveTrims ==
    ASSUME TypeInv, Trims, NEW t \in Trimmers, TrimMove(t)
    PROVE  Trims'
<1> DEFINE next == [trim[t] EXCEPT !.step = "pay", !.seen = balance]
<1>1. trim[t] # None /\ trim[t] \in Trimming /\ \A s \in Trimmers : trim[s] # None => s = t
  BY DEF TrimMove, TypeInv, Trims
<1>2. trim' = [trim EXCEPT ![t] = next] /\ UNCHANGED balance
  BY DEF TrimMove
<1>3. next.step = "pay" /\ next.seen = balance
  BY <1>1 DEF Trimming
<1> HIDE DEF next
<1>4. \A s \in Trimmers : trim'[s] = IF s = t THEN next ELSE None
  BY <1>1, <1>2 DEF TypeInv
<1>5. ASSUME NEW s \in Trimmers, trim'[s] # None
      PROVE  /\ \A q \in Trimmers : trim'[q] # None => q = s
             /\ trim'[s].step = "pay" /\ trim'[s].seen = balance'
  BY <1>2, <1>3, <1>4, <1>5
<1> QED BY <1>5 DEF Trims

LEMMA StepTrims ==
    ASSUME TypeInv, Refunds, Trims, ~TrimOverlaps, [Next]_vars
    PROVE  Trims'
<1>1. CASE (\A t \in Trimmers : trim[t] = None) /\ UNCHANGED trim
  BY <1>1 DEF Trims
<1>2. CASE UNCHANGED vars
  BY <1>2 DEF vars, Trims, In, LeftOf, Left, Sum
<1>3. CASE \E c \in Callers, w \in Costs, list \in PaidBy, listOnly \in BOOLEAN :
             ReserveCommit(c, w, list, listOnly)
  BY <1>1, <1>3 DEF ReserveCommit, Undisturbed
<1>4. CASE \/ \E f \in Refunders, i \in Items, w \in Costs : refundBalance(f, i, w)
           \/ \E f \in Refunders : RefundCommit(f) \/ RefundFails(f)
  BY <1>1, <1>4 DEF refundBalance, RefundCommit, RefundFails, Undisturbed
<1>5. CASE \/ \E t \in Readers, u \in Users : TrimRead(t, u)
           \/ \E f \in Refunders : RefundApprovals(f)
  <2>1. PICK t \in Trimmers : /\ Begins(t) \/ UNCHANGED <<balance, approval, trim>>
                              /\ Undisturbed
    BY <1>5, TrimBegins DEF Trimmers
  <2>2. \A s \in Trimmers : trim[s] = None
    BY <2>1 DEF Undisturbed
  <2> QED BY <1>1, <2>1, <2>2, TrimBeginsTrims
<1>6. CASE \E t \in Trimmers : TrimMove(t)
  BY <1>6, TrimMoveTrims
<1>7. CASE \E t \in Trimmers : TrimPay(t)
  <2>1. PICK t \in Trimmers : TrimPay(t)
    BY <1>7
  <2>2. \A s \in Trimmers : trim'[s] = None
    BY <2>1 DEF TrimPay, Trims, TypeInv
  <2> QED BY <2>2 DEF Trims
<1>8. CASE \/ \E u \in Users, n \in Amounts : atomicCreditUser(u, n)
           \/ \E a \in Approvals, p \in Users, u \in Approved, n \in Amounts :
                p # u /\ createDelegatedPaymentApproval(a, p, u, n)
           \/ \E a \in Approvals : Expire(a)
           \/ \E p, u \in Users : revokeDelegatedPaymentApprovals(p, u)
           \/ \E c \in Callers, i \in Items : reserveBalance(c, i)
  BY <1>1, <1>8 DEF atomicCreditUser, createDelegatedPaymentApproval, Expire,
          revokeDelegatedPaymentApprovals, reserveBalance, Undisturbed
<1> QED BY <1>2, <1>3, <1>4, <1>5, <1>6, <1>7, <1>8 DEF Next

\* Only a reserve that goes through adds a row, and the item had none.
LEMMA StepOne ==
    ASSUME TypeInv, OneReservation, [Next]_vars
    PROVE  OneReservation'
<1>1. CASE reservations' \subseteq reservations
  BY <1>1 DEF OneReservation
<1>2. CASE \E c \in Callers, w \in Costs, list \in PaidBy, listOnly \in BOOLEAN :
             ReserveCommit(c, w, list, listOnly)
  <2>1. ASSUME NEW i \in Items, NEW r, r.item = i, ActiveFor(i) = {},
               reservations' = reservations \cup {r}
        PROVE  OneReservation'
    BY <2>1 DEF OneReservation, ActiveFor
  <2>2. PICK c \in Callers, w \in Costs, list \in PaidBy, listOnly \in BOOLEAN :
             ReserveCommit(c, w, list, listOnly)
    BY <1>2
  <2>3. CASE UNCHANGED reservations
    BY <1>1, <2>3
  <2>4. ASSUME NEW i \in Items, ActiveFor(i) = {}, NEW sp,
               reservations' = reservations \cup {[by |-> c, item |-> i, winc |-> w, spend |-> sp]}
        PROVE  OneReservation'
    <3> DEFINE r == [by |-> c, item |-> i, winc |-> w, spend |-> sp]
    <3>1. r.item = i
      OBVIOUS
    <3> QED BY <2>1, <2>4, <3>1
  <2>5. \/ UNCHANGED reservations
        \/ \E i \in Items, shares \in [Users -> Nat] :
              /\ ActiveFor(i) = {}
              /\ reservations' = reservations \cup
                    {[by |-> c, item |-> i, winc |-> w,
                      spend |-> IF SignerOnly(SignerOf[i], shares) THEN None ELSE shares]}
    BY <2>2, CommitStep
  <2> QED BY <2>3, <2>4, <2>5, Zenon
<1>3. CASE \/ \E f \in Refunders, i \in Items, w \in Costs : refundBalance(f, i, w)
           \/ \E f \in Refunders : RefundApprovals(f) \/ RefundCommit(f) \/ RefundFails(f)
  BY <1>1, <1>3 DEF refundBalance, RefundApprovals, RefundCommit, RefundFails
<1> QED BY <1>1, <1>2, <1>3 DEF Next, vars, atomicCreditUser, createDelegatedPaymentApproval, Expire,
          revokeDelegatedPaymentApprovals, reserveBalance, TrimRead, TrimMove, TrimPay

\* An item has at most one reservation that is not refunded, however many reserve
\* transactions of it overlap: reserveBalance reads without a lock, and the unique
\* index on the active rows is what keeps the second out.
THEOREM OneReservationAlways == Spec => []OneReservation
<1>1. Init => TypeInv /\ Refunds /\ OneReservation
  BY InitTyped DEF Init, OneReservation
<1>2. TypeInv /\ Refunds /\ OneReservation /\ [Next]_vars => (TypeInv /\ Refunds /\ OneReservation)'
  BY StepTyped, StepRefunds, StepOne
<1> QED BY <1>1, <1>2, PTL DEF Spec

(***************************************************************************)
(* Each step is a step of the ledger.                                      *)
(***************************************************************************)
InWallets == SumFunctionOnSet(balance, Users)
InApprovals == SumFunctionOnSet(Free(approval), Approvals)
InTransit == SumFunctionOnSet(Way, Trimmers)
CreditSums ==
    /\ Credit = InWallets + InApprovals + InTransit
    /\ InWallets \in Nat /\ InApprovals \in Nat /\ InTransit \in Nat
    /\ \A t \in Trimmers : Way[t] \in Nat

LEMMA CreditIs == TypeInv => CreditSums
BY CreditParts DEF CreditSums, InWallets, InApprovals, InTransit

LEMMA CreditThen == TypeInv' => CreditSums'
BY CreditIs, PTL

\* The steps of the service that the ledger does not see.
Unseen == UNCHANGED <<paidIn, Credit, Held>>

LEMMA UnseenIs ==
    ASSUME TypeInv, TypeInv', UNCHANGED <<reservations, paidIn>>,
           InWallets' + InApprovals' + InTransit' = InWallets + InApprovals + InTransit
    PROVE  Unseen
<1>1. Credit' = Credit
  BY CreditIs, CreditThen DEF CreditSums
<1> QED BY <1>1, HeldSame DEF Unseen

LEMMA TransitSame == ASSUME UNCHANGED trim PROVE InTransit' = InTransit
BY DEF InTransit, Way, OnTheWay, Sum

\* One wallet changes.
LEMMA WalletUpdated ==
    ASSUME TypeInv, TypeInv', NEW u \in Users, NEW n \in Int,
           balance' = [balance EXCEPT ![u] = @ + n]
    PROVE  InWallets' = InWallets + n
<1>1. \A x \in Users : balance[x] \in Int /\ balance'[x] \in Int
  BY DEF TypeInv
<1>2. balance'[u] = balance[u] + n /\ \A x \in Users \ {u} : balance'[x] = balance[x]
  BY DEF TypeInv
<1> DEFINE b == balance'
<1>3. (\A x \in Users : b[x] \in Int) /\ b[u] = balance[u] + n
      /\ \A x \in Users \ {u} : b[x] = balance[x]
  BY <1>1, <1>2
<1> HIDE DEF b
<1>4. SumFunctionOnSet(b, Users) = SumFunctionOnSet(balance, Users) - balance[u] + b[u]
  BY <1>1, <1>3, Finite, SumUpdate
<1>5. SumFunctionOnSet(balance, Users) \in Int
  BY <1>1, Finite, SumInt
<1>6. SumFunctionOnSet(b, Users) = SumFunctionOnSet(balance, Users) + n
  BY <1>1, <1>3, <1>4, <1>5
<1> QED BY <1>6 DEF InWallets, b

LEMMA CreditPaysIn ==
    ASSUME TypeInv, TypeInv', NEW u \in Users, NEW n \in Amounts, atomicCreditUser(u, n)
    PROVE  Promise!PayIn
<1>1. /\ n \in Nat /\ n > 0 /\ paidIn' = paidIn + n
      /\ balance' = [balance EXCEPT ![u] = @ + n] /\ UNCHANGED <<approval, reservations, trim>>
  BY LedgerAssumption DEF atomicCreditUser
<1>2. InWallets' = InWallets + n
  <2>1. n \in Int
    BY <1>1
  <2> QED BY <1>1, <2>1, WalletUpdated
<1>3. InApprovals' = InApprovals /\ InTransit' = InTransit
  BY <1>1, TransitSame DEF InApprovals, Free, In, Left
<1>4. Credit' = Credit + n
  BY <1>1, <1>2, <1>3, CreditIs, CreditThen DEF CreditSums
<1>5. paidIn \in Nat
  BY LedgerAssumption DEF TypeInv
<1> QED BY <1>1, <1>4, <1>5, HeldSame DEF Promise!PayIn

LEMMA CreateUnseen ==
    ASSUME TypeInv, TypeInv', NEW a \in Approvals, NEW p \in Users, NEW u \in Users,
           NEW n \in Amounts, createDelegatedPaymentApproval(a, p, u, n)
    PROVE  Unseen
<1> DEFINE row == [payer |-> p, user |-> u, amount |-> n, used |-> 0, due |-> FALSE,
                   table |-> "active"]
           g == Free(approval)
           h == Free(approval')
<1>1. /\ n \in Nat /\ balance' = [balance EXCEPT ![p] = @ + (0 - n)] /\ approval[a] = None
      /\ approval' = [approval EXCEPT ![a] = row] /\ UNCHANGED <<reservations, trim, paidIn>>
  <2>1. n \in Nat /\ balance' = [balance EXCEPT ![p] = @ - n]
    BY LedgerAssumption DEF createDelegatedPaymentApproval
  <2>2. balance[p] \in Nat
    BY DEF TypeInv
  <2>3. balance[p] + (0 - n) = balance[p] - n
    BY <2>1, <2>2
  <2> QED BY <2>1, <2>3 DEF createDelegatedPaymentApproval
<1>2. InWallets' = InWallets + (0 - n)
  <2>1. 0 - n \in Int
    BY <1>1
  <2> QED BY <1>1, <2>1, WalletUpdated
<1>3. row.amount = n /\ row.used = 0 /\ row.table = "active" /\ row \in Row
  BY <1>1 DEF Row, Tables
<1> HIDE DEF row
<1>4. g[a] = 0 /\ h[a] = n /\ \A b \in Approvals \ {a} : h[b] = g[b]
  BY <1>1, <1>3, NoneAssumption DEF Free, In, Left, TypeInv, Mapping
<1>5. \A b \in Approvals : g[b] \in Int
  <2>1. Sound(approval)
    BY DEF TypeInv
  <2>2. \A b \in Approvals : g[b] \in Nat
    BY <2>1, FreeTyped
  <2> QED BY <2>2
<1>6. InApprovals = SumFunctionOnSet(g, Approvals) /\ InApprovals' = SumFunctionOnSet(h, Approvals)
  BY DEF InApprovals, Free, In, Left
<1> HIDE DEF g, h
<1>7. SumFunctionOnSet(h, Approvals) = SumFunctionOnSet(g, Approvals) - g[a] + h[a]
  BY <1>1, <1>4, <1>5, Finite, SumUpdate
<1>8. InTransit' = InTransit
  BY <1>1, TransitSame
<1>9. InWallets \in Nat /\ InApprovals \in Nat /\ InTransit \in Nat
  BY CreditIs DEF CreditSums
<1> QED BY <1>1, <1>2, <1>4, <1>6, <1>7, <1>8, <1>9, UnseenIs

LEMMA ExpireUnseen ==
    ASSUME TypeInv, TypeInv', NEW a \in Approvals, Expire(a)
    PROVE  Unseen
<1>1. /\ approval' = [approval EXCEPT ![a] = [approval[a] EXCEPT !.due = TRUE]]
      /\ approval[a] \in Row /\ UNCHANGED <<balance, reservations, trim, paidIn>>
  BY DEF Expire, In, TypeInv, Mapping
<1>2. \A b \in Approvals : /\ In(approval', b, "active") <=> In(approval, b, "active")
                           /\ In(approval, b, "active") => Left(approval', b) = Left(approval, b)
  <2>1. [approval[a] EXCEPT !.due = TRUE] \in Row
    BY <1>1 DEF Row
  <2>2. \A b \in Approvals : approval'[b] = IF b = a THEN [approval[a] EXCEPT !.due = TRUE] ELSE approval[b]
    BY <1>1 DEF TypeInv, Mapping
  <2>3. In(approval, a, "active") /\ approval[a] # None
    BY DEF Expire, In
  <2> DEFINE due == [approval[a] EXCEPT !.due = TRUE]
  <2>4. /\ due # None /\ due.table = approval[a].table /\ due.amount = approval[a].amount
        /\ due.used = approval[a].used
    BY <1>1, <2>1, NoneAssumption DEF Row
  <2> HIDE DEF due
  <2> QED BY <2>2, <2>3, <2>4 DEF In, Left, due
<1>3. Free(approval') = Free(approval)
  BY <1>2 DEF Free
<1>4. InApprovals' = InApprovals
  BY <1>3 DEF InApprovals
<1>5. InWallets' = InWallets /\ InTransit' = InTransit
  BY <1>1, TransitSame DEF InWallets
<1> QED BY <1>1, <1>4, <1>5, UnseenIs

\* What rows that leave the active table had left is what the approvals lose.
LEMMA ApprovalsMoved ==
    ASSUME TypeInv, TypeInv', NEW S \in SUBSET Approvals, \A a \in S : approval[a] # None,
           NEW table \in {"revoked", "expired"}, approval' = Moved(approval, S, table),
           NEW T, T = {a \in S : In(approval, a, "active")}
    PROVE  InApprovals = InApprovals' + LeftOf(approval, T) /\ LeftOf(approval, T) \in Nat
<1>1. Mapping(approval) /\ Sound(approval)
  BY DEF TypeInv
<1>2. /\ SumFunctionOnSet(Free(approval), Approvals)
         = SumFunctionOnSet(Free(Moved(approval, S, table)), Approvals) + LeftOf(approval, T)
      /\ LeftOf(approval, T) \in Nat
  BY <1>1, FreeMoved
<1>3. InApprovals' = SumFunctionOnSet(Free(Moved(approval, S, table)), Approvals)
  BY DEF InApprovals
<1> QED BY <1>2, <1>3 DEF InApprovals

LEMMA RevokeUnseen ==
    ASSUME TypeInv, TypeInv', NEW p \in Users, NEW u \in Users,
           revokeDelegatedPaymentApprovals(p, u)
    PROVE  Unseen
<1> DEFINE gone == Between(approval, p, u, "active")
           used == Between(approval, p, u, "used")
           S == gone \cup used
<1>1. /\ approval' = Moved(approval, S, "revoked")
      /\ balance' = [balance EXCEPT ![p] = @ + LeftOf(approval, gone)]
      /\ UNCHANGED <<reservations, trim, paidIn>>
  BY DEF revokeDelegatedPaymentApprovals
<1>2. S \in SUBSET Approvals /\ \A a \in S : approval[a] # None
  BY DEF Between, In
<1>3. gone = {a \in S : In(approval, a, "active")}
  BY DEF Between, In
<1> HIDE DEF gone, S
<1>4. InApprovals = InApprovals' + LeftOf(approval, gone) /\ LeftOf(approval, gone) \in Nat
  BY <1>1, <1>2, <1>3, ApprovalsMoved
<1>5. InWallets' = InWallets + LeftOf(approval, gone)
  <2>1. LeftOf(approval, gone) \in Int
    BY <1>4
  <2> QED BY <1>1, <2>1, WalletUpdated
<1>6. InTransit' = InTransit
  BY <1>1, TransitSame
<1>7. InWallets \in Nat /\ InApprovals \in Nat /\ InApprovals' \in Nat /\ InTransit \in Nat
  BY CreditIs, CreditThen DEF CreditSums
<1> QED BY <1>1, <1>4, <1>5, <1>6, <1>7, UnseenIs

\* Nothing is on its way yet when a trim has read what has expired.
LEMMA BeginUnseen ==
    ASSUME TypeInv, TypeInv', NEW t \in Trimmers, \A s \in Trimmers : trim[s] = None,
           Begins(t) \/ UNCHANGED <<balance, approval, trim>>, UNCHANGED <<reservations, paidIn>>
    PROVE  Unseen
<1>1. UNCHANGED <<balance, approval>>
  BY DEF Begins
<1>2. \A s \in Trimmers : OnTheWay(s)' = OnTheWay(s)
  <2>1. CASE UNCHANGED trim
    BY <2>1 DEF OnTheWay, Sum
  <2>2. CASE Begins(t)
    <3>1. PICK gone \in SUBSET Approvals : trim' = [trim EXCEPT ![t] = ToTrim(gone)]
      BY <2>2 DEF Begins
    <3>2. ToTrim(gone).step = "move"
      BY DEF ToTrim
    <3>3. \A s \in Trimmers : trim'[s] = IF s = t THEN ToTrim(gone) ELSE None
      BY <3>1 DEF TypeInv
    <3> QED BY <3>2, <3>3 DEF OnTheWay
  <2> QED BY <2>1, <2>2
<1>3. InTransit' = InTransit
  BY <1>2 DEF InTransit, Way
<1>4. InWallets' = InWallets /\ InApprovals' = InApprovals
  BY <1>1 DEF InWallets, InApprovals, Free, In, Left
<1> QED BY <1>3, <1>4, UnseenIs

\* One reader's request changes what is on its way.
LEMMA TransitUpdated ==
    ASSUME TypeInv, TypeInv', NEW t \in Trimmers, \A s \in Trimmers : s # t => trim'[s] = trim[s]
    PROVE  InTransit' = InTransit - OnTheWay(t) + OnTheWay(t)'
<1> DEFINE f == Way
           g == Way'
<1>1. \A s \in Trimmers : f[s] \in Int /\ g[s] \in Int
  BY CreditIs, CreditThen DEF CreditSums
<1>2. \A s \in Trimmers : f[s] = OnTheWay(s) /\ g[s] = OnTheWay(s)'
  BY DEF Way, OnTheWay
<1>3. \A s \in Trimmers \ {t} : g[s] = f[s]
  BY <1>2 DEF OnTheWay
<1>4. InTransit = SumFunctionOnSet(f, Trimmers) /\ InTransit' = SumFunctionOnSet(g, Trimmers)
  BY DEF InTransit
<1> HIDE DEF f, g
<1>5. SumFunctionOnSet(g, Trimmers) = SumFunctionOnSet(f, Trimmers) - f[t] + g[t]
  BY <1>1, <1>3, Finite, SumUpdate
<1> QED BY <1>2, <1>4, <1>5

\* What is summed over a set is summed over the users its members belong to.
SplitByUser(g, h, key, S) ==
    /\ IsFiniteSet(S) /\ \A a \in S : h[a] \in Int /\ key[a] \in Users
    /\ \A p \in Users : g[p] = SumFunctionOnSet(h, {a \in S : key[a] = p})

LEMMA SumByUser ==
    ASSUME NEW S, NEW h, NEW key, NEW g, SplitByUser(g, h, key, S)
    PROVE  SumFunctionOnSet(h, S) = SumFunctionOnSet(g, Users)
<1>1. IsFiniteSet(Users)
  BY Finite
<1> QED BY <1>1, SumFibres DEF SplitByUser

LEMMA TrimMoveUnseen ==
    ASSUME TypeInv, TypeInv', Trims, NEW t \in Trimmers, TrimMove(t)
    PROVE  Unseen
<1> DEFINE gone == trim[t].gone
           owed == trim[t].owed
           key == [a \in gone |-> approval[a].payer]
           f == [a \in gone |-> Left(approval, a)]
           S == {a \in gone : In(approval, a, "active")}
           next == [trim[t] EXCEPT !.step = "pay", !.seen = balance]
<1>1. /\ trim[t] # None /\ trim[t].step = "move" /\ trim[t] \in Trimming
      /\ approval' = Moved(approval, S, "expired") /\ trim' = [trim EXCEPT ![t] = next]
      /\ UNCHANGED <<balance, reservations, paidIn>>
  BY DEF TrimMove, TypeInv
<1>2. /\ gone \in SUBSET Approvals /\ \A a \in gone : In(approval, a, "active")
      /\ \A p \in Users : owed[p] = LeftOf(approval, {a \in gone : approval[a].payer = p})
      /\ owed \in [Users -> Nat]
  BY <1>1 DEF Trims, Trimming
<1>3. S = gone
  BY <1>2
<1>4. next # None /\ next.step = "pay" /\ next.owed = owed
  BY <1>1, NoneAssumption DEF Trimming, TypeInv
<1>5. trim'[t] = next /\ \A s \in Trimmers : s # t => trim'[s] = trim[s]
  BY <1>1 DEF TypeInv
<1> HIDE DEF next, S, owed
<1>6. OnTheWay(t) = 0 /\ OnTheWay(t)' = SumFunctionOnSet(owed, Users)
  <2>1. trim'[t] # None /\ trim'[t].step = "pay" /\ trim'[t].owed = owed
    BY <1>4, <1>5
  <2> QED BY <1>1, <2>1 DEF OnTheWay, Sum
<1>7. \A a \in gone : /\ f[a] = Left(approval, a) /\ f[a] \in Nat /\ key[a] \in Users
                      /\ RowSound(approval[a])
  BY <1>2 DEF TypeInv, Sound, RowSound, Row, In, Left
<1>8. ASSUME NEW p \in Users
      PROVE  owed[p] = SumFunctionOnSet(f, {a \in gone : key[a] = p})
  <2> DEFINE C == {a \in gone : key[a] = p}
             D == {a \in gone : approval[a].payer = p}
             h == [a \in D |-> Left(approval, a)]
  <2>1. C = D /\ D \in SUBSET gone /\ IsFiniteSet(D)
    BY <1>2, Finite, FS_Subset
  <2>2. owed[p] = SumFunctionOnSet(h, D)
    BY <1>2 DEF LeftOf, Sum
  <2>3. ASSUME NEW a \in D PROVE f[a] \in Int /\ h[a] = f[a]
    <3>1. h[a] = Left(approval, a) /\ a \in gone
      OBVIOUS
    <3> HIDE DEF f, D, h
    <3>2. f[a] = Left(approval, a) /\ f[a] \in Nat
      BY <1>7, <3>1
    <3> QED BY <3>1, <3>2
  <2> HIDE DEF D, C, h, f
  <2>4. SumFunctionOnSet(h, D) = SumFunctionOnSet(f, D)
    BY <2>1, <2>3, SumSame
  <2>5. SumFunctionOnSet(f, C) = SumFunctionOnSet(f, D)
    BY <2>1, Zenon
  <2> QED BY <2>2, <2>4, <2>5 DEF C
<1>9. LeftOf(approval, gone) = SumFunctionOnSet(f, gone)
  BY DEF LeftOf, Sum
<1> HIDE DEF f, key, gone
<1>10. IsFiniteSet(gone) /\ \A a \in gone : f[a] \in Int /\ key[a] \in Users
  <2>1. IsFiniteSet(gone)
    BY <1>2, Finite, FS_Subset
  <2> QED BY <1>7, <2>1
<1>11. SumFunctionOnSet(f, gone) = SumFunctionOnSet(owed, Users)
  <2>1. IsFiniteSet(Users)
    BY Finite
  <2>2. \A p \in Users : owed[p] = SumFunctionOnSet(f, {a \in gone : key[a] = p})
    BY <1>8
  <2>3. IsFiniteSet(gone) /\ \A a \in gone : f[a] \in Int /\ key[a] \in Users
    BY <1>10
  <2>4. SplitByUser(owed, f, key, gone)
    BY <2>2, <2>3 DEF SplitByUser
  <2> QED BY <2>4, SumByUser
<1>12. InApprovals = InApprovals' + LeftOf(approval, gone) /\ LeftOf(approval, gone) \in Nat
  <2>1. (\A a \in gone : approval[a] # None) /\ gone = {a \in gone : In(approval, a, "active")}
    BY <1>2 DEF In
  <2>2. approval' = Moved(approval, gone, "expired")
    BY <1>1, <1>3
  <2> QED BY <1>2, <2>1, <2>2, ApprovalsMoved
<1>13. InTransit' = InTransit - OnTheWay(t) + OnTheWay(t)'
  BY <1>5, TransitUpdated
<1>14. InWallets' = InWallets
  BY <1>1 DEF InWallets
<1>15. InWallets \in Nat /\ InApprovals \in Nat /\ InApprovals' \in Nat /\ InTransit \in Nat
  BY CreditIs, CreditThen DEF CreditSums
<1>16. InWallets' + InApprovals' + InTransit' = InWallets + InApprovals + InTransit
  BY <1>6, <1>9, <1>11, <1>12, <1>13, <1>14, <1>15
<1> QED BY <1>1, <1>16, UnseenIs

LEMMA TrimPayUnseen ==
    ASSUME TypeInv, TypeInv', Trims, NEW t \in Trimmers, TrimPay(t)
    PROVE  Unseen
<1> DEFINE owed == trim[t].owed
           b == balance'
<1>1. /\ trim[t] # None /\ trim[t].step = "pay" /\ trim[t] \in Trimming
      /\ trim[t].seen = balance /\ trim' = [trim EXCEPT ![t] = None]
      /\ balance' = [p \in Users |-> IF owed[p] = 0 THEN balance[p] ELSE trim[t].seen[p] + owed[p]]
      /\ UNCHANGED <<approval, reservations, paidIn>>
  BY DEF TrimPay, TypeInv, Trims
<1>2. \A p \in Users : balance[p] \in Int /\ owed[p] \in Int /\ owed[p] \in Nat
  BY <1>1 DEF TypeInv, Trimming
<1>3. \A p \in Users : b[p] = balance[p] + owed[p]
  BY <1>1, <1>2
<1>4. OnTheWay(t) = SumFunctionOnSet(owed, Users)
  BY <1>1 DEF OnTheWay, Sum
<1>5. trim'[t] = None /\ \A s \in Trimmers : s # t => trim'[s] = trim[s]
  BY <1>1 DEF TypeInv
<1>6. OnTheWay(t)' = 0
  BY <1>5 DEF OnTheWay
<1> HIDE DEF owed, b
<1>7. SumFunctionOnSet(b, Users) = SumFunctionOnSet(balance, Users) + SumFunctionOnSet(owed, Users)
  BY <1>2, <1>3, Finite, SumPlus
<1>8. InWallets' = InWallets + SumFunctionOnSet(owed, Users)
  BY <1>7 DEF InWallets, b
<1>9. InTransit' = InTransit - OnTheWay(t) + OnTheWay(t)'
  BY <1>5, TransitUpdated
<1>10. InApprovals' = InApprovals
  BY <1>1 DEF InApprovals, Free, In, Left
<1>11. InWallets \in Nat /\ InApprovals \in Nat /\ InTransit \in Nat
       /\ SumFunctionOnSet(owed, Users) \in Nat
  BY <1>2, Finite, SumNat, CreditIs DEF CreditSums
<1>12. InWallets' + InApprovals' + InTransit' = InWallets + InApprovals + InTransit
  BY <1>4, <1>6, <1>8, <1>9, <1>10, <1>11
<1> QED BY <1>1, <1>12, UnseenIs

\* A reserve that goes through charges the item, once, what its payers had.
LEMMA CommitHolds ==
    ASSUME TypeInv, TypeInv', NEW c \in Callers, NEW w \in Costs, NEW list \in PaidBy,
           NEW listOnly \in BOOLEAN, ReserveCommit(c, w, list, listOnly)
    PROVE  Unseen \/ \E i \in Items : Promise!Hold(i)
<1>1. UNCHANGED <<trim, paidIn>> /\ w \in Nat /\ w > 0
  BY CommitStep, LedgerAssumption
<1>2. InTransit' = InTransit
  BY <1>1, TransitSame
<1>3. CASE UNCHANGED <<balance, approval, reservations>>
  <2>1. InWallets' = InWallets /\ InApprovals' = InApprovals
    BY <1>3 DEF InWallets, InApprovals, Free, In, Left
  <2> QED BY <1>1, <1>2, <1>3, <2>1, UnseenIs
<1>4. ASSUME NEW i \in Items, NEW shares \in [Users -> Nat], NEW spend,
             ActiveFor(i) = {}, Covers(SignerOf[i], w, shares),
             balance' = [balance EXCEPT ![SignerOf[i]] = @ - shares[SignerOf[i]]],
             reservations' = reservations \cup {[by |-> c, item |-> i, winc |-> w, spend |-> spend]},
             NEW d \in Draws(SignerOf[i], w, shares), approval' = Drawn(d)
      PROVE  Promise!Hold(i)
  <2> DEFINE u == SignerOf[i]
             r == [by |-> c, item |-> i, winc |-> w, spend |-> spend]
             n == 0 - shares[u]
  <2>1. u \in Users /\ shares[u] \in Nat /\ n \in Int
    BY LedgerAssumption
  <2>2. r.item = i /\ r.winc = w
    OBVIOUS
  <2>3. Held[i] = 0 /\ Held' = [Held EXCEPT ![i] = w]
    <3> HIDE DEF r
    <3>1. reservations' = reservations \cup {r}
      BY <1>4 DEF r
    <3> QED BY <1>1, <1>4, <2>2, <3>1, HeldAdded
  <2> HIDE DEF u, r
  <2>4. balance' = [balance EXCEPT ![u] = @ + n]
    <3>1. balance[u] \in Nat
      BY <2>1 DEF TypeInv
    <3>2. balance[u] + n = balance[u] - shares[u]
      BY <2>1, <3>1
    <3>3. balance' = [balance EXCEPT ![u] = @ - shares[u]]
      BY <1>4 DEF u
    <3> QED BY <3>2, <3>3
  <2> HIDE DEF n
  <2>5. InWallets' = InWallets + n
    BY <2>1, <2>4, WalletUpdated
  <2>6. InApprovals = InApprovals' + (w - shares[u])
    <3>1. SumFunctionOnSet(Free(approval), Approvals)
          = SumFunctionOnSet(Free(Drawn(d)), Approvals) + (w - shares[u])
      BY <1>1, <1>4, <2>1, FreeDrawn DEF u
    <3>2. InApprovals' = SumFunctionOnSet(Free(Drawn(d)), Approvals)
      BY <1>4 DEF InApprovals
    <3> QED BY <3>1, <3>2 DEF InApprovals
  <2>7. /\ InWallets \in Nat /\ InApprovals \in Nat /\ InTransit \in Nat
        /\ InWallets' \in Nat /\ InApprovals' \in Nat
        /\ Credit = InWallets + InApprovals + InTransit
        /\ Credit' = InWallets' + InApprovals' + InTransit'
    BY CreditIs, CreditThen DEF CreditSums
  <2>8. Credit' = Credit - w /\ w \in 1..Credit
    BY <1>1, <1>2, <2>1, <2>5, <2>6, <2>7 DEF n
  <2> QED BY <1>1, <2>3, <2>8 DEF Promise!Hold
<1>5. CASE \E i \in Items, shares \in [Users -> Nat] :
             /\ ActiveFor(i) = {} /\ Covers(SignerOf[i], w, shares)
             /\ balance' = [balance EXCEPT ![SignerOf[i]] = @ - shares[SignerOf[i]]]
             /\ reservations' = reservations \cup
                   {[by |-> c, item |-> i, winc |-> w,
                     spend |-> IF SignerOnly(SignerOf[i], shares) THEN None ELSE shares]}
             /\ \E d \in Draws(SignerOf[i], w, shares) : approval' = Drawn(d)
  BY <1>4, <1>5
<1> QED BY <1>3, <1>5, CommitStep

\* A refund that writes over nothing gives back what payers of the item have spent.
LEMMA RefundBacked ==
    ASSUME TypeInv, Refunds, Accounted, NoneAmiss, NEW f \in Refunders, RefundCommit(f),
           NEW r, r = refunding[f], NEW u, u = SignerOf[r.item], u \in Users, Misread(r) = {},
           r.spend \in [Users -> Nat], Reading(r, approval, reservations)
    PROVE  Backed(r.seen, u, r.spend)
<1> SUFFICES ASSUME NEW p \in Users, p # u
             PROVE  /\ Of(approval, p, u) = {} => r.spend[p] = 0
                    /\ \A a \in Of(approval, p, u) :
                          /\ AsRead(r.seen, u, r.spend, a)
                          /\ approval[a].table \in {"active", "used"} => r.spend[p] <= approval[a].used
  BY DEF Backed
<1>1. amiss[<<p, u>>] = 0
  BY DEF NoneAmiss
<1>2. r.spend[p] \in Nat /\ Spent(p, u) \in Nat /\ r.spend[p] <= Spent(p, u)
  <2>1. r.spend[p] \in Nat /\ Spent(p, u) \in Nat
    BY SpentNat
  <2>2. CASE r.spend[p] = 0
    BY <2>1, <2>2
  <2>3. CASE r.spend[p] > 0
    <3>1. r.row # None
      BY <2>3 DEF Misread
    <3>2. r.row \in reservations /\ r.row.item = r.item /\ r.spend = SpendOf(u, r.row)
      BY <3>1 DEF Reading
    <3>3. r.spend[p] = SpentBy(p, r.row)
      BY <3>2, <2>3 DEF SpendOf, SpentBy, BySigner
    <3> QED BY <2>1, <3>2, <3>3, SpentNat
  <2> QED BY <2>1, <2>2, <2>3
<1>3. /\ Of(approval, p, u) = {} => Spent(p, u) = 0
      /\ \A a \in Of(approval, p, u) :
            approval[a].table \in {"active", "used"} => approval[a].used = Spent(p, u)
  BY <1>1 DEF Accounted
<1>4. ASSUME NEW a \in Of(approval, p, u) PROVE AsRead(r.seen, u, r.spend, a)
  <2>1. a \in Approvals /\ approval[a] # None /\ approval[a].payer \notin Misread(r)
    BY DEF Of
  <2> QED BY <2>1, ReadRight
<1> QED BY <1>2, <1>3, <1>4

\* Such a refund gives back what the reservation of its item took, or nothing.
LEMMA RefundReleases ==
    ASSUME TypeInv, TypeInv', Refunds, Accounted, OneReservation, Whole, ~LapsedShared,
           NoneAmiss, NoneAmiss', NEW f \in Refunders, RefundCommit(f)
    PROVE  (\E i \in Items : Promise!Release(i)) \/ Unseen
<1>1. PICK r, u : r = refunding[f] /\ u = SignerOf[r.item]
  OBVIOUS
<1>2. /\ UNCHANGED <<trim, paidIn>> /\ r \in Refund /\ Reading(r, approval, reservations)
      /\ u \in Users /\ r.spend \in [Users -> Nat] /\ StandsFor(r.seen, approval, u, r.spend)
      /\ reservations' = reservations \ {r.row}
      /\ \E order \in Orders :
            /\ LapsedShared \/ \A a \in Lapsed(r.seen, r.spend, order) :
                                  r.seen[a].used = r.spend[r.seen[a].payer]
            /\ TakenBack(r.seen, r.spend, order) = {}
            /\ balance' = Repaid(r.seen, u, r.spend, order)
            /\ approval' = GiveBack(r.seen, r.spend, order)
  BY <1>1, RefundStep
<1>3. PICK order \in Orders :
         /\ LapsedAlone(r.seen, r.spend, order)
         /\ TakenBack(r.seen, r.spend, order) = {}
         /\ balance' = Repaid(r.seen, u, r.spend, order)
         /\ approval' = GiveBack(r.seen, r.spend, order)
  BY <1>2 DEF LapsedAlone
<1>4. Misread(r) = {}
  <2> SUFFICES ASSUME NEW p \in Misread(r) PROVE FALSE
    OBVIOUS
  <2>1. p \in Users /\ <<p, u>> \in Users \X Users
    BY <1>2 DEF Misread
  <2>2. amiss' = [pu \in Users \X Users |->
                     IF pu[2] = u /\ pu[1] \in Misread(r) THEN amiss[pu] + 1 ELSE amiss[pu]]
    BY <1>1 DEF RefundCommit
  <2>3. amiss'[<<p, u>>] = amiss[<<p, u>>] + 1
    BY <2>1, <2>2
  <2>4. amiss'[<<p, u>>] = 0 /\ amiss[<<p, u>>] = 0
    BY <2>1 DEF NoneAmiss
  <2> QED BY <2>3, <2>4
<1>5. Backed(r.seen, u, r.spend)
  BY <1>1, <1>2, <1>4, RefundBacked
<1>6. OnePair(approval)
  BY DEF Accounted
<1>7. SumFunctionOnSet(balance', Users) + SumFunctionOnSet(Free(approval'), Approvals)
      = SumFunctionOnSet(balance, Users) + SumFunctionOnSet(Free(approval), Approvals)
        + SumFunctionOnSet(r.spend, Users)
  <2> DEFINE after == GiveBack(r.seen, r.spend, order)
             spend == r.spend
             seen == r.seen
  <2>1. Backed(seen, u, spend) /\ LapsedAlone(seen, spend, order) /\ StandsFor(seen, approval, u, spend)
        /\ TakenBack(seen, spend, order) = {} /\ u \in Users /\ spend \in [Users -> Nat]
        /\ after = GiveBack(seen, spend, order)
    BY <1>2, <1>3, <1>5
  <2> HIDE DEF after, spend, seen
  <2>2. SumFunctionOnSet(Repaid(seen, u, spend, order), Users)
        + SumFunctionOnSet(Free(after), Approvals)
        = SumFunctionOnSet(balance, Users) + SumFunctionOnSet(Free(approval), Approvals)
          + SumFunctionOnSet(spend, Users)
    BY <1>6, <2>1, RefundCredit
  <2> QED BY <1>3, <2>2 DEF after, spend, seen
<1>8. InWallets' + InApprovals' = InWallets + InApprovals + SumFunctionOnSet(r.spend, Users)
  <2>1. InApprovals' = SumFunctionOnSet(Free(approval'), Approvals)
    BY DEF InApprovals, Free, In, Left
  <2>2. InWallets' = SumFunctionOnSet(balance', Users)
    BY DEF InWallets
  <2> QED BY <1>7, <2>1, <2>2 DEF InWallets, InApprovals
<1>9. InTransit' = InTransit
  BY <1>2, TransitSame
<1>10. /\ InWallets \in Nat /\ InApprovals \in Nat /\ InTransit \in Nat
       /\ InWallets' \in Nat /\ InApprovals' \in Nat
       /\ Credit = InWallets + InApprovals + InTransit
       /\ Credit' = InWallets' + InApprovals' + InTransit'
  BY CreditIs, CreditThen DEF CreditSums
<1>11. CASE r.row = None
  <2>1. \A p \in Users : r.spend[p] = 0
    BY <1>2, <1>4, <1>11 DEF Misread
  <2>2. SumFunctionOnSet(r.spend, Users) = 0
    <3> DEFINE spend == r.spend
    <3>1. \A p \in Users : spend[p] = 0
      BY <2>1
    <3> HIDE DEF spend
    <3>2. SumFunctionOnSet(spend, Users) = 0
      BY <3>1, Finite, SumZero
    <3> QED BY <3>2 DEF spend
  <2>3. reservations' = reservations
    BY <1>2, <1>11, NoneAssumption DEF TypeInv
  <2>4. InWallets' + InApprovals' + InTransit' = InWallets + InApprovals + InTransit
    <3>1. (InWallets' + InApprovals') + InTransit' = (InWallets + InApprovals + 0) + InTransit
      BY <1>8, <1>9, <2>2
    <3>2. InWallets + InApprovals + 0 = InWallets + InApprovals
      BY <1>10
    <3> QED BY <3>1, <3>2
  <2> QED BY <1>2, <2>3, <2>4, UnseenIs
<1>12. CASE r.row # None
  <2> DEFINE i == r.item
             w == r.row.winc
  <2>1. /\ r.row \in reservations /\ r.row.item = i /\ r.spend = SpendOf(u, r.row)
        /\ i \in Items /\ r.row \in ActiveFor(i)
    <3>1. r.item \in Items
      BY <1>2 DEF Refund
    <3>2. r.row \in reservations /\ r.row.item = r.item /\ r.spend = SpendOf(SignerOf[r.item], r.row)
      BY <1>2, <1>12 DEF Reading
    <3> QED BY <1>1, <3>1, <3>2 DEF ActiveFor
  <2>2. w \in Nat /\ w > 0
    BY <2>1 DEF Whole, TypeInv, Reservation
  <2>3. SumFunctionOnSet(r.spend, Users) = w
    <3>1. CASE r.row.spend = None
      BY <1>2, <2>1, <2>2, <3>1, BySignerSum DEF SpendOf
    <3>2. CASE r.row.spend # None
      BY <2>1, <3>2 DEF SpendOf, Whole
    <3> QED BY <3>1, <3>2
  <2>4. Held[i] = w /\ Held' = [Held EXCEPT ![i] = 0]
    BY <1>2, <2>1, <2>2, HeldDropped
  <2>5. Credit' = Credit + w
    <3>1. (InWallets' + InApprovals') + InTransit' = (InWallets + InApprovals + w) + InTransit
      BY <1>8, <1>9, <2>3
    <3> HIDE DEF w
    <3>2. (InWallets + InApprovals + w) + InTransit = (InWallets + InApprovals + InTransit) + w
      BY <1>10, <2>2
    <3> QED BY <1>10, <3>1, <3>2
  <2>6. Promise!Release(i)
    BY <1>2, <2>2, <2>4, <2>5 DEF Promise!Release
  <2> QED BY <2>1, <2>6
<1> QED BY <1>11, <1>12

(***************************************************************************)
(* The ledger is implemented.                                              *)
(***************************************************************************)
Kept == Refunds /\ Accounted /\ OneReservation /\ Whole /\ Trims
InScope == ~ApprovalsShared /\ ~TrimOverlaps /\ ~LapsedShared

LEMMA InitKept == Init => TypeInv /\ Kept /\ Promise!Init
<1> SUFFICES ASSUME Init PROVE TypeInv /\ Kept /\ Promise!Init
  OBVIOUS
<1>1. TypeInv /\ Refunds /\ Accounted
  BY InitTyped, InitAccounted
<1>2. /\ reservations = {} /\ paidIn = 0 /\ \A t \in Trimmers : trim[t] = None
      /\ \A i \in Items : ActiveFor(i) = {}
  BY DEF Init, ActiveFor
<1>3. OneReservation /\ Whole /\ Trims
  BY <1>2 DEF OneReservation, Whole, Trims
<1>4. Credit \in Nat
  BY <1>1, CreditIs DEF CreditSums
<1>5. Held = [i \in Items |-> 0]
  <2>1. \A i \in Items : HeldOf(ActiveFor(i)) = 0
    BY <1>2, HeldOfSome
  <2> QED BY <2>1, HeldIs
<1>6. NoneAmiss = TRUE
  BY DEF Init, NoneAmiss
<1> QED BY <1>1, <1>2, <1>3, <1>4, <1>5, <1>6 DEF Kept, Promise!Init

LEMMA StepKept ==
    ASSUME TypeInv, TypeInv', Kept, InScope, [Next]_vars
    PROVE  Kept'
BY StepRefunds, StepAccounted, StepOne, StepWhole, StepTrims DEF Kept, InScope

\* What a refund wrote over stays counted.
LEMMA AmissStays ==
    ASSUME TypeInv, Refunds, [Next]_vars, NoneAmiss'
    PROVE  NoneAmiss
<1>1. CASE UNCHANGED amiss
  BY <1>1 DEF NoneAmiss
<1>2. CASE \E f \in Refunders : RefundCommit(f)
  <2>1. PICK f \in Refunders : RefundCommit(f)
    BY <1>2
  <2> DEFINE r == refunding[f]
             u == SignerOf[r.item]
  <2>2. amiss' = [pu \in Users \X Users |->
                     IF pu[2] = u /\ pu[1] \in Misread(r) THEN amiss[pu] + 1 ELSE amiss[pu]]
    BY <2>1 DEF RefundCommit
  <2> HIDE DEF r, u
  <2>3. ASSUME NEW pu \in Users \X Users PROVE amiss[pu] = 0
    <3>1. amiss[pu] \in Nat
      BY DEF TypeInv
    <3>2. amiss'[pu] = 0
      BY DEF NoneAmiss
    <3>3. amiss'[pu] = amiss[pu] + 1 \/ amiss'[pu] = amiss[pu]
      BY <2>2
    <3> QED BY <3>1, <3>2, <3>3
  <2> QED BY <2>3 DEF NoneAmiss
<1>3. CASE \E c \in Callers, w \in Costs, list \in PaidBy, listOnly \in BOOLEAN :
             ReserveCommit(c, w, list, listOnly)
  BY <1>1, <1>3 DEF ReserveCommit, refundVars
<1>4. CASE \/ \E f \in Refunders, i \in Items, w \in Costs : refundBalance(f, i, w)
           \/ \E f \in Refunders : RefundApprovals(f) \/ RefundFails(f)
  BY <1>1, <1>4 DEF refundBalance, RefundApprovals, RefundFails
<1> QED BY <1>1, <1>2, <1>3, <1>4 DEF Next, vars, refundVars, atomicCreditUser,
          createDelegatedPaymentApproval, Expire, revokeDelegatedPaymentApprovals, reserveBalance,
          TrimRead, TrimMove, TrimPay

\* Until a refund writes over something, each step is one of the ledger's, or unseen.
LEMMA StepLedger ==
    ASSUME TypeInv, TypeInv', Kept, InScope, [Next]_vars, NoneAmiss, NoneAmiss'
    PROVE  \/ Unseen \/ Promise!PayIn
           \/ \E i \in Items : Promise!Hold(i) \/ Promise!Release(i)
<1>1. CASE UNCHANGED vars
  BY <1>1 DEF vars, Unseen, Credit, Held, Sum, LeftOf, Left, In, OnTheWay, ActiveFor
<1>2. CASE \E u \in Users, n \in Amounts : atomicCreditUser(u, n)
  BY <1>2, CreditPaysIn
<1>3. CASE \E a \in Approvals, p \in Users, u \in Approved, n \in Amounts :
             p # u /\ createDelegatedPaymentApproval(a, p, u, n)
  <2>1. Approved \subseteq Users
    BY LedgerAssumption
  <2> QED BY <1>3, <2>1, CreateUnseen
<1>4. CASE \E a \in Approvals : Expire(a)
  BY <1>4, ExpireUnseen
<1>5. CASE \E p, u \in Users : revokeDelegatedPaymentApprovals(p, u)
  BY <1>5, RevokeUnseen
<1>6. CASE \/ \E c \in Callers, i \in Items : reserveBalance(c, i)
           \/ \E f \in Refunders, i \in Items, w \in Costs : refundBalance(f, i, w)
           \/ \E f \in Refunders : RefundFails(f)
  <2>1. UNCHANGED <<balance, approval, reservations, trim, paidIn>>
    BY <1>6 DEF reserveBalance, refundBalance, RefundFails
  <2> QED BY <2>1 DEF Unseen, Credit, Held, Sum, LeftOf, Left, In, OnTheWay, ActiveFor
<1>7. CASE \E c \in Callers, w \in Costs, list \in PaidBy, listOnly \in BOOLEAN :
             ReserveCommit(c, w, list, listOnly)
  BY <1>7, CommitHolds
<1>8. CASE \E f \in Refunders : RefundCommit(f)
  BY <1>8, RefundReleases DEF Kept, InScope
<1>9. CASE \/ \E t \in Readers, u \in Users : TrimRead(t, u)
           \/ \E f \in Refunders : RefundApprovals(f)
  <2>1. PICK t \in Trimmers : /\ Begins(t) \/ UNCHANGED <<balance, approval, trim>>
                              /\ Undisturbed /\ UNCHANGED <<reservations, paidIn>>
    BY <1>9, TrimBegins DEF Trimmers
  <2>2. \A s \in Trimmers : trim[s] = None
    BY <2>1 DEF Undisturbed, InScope
  <2> QED BY <2>1, <2>2, BeginUnseen
<1>10. CASE \E t \in Trimmers : TrimMove(t) \/ TrimPay(t)
  BY <1>10, TrimMoveUnseen, TrimPayUnseen DEF Kept
<1> QED BY <1>1, <1>2, <1>3, <1>4, <1>5, <1>6, <1>7, <1>8, <1>9, <1>10 DEF Next

LEMMA StepPromised ==
    ASSUME TypeInv, TypeInv', Kept, InScope, [Next]_vars
    PROVE  [Promise!Next]_<<paidIn, Credit, Held, NoneAmiss>>
<1>1. CASE NoneAmiss'
  <2>1. NoneAmiss
    BY <1>1, AmissStays DEF Kept
  <2>2. (NoneAmiss = TRUE) /\ (NoneAmiss' = TRUE) /\ (NoneAmiss' = NoneAmiss)
    BY <1>1, <2>1
  <2>3. \/ Unseen \/ Promise!PayIn
        \/ \E i \in Items : Promise!Hold(i) \/ Promise!Release(i)
    BY <1>1, <2>1, StepLedger
  <2> QED BY <2>2, <2>3 DEF Unseen, Promise!Next
<1>2. CASE ~NoneAmiss'
  <2>1. NoneAmiss' = FALSE
    BY <1>2 DEF NoneAmiss
  <2> QED BY <2>1 DEF Promise!Next
<1> QED BY <1>1, <1>2

\* The service keeps Ledger's promise, as long as every refund finds what it had read:
\* top-ups pay in, a reserve that goes through holds an item's price, its refund releases
\* that price, and approving, revoking, expiring and trimming move credit without making
\* or losing any, whichever of them and of the refunds overlap.  InScope excludes what the
\* code does against it besides: trims that overlap, two approvals of one payer, and a
\* refund after an approval that paid several items lapsed.
THEOREM LedgerImplemented == ASSUME InScope PROVE Spec => ImplementsLedger
<1>1. Init => TypeInv /\ Kept /\ Promise!Init
  BY InitKept
<1>2. TypeInv /\ Kept /\ [Next]_vars => TypeInv'
  BY StepTyped DEF Kept
<1>3. TypeInv /\ TypeInv' /\ Kept /\ [Next]_vars => Kept'
  BY StepKept
<1>4. TypeInv /\ TypeInv' /\ Kept /\ [Next]_vars
      => [Promise!Next]_<<paidIn, Credit, Held, NoneAmiss>>
  BY StepPromised
<1> QED BY <1>1, <1>2, <1>3, <1>4, PTL DEF Spec, ImplementsLedger, Promise!Spec

(***************************************************************************)
(* Nobody gains credit.                                                    *)
(***************************************************************************)
Conserved == Credit + SumFunctionOnSet(Held, Items) = SumFunctionOnSet(Opening, Users) + paidIn

\* The sum Ledger's steps keep.
LEMMA HeldNat == TypeInv => \A i \in Items : Held[i] \in Nat
<1> SUFFICES ASSUME TypeInv, NEW i \in Items PROVE Held[i] \in Nat
  OBVIOUS
<1> DEFINE S == ActiveFor(i)
           f == [r \in S |-> r.winc]
<1>1. IsFiniteSet(S)
  BY FS_Subset DEF TypeInv, ActiveFor
<1>2. \A r \in S : f[r] \in Nat
  BY LedgerAssumption DEF TypeInv, ActiveFor, Reservation
<1>3. Held[i] = SumFunctionOnSet(f, S)
  BY DEF Held, Sum
<1> HIDE DEF S, f
<1> QED BY <1>1, <1>2, <1>3, SumNat

LEMMA InitConserved ==
    ASSUME IsFiniteSet(Items), Init
    PROVE  Conserved
<1>1. TypeInv /\ Held = [i \in Items |-> 0]
  BY InitKept DEF Promise!Init
<1>2. balance = Opening /\ paidIn = 0 /\ (\A a \in Approvals : approval[a] = None)
      /\ \A t \in Trimmers : trim[t] = None
  BY DEF Init
<1>3. InApprovals = 0
  <2> DEFINE f == Free(approval)
  <2>1. \A a \in Approvals : f[a] = 0
    BY <1>2 DEF Free, In
  <2> HIDE DEF f
  <2>2. SumFunctionOnSet(f, Approvals) = 0
    BY <2>1, Finite, SumZero
  <2> QED BY <2>2 DEF f, InApprovals
<1>4. InTransit = 0
  <2> DEFINE f == Way
  <2>1. \A t \in Trimmers : f[t] = 0
    BY <1>2 DEF Way, OnTheWay
  <2> HIDE DEF f
  <2>2. SumFunctionOnSet(f, Trimmers) = 0
    BY <2>1, Finite, SumZero
  <2> QED BY <2>2 DEF f, InTransit
<1>5. SumFunctionOnSet(Held, Items) = 0
  <2>1. \A i \in Items : Held[i] = 0
    BY <1>1
  <2> QED BY <2>1, SumZero
<1>6. Credit = SumFunctionOnSet(Opening, Users) /\ Credit \in Nat
  BY <1>1, <1>2, <1>3, <1>4, CreditIs DEF CreditSums, InWallets
<1> QED BY <1>2, <1>5, <1>6 DEF Conserved

LEMMA StepConserved ==
    ASSUME IsFiniteSet(Items), TypeInv, TypeInv', Conserved,
           \/ Unseen \/ Promise!PayIn
           \/ \E i \in Items : Promise!Hold(i) \/ Promise!Release(i)
    PROVE  Conserved'
<1> DEFINE f == Held
           g == Held'
           before == SumFunctionOnSet(f, Items)
           after == SumFunctionOnSet(g, Items)
<1>1. /\ \A j \in Items : f[j] \in Int
      /\ Credit \in Int /\ paidIn \in Int
  <2>1. \A j \in Items : f[j] \in Nat
    BY HeldNat
  <2>2. Credit \in Nat
    BY CreditIs DEF CreditSums
  <2>3. paidIn \in Nat
    BY LedgerAssumption DEF TypeInv
  <2> QED BY <2>1, <2>2, <2>3
<1>2. f = [i \in Items |-> f[i]]
  BY DEF Held
<1>3. before \in Int
  <2> HIDE DEF f
  <2> QED BY <1>1, SumInt
<1>4. Credit + before = SumFunctionOnSet(Opening, Users) + paidIn
  BY DEF Conserved
<1>5. SumFunctionOnSet(Opening, Users) \in Int
  <2>1. \A p \in Users : Opening[p] \in Int
    BY LedgerAssumption
  <2> QED BY <2>1, Finite, SumInt
<1> SUFFICES Credit' + after = SumFunctionOnSet(Opening, Users) + paidIn'
  BY DEF Conserved
<1>6. CASE Unseen
  BY <1>4, <1>6 DEF Unseen
<1>7. ASSUME Promise!PayIn PROVE Credit' + after = SumFunctionOnSet(Opening, Users) + paidIn'
  <2>1. Credit' = Credit + (paidIn' - paidIn) /\ after = before
    BY <1>7 DEF Promise!PayIn
  <2>2. paidIn' \in Int
    BY LedgerAssumption DEF TypeInv
  <2> HIDE DEF after, before
  <2> QED BY <1>1, <1>3, <1>4, <1>5, <2>1, <2>2
<1>8. ASSUME NEW i \in Items, NEW n \in Int, g = [f EXCEPT ![i] = n]
      PROVE  after = before - f[i] + n
  <2>1. g[i] = n /\ \A j \in Items \ {i} : g[j] = f[j]
    <3> HIDE DEF f, g
    <3> QED BY <1>2, <1>8
  <2> HIDE DEF f, g
  <2> QED BY <1>1, <2>1, SumUpdate
<1>9. ASSUME NEW i \in Items, Promise!Hold(i)
      PROVE  Credit' + after = SumFunctionOnSet(Opening, Users) + paidIn'
  <2>1. PICK n \in 1..Credit : Credit' = Credit - n /\ g = [f EXCEPT ![i] = n]
    BY <1>9 DEF Promise!Hold
  <2>2. f[i] = 0 /\ paidIn' = paidIn
    BY <1>9 DEF Promise!Hold
  <2>3. n \in Int
    OBVIOUS
  <2>4. after = before - 0 + n
    BY <1>8, <2>1, <2>2, <2>3
  <2> HIDE DEF after, before, f, g
  <2> QED BY <1>1, <1>3, <1>4, <1>5, <2>1, <2>2, <2>3, <2>4
<1>10. ASSUME NEW i \in Items, Promise!Release(i)
       PROVE  Credit' + after = SumFunctionOnSet(Opening, Users) + paidIn'
  <2>1. /\ Credit' = Credit + f[i] /\ g = [f EXCEPT ![i] = 0] /\ paidIn' = paidIn
    BY <1>10 DEF Promise!Release
  <2>2. after = before - f[i] + 0
    <3>1. 0 \in Int /\ g = [f EXCEPT ![i] = 0]
      BY <2>1
    <3> HIDE DEF after, before, f, g
    <3> QED BY <1>8, <3>1
  <2>3. f[i] \in Int
    BY <1>1
  <2> HIDE DEF after, before, f, g
  <2> QED BY <1>1, <1>3, <1>4, <1>5, <2>1, <2>2, <2>3
<1> QED BY <1>6, <1>7, <1>9, <1>10

\* In the same scope, for finitely many items and as long as every refund found what it
\* had read, what is at hand and what is reserved never exceeds what the users began with
\* and bought: it equals it at every step, counting what a trim has on its way.
THEOREM NoFreeCreditAlways ==
    ASSUME InScope, IsFiniteSet(Items) PROVE Spec => []NoFreeCredit
<1>1. Init => TypeInv /\ Kept /\ (NoneAmiss => Conserved)
  BY InitKept, InitConserved
<1>2. TypeInv /\ Kept /\ [Next]_vars => TypeInv'
  BY StepTyped DEF Kept
<1>3. TypeInv /\ TypeInv' /\ Kept /\ [Next]_vars => Kept'
  BY StepKept
<1>4. TypeInv /\ TypeInv' /\ Kept /\ (NoneAmiss => Conserved) /\ [Next]_vars
      => (NoneAmiss => Conserved)'
  <2> SUFFICES ASSUME TypeInv, TypeInv', Kept, NoneAmiss => Conserved, [Next]_vars, NoneAmiss'
               PROVE  Conserved'
    OBVIOUS
  <2>1. NoneAmiss
    BY AmissStays DEF Kept
  <2>2. \/ Unseen \/ Promise!PayIn
        \/ \E i \in Items : Promise!Hold(i) \/ Promise!Release(i)
    BY <2>1, StepLedger
  <2> QED BY <2>1, <2>2, StepConserved
<1>5. TypeInv /\ (NoneAmiss => Conserved) => NoFreeCredit
  <2> SUFFICES ASSUME TypeInv, Conserved PROVE NoFreeCredit
    BY DEF NoFreeCredit
  <2>1. SumFunctionOnSet(Opening, Users) \in Int /\ paidIn \in Int
    <3>1. \A p \in Users : Opening[p] \in Int
      BY LedgerAssumption
    <3>2. SumFunctionOnSet(Opening, Users) \in Int
      BY <3>1, Finite, SumInt
    <3> QED BY <3>2, LedgerAssumption DEF TypeInv
  <2> QED BY <2>1 DEF NoFreeCredit, Conserved, Sum
<1> QED BY <1>1, <1>2, <1>3, <1>4, <1>5, PTL DEF Spec
=============================================================================
