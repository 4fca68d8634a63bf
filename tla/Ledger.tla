------------------------------- MODULE Ledger -------------------------------
(***************************************************************************)
(* What the credit ledger of the payment service promises, whatever wallets *)
(* and approvals the credits are spread over: an item is charged once, what *)
(* is refunded is what was charged, and nothing else makes or takes credit. *)
(***************************************************************************)
EXTENDS Integers

CONSTANTS Items

VARIABLES
    paidIn,  \* credits bought or given so far
    credit,  \* credits at anyone's disposal
    held,    \* credits each item was charged, 0 if none
    sound    \* no refund has written over what was changed after it read

Init == paidIn = 0 /\ credit \in Nat /\ held = [i \in Items |-> 0] /\ sound = TRUE

\* A top-up, a redeemed gift, a credited crypto payment.
PayIn ==
    /\ paidIn' > paidIn
    /\ credit' = credit + (paidIn' - paidIn)
    /\ UNCHANGED held

Hold(i) ==
    /\ held[i] = 0 /\ UNCHANGED paidIn
    /\ \E n \in 1..credit :
        /\ credit' = credit - n
        /\ held' = [held EXCEPT ![i] = n]

Release(i) ==
    /\ held[i] > 0 /\ UNCHANGED paidIn
    /\ credit' = credit + held[i]
    /\ held' = [held EXCEPT ![i] = 0]

\* What holds holds until then.
Next ==
    \/ sound = TRUE /\ sound' = TRUE /\ (PayIn \/ \E i \in Items : Hold(i) \/ Release(i))
    \/ sound' = FALSE

Spec == Init /\ [][Next]_<<paidIn, credit, held, sound>>
=============================================================================
