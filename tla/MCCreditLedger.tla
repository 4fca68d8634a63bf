--------------------------- MODULE MCCreditLedger ---------------------------
(***************************************************************************)
(* A signer s with a payer p and another, q: items x and y are signed by s *)
(* and may be paid by all of them.                                         *)
(***************************************************************************)
EXTENDS CreditLedger, TLC

CONSTANTS s, p, q, x, y

MCSigner == x :> s @@ y :> s
MCOpening == s :> 0 @@ p :> 2 @@ q :> 2
MCPaidBy == {<<>>, <<p>>, <<q, s, p>>}
Symmetric == Permutations(Approvals) \cup Permutations(Callers) \cup Permutations(Readers)
             \cup Permutations(Refunders)

\* Requests that reserve or refund interleave in twos, and a behaviour is not followed
\* beyond the first refund that went amiss.
HalfWay == {c \in Callers : reserving[c] # None} \cup {f \in Refunders : refunding[f] # None}
Explored == NoneAmiss /\ Cardinality(HalfWay) <= 2
=============================================================================
