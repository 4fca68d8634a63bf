----------------------------- MODULE MCPayments -----------------------------
(***************************************************************************)
(* One payment of every other kind, or two authorizations of x402; or a    *)
(* name alone.                                                             *)
(***************************************************************************)
EXTENDS X402

CONSTANTS p1, p2

MCPurchases ==
    {[p \in Payments |-> IF p = p1 THEN m ELSE "nothing"] : m \in Methods \ {"x402", "nothing"}}
        \cup {[p \in Payments |-> "x402"]}
MCNames == {[p \in Payments |-> m] : m \in {"name", "name on credit"}}
=============================================================================
