------------------------------ MODULE Delivery ------------------------------
(***************************************************************************)
(* What the upload service promises of a data item it accepted and of a    *)
(* bundle transaction it signed, whatever its queues and tables go through:*)
(* an item is called permanent only with a confirmed transaction that      *)
(* holds it, and for good; a transaction is over some accepted items, goes *)
(* through its stages in order, and is called permanent only when it is    *)
(* confirmed.                                                              *)
(***************************************************************************)
EXTENDS Naturals

CONSTANTS Items, Bundles

VARIABLES
    accepted,   \* items an upload was accepted for
    outcome,    \* what the service says of each item
    stage,      \* the stage of each bundle transaction
    holds,      \* the items each transaction was signed over
    confirmed   \* transactions with enough confirmations

vars == <<accepted, outcome, stage, holds, confirmed>>

Outcome == {"pending", "permanent", "failed"}
Successor == [none |-> {"new"}, new |-> {"posted", "failed"},
              posted |-> {"seeded", "failed"}, seeded |-> {"permanent", "failed"},
              permanent |-> {}, failed |-> {}]

Init ==
    /\ accepted = {} /\ confirmed = {}
    /\ outcome = [i \in Items |-> "pending"]
    /\ stage = [b \in Bundles |-> "none"]
    /\ holds = [b \in Bundles |-> {}]

Accept(i) ==
    /\ accepted' = accepted \cup {i}
    /\ UNCHANGED <<outcome, stage, holds, confirmed>>

\* An item given up may be uploaded again; a permanent one stays permanent.
Reopen(i) ==
    /\ outcome[i] = "failed" /\ i \in accepted
    /\ outcome' = [outcome EXCEPT ![i] = "pending"]
    /\ UNCHANGED <<accepted, stage, holds, confirmed>>

\* An item given up may still turn permanent: of two newDataItem jobs of one item
\* the second may insert it again after the first one's row was given up.
Settle(good, bad) ==
    /\ good \subseteq {i \in accepted : outcome[i] # "permanent"}
    /\ bad \subseteq {i \in accepted : outcome[i] = "pending"}
    /\ \A i \in good : \E b \in confirmed : i \in holds[b]
    /\ outcome' = [i \in Items |-> IF i \in good THEN "permanent"
                                   ELSE IF i \in bad THEN "failed" ELSE outcome[i]]
    /\ UNCHANGED <<accepted, stage, holds, confirmed>>

Sign(b, S) ==
    /\ stage[b] = "none" /\ S # {} /\ S \subseteq accepted
    /\ stage' = [stage EXCEPT ![b] = "new"]
    /\ holds' = [holds EXCEPT ![b] = S]
    /\ UNCHANGED <<accepted, outcome, confirmed>>

Proceed(b, to) ==
    /\ stage[b] # "none" /\ to \in Successor[stage[b]]
    /\ to = "permanent" => b \in confirmed
    /\ stage' = [stage EXCEPT ![b] = to]
    /\ UNCHANGED <<accepted, outcome, holds, confirmed>>

Confirm(b) ==
    /\ stage[b] # "none"
    /\ confirmed' = confirmed \cup {b}
    /\ UNCHANGED <<accepted, outcome, stage, holds>>

Next ==
    \/ \E i \in Items : Accept(i) \/ Reopen(i)
    \/ \E good, bad \in SUBSET Items : Settle(good, bad)
    \/ \E b \in Bundles : Confirm(b) \/ \E S \in SUBSET Items : Sign(b, S)
    \/ \E b \in Bundles, to \in {"posted", "seeded", "permanent", "failed"} :
          Proceed(b, to)

Spec == Init /\ [][Next]_vars

\* Every accepted item is settled in the end.
EventuallySettled ==
    \A i \in Items : (i \in accepted) ~> (outcome[i] # "pending")
=============================================================================
