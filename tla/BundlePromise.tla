--------------------------- MODULE BundlePromise ---------------------------
(***************************************************************************)
(* What the tables of BundlePipeline say of items and bundle transactions, *)
(* in the terms of Delivery.                                               *)
(***************************************************************************)
EXTENDS BundlePipeline

\* Where the row of a bundle transaction is: with OneBundleTable, one table.
HasBundle(rows, b) == \E r \in rows : r.bundle = b
StageIn(tables, b) ==
    IF \E t \in BundleTables : HasBundle(tables[t], b)
    THEN CHOOSE t \in BundleTables : HasBundle(tables[t], b)
    ELSE "none"

OutcomeOf(i) == IF i \in ItemsOf(permanent) THEN "permanent"
                ELSE IF i \in failed THEN "failed" ELSE "pending"

Promise == INSTANCE Delivery WITH
    accepted  <- {i \in Items : uploads[i] > 0},
    outcome   <- [i \in Items |-> OutcomeOf(i)],
    stage     <- [b \in Bundles |-> StageIn(bundles, b)],
    holds     <- content,
    confirmed <- {b \in Bundles : chain[b] \in {"final", "deep"}}

\* The pipeline implements Delivery: whatever is retried, run twice or lost, a
\* bundle's row takes the stages in order, is finalized only when confirmed,
\* and an item turns permanent only under a confirmed transaction that has it.
ImplementsDelivery == Promise!Spec

\* Every accepted item becomes permanent or is given up.
EventuallySettled == Promise!EventuallySettled
=============================================================================
