---------------------------- MODULE ChunkSeeding ----------------------------
(***************************************************************************)
(* What BundlePipeline's seed step stands for: a seed-bundle job waits for *)
(* the bundle's transaction to be confirmed, puts the chunks of its payload*)
(* into the object store one after the other and enqueues a job for each,  *)
(* which the workers of another queue broadcast and delete.                *)
(***************************************************************************)
EXTENDS Naturals, FiniteSets

CONSTANTS
    Posted,        \* the bundles that a gateway has taken
    ChunksOf,      \* how many chunks each of them has
    Concurrency,   \* of the seed-bundle worker
    Tries,         \* defaultJobOptions.attempts
    Gates,         \* settings of CHUNK_BROADCAST_TX_CONFIRM_GATE: on or not
    MaxPolls,      \* polls of the gate that fit into maxMs
    MaxRedrives,   \* maxSeedRedrives
    NoDeadline,    \* what a job carries that no gate has seen
    MaxTroubles    \* bound: handlers that throw, die or are started twice, lost
                   \* answers, bundles that are seeded again

ASSUME SeedingAssumption ==
    /\ ChunksOf \in [Posted -> Nat \ {0}] /\ Gates \subseteq BOOLEAN
    /\ Tries \in Nat \ {0} /\ MaxPolls \in Nat /\ MaxRedrives \in Nat
    /\ MaxTroubles \in Nat /\ Concurrency \in Nat \ {0} /\ NoDeadline \notin Nat

VARIABLES
    gate,        \* whether the gate is on
    row,         \* the table each bundle is in; seeded stands for permanent too
    redrives,    \* seed_redrives
    tx,          \* how far each transaction has come on the network
    queue,       \* waiting jobs, of both queues
    spent,       \* history: jobs that used up their attempts.  Redis lists them for a
                 \* while (removeOnFail: 5000 of a queue, 7 days); no worker takes them
    seeding,     \* the executions of seedBundleHandler
    sending,     \* the executions of broadcastChunkHandler
    staged,      \* keys of chunks in the object store
    taken,       \* chunks a node has taken
    unconfirmed, \* bundles whose chunks were staged without a confirmation
    troubles

queueVars == <<queue, spent>>
networkVars == <<tx, taken>>
rowVars == <<row, redrives>>
seedingVars == <<gate, rowVars, networkVars, queueVars, seeding, sending, staged,
                 unconfirmed, troubles>>

(***************************************************************************)
(* Jobs.  A seed-bundle job has no chunk; its deadline is what is left of  *)
(* the gate's cap, in polls, or NoDeadline when no gate has set it.        *)
(***************************************************************************)
Chunk(b, n) == <<b, n>>
ChunksIn(b) == {Chunk(b, n) : n \in 1..ChunksOf[b]}
Jobs ==
    [bundle : Posted, chunk : Nat, deadline : {NoDeadline} \cup 0..MaxPolls,
     left : 1..Tries]
SeedJob(b, d)  == [bundle |-> b, chunk |-> 0, deadline |-> d, left |-> Tries]
ChunkJob(b, n) == [bundle |-> b, chunk |-> n, deadline |-> NoDeadline, left |-> Tries]
Key(j) == Chunk(j.bundle, j.chunk)

Retry(j)     == IF j.left > 1 THEN {[j EXCEPT !.left = @ - 1]} ELSE {}
Exhausted(j) == IF j.left = 1 THEN {j} ELSE {}
Start(j) == j \in queue /\ queue' = queue \ {j} /\ UNCHANGED spent
Throw(waiting, j) == queue' = waiting \cup Retry(j) /\ spent' = spent \cup Exhausted(j)

Trouble == troubles < MaxTroubles /\ troubles' = troubles + 1
NoTrouble == UNCHANGED troubles

(***************************************************************************)
(* seedBundleHandler.                                                      *)
(***************************************************************************)
Seeding(j, step, n) == [job |-> j, step |-> step, n |-> n]
At(e, step) == e \in seeding /\ e.step = step
Goto(e, step, n) == seeding' = (seeding \ {e}) \cup {Seeding(e.job, step, n)}
End(e) == seeding' = seeding \ {e}

\* A bundle that is seeded already is left alone; one that was demoted is an error.
getNextBundleAndDataItemsToSeedByPlanId(j) ==
    /\ j \in queue /\ j.chunk = 0 /\ Cardinality(seeding) < Concurrency
    /\ \/ /\ row[j.bundle] = "posted" /\ Start(j)
          /\ seeding' = seeding \cup {Seeding(j, "gate", 1)}
       \/ /\ row[j.bundle] = "seeded" /\ Start(j) /\ UNCHANGED seeding
       \/ /\ row[j.bundle] = "failed" /\ Throw(queue \ {j}, j) /\ UNCHANGED seeding
    /\ NoTrouble
    /\ UNCHANGED <<gate, rowVars, networkVars, sending, staged, unconfirmed>>

\* The first look sets the deadline; of a deadline that is carried, any part may have
\* gone by while the job waited.
Remaining(e) == IF e.job.deadline = NoDeadline THEN {MaxPolls} ELSE 0..e.job.deadline

GateOff(e) == ~gate /\ unconfirmed' = unconfirmed \cup {e.job.bundle}
GateCapReached(e) == /\ gate /\ 0 \in Remaining(e)
                     /\ unconfirmed' = unconfirmed \cup {e.job.bundle}
GateConfirmed(e) == /\ gate /\ Remaining(e) # {0} /\ tx[e.job.bundle] = "mined"
                    /\ UNCHANGED unconfirmed

\* Mutant: a status that cannot be had opens the gate.
GateOpensOnError(e) ==
    /\ At(e, "gate") /\ Goto(e, "put", 1)
    /\ \/ GateOff(e) \/ GateCapReached(e)
       \/ gate /\ UNCHANGED unconfirmed
    /\ NoTrouble
    /\ UNCHANGED <<gate, rowVars, networkVars, queueVars, sending, staged>>
GateProceeds(e) ==
    /\ At(e, "gate") /\ Goto(e, "put", 1)
    /\ GateOff(e) \/ GateCapReached(e) \/ GateConfirmed(e)
    /\ NoTrouble
    /\ UNCHANGED <<gate, rowVars, networkVars, queueVars, sending, staged>>

\* Mutant: the deadline is not carried along.
RequeueWithoutDeadline(e) ==
    /\ At(e, "gate") /\ gate /\ Remaining(e) # {0}
    /\ queue' = queue \cup {SeedJob(e.job.bundle, NoDeadline)}
    /\ End(e) /\ NoTrouble
    /\ UNCHANGED <<gate, rowVars, networkVars, spent, sending, staged, unconfirmed>>
\* Not confirmed, as far as the gateway answers, a mined transaction included: the job
\* enqueues itself with the deadline, and ends, or dies after that and is tried again.
GateRequeues(e) ==
    /\ At(e, "gate") /\ gate
    /\ \E d \in Remaining(e) \ {0} :
         LET again == queue \cup {SeedJob(e.job.bundle, d - 1)} IN
         \/ queue' = again /\ UNCHANGED spent /\ NoTrouble
         \/ Throw(again, e.job) /\ Trouble
    /\ End(e)
    /\ UNCHANGED <<gate, rowVars, networkVars, sending, staged, unconfirmed>>

\* persistAndEnqueuePreparedChunks, chunk by chunk.
putChunkIntoObjectStore(e) ==
    /\ At(e, "put") /\ Goto(e, "enqueue", e.n)
    /\ staged' = staged \cup {Chunk(e.job.bundle, e.n)} /\ NoTrouble
    /\ UNCHANGED <<gate, rowVars, networkVars, queueVars, sending, unconfirmed>>

enqueueBroadcastChunks(e) ==
    /\ At(e, "enqueue")
    /\ queue' = queue \cup {ChunkJob(e.job.bundle, e.n)}
    /\ IF e.n < ChunksOf[e.job.bundle] THEN Goto(e, "put", e.n + 1)
                                       ELSE Goto(e, "insert", e.n)
    /\ NoTrouble
    /\ UNCHANGED <<gate, rowVars, networkVars, spent, sending, staged, unconfirmed>>

\* A row that is not posted any more is not inserted, or the insert of nothing refused.
\* (The verify job that is enqueued at last is BundlePipeline's.)
insertSeededBundle(e) ==
    /\ At(e, "insert") /\ End(e) /\ NoTrouble
    /\ \/ /\ row[e.job.bundle] = "posted" /\ UNCHANGED queueVars
          /\ row' = [row EXCEPT ![e.job.bundle] = "seeded"]
       \/ /\ row[e.job.bundle] # "posted" /\ UNCHANGED row
          /\ UNCHANGED queueVars \/ Throw(queue, e.job)
    /\ UNCHANGED <<gate, redrives, networkVars, sending, staged, unconfirmed>>

\* Any step may throw, or its process die; or only its lock runs out.
SeedFails(e) ==
    /\ e \in seeding /\ Trouble
    /\ \/ End(e) /\ Throw(queue, e.job)
       \/ queue' = queue \cup {e.job} /\ UNCHANGED <<spent, seeding>>
    /\ UNCHANGED <<gate, rowVars, networkVars, sending, staged, unconfirmed>>

(***************************************************************************)
(* broadcastChunkHandler.                                                  *)
(***************************************************************************)
Execution(j, step) == [job |-> j, step |-> step]
Becomes(e, step) == sending' = (sending \ {e}) \cup {Execution(e.job, step)}

getChunkFromObjectStore(j) ==
    /\ j \in queue /\ j.chunk # 0
    /\ \/ /\ Key(j) \in staged /\ Start(j) /\ NoTrouble
          /\ sending' = sending \cup {Execution(j, "post")}
       \/ /\ Key(j) \notin staged /\ Throw(queue \ {j}, j) /\ NoTrouble
          /\ UNCHANGED sending
    /\ UNCHANGED <<gate, rowVars, networkVars, seeding, staged, unconfirmed>>

\* Mutant: a chunk that every node rejected is taken as sent.
BroadcastIgnoresRejection(e) ==
    /\ e \in sending /\ e.step = "post" /\ Becomes(e, "delete")
    /\ taken' = IF tx[e.job.bundle] = "posted" THEN taken ELSE taken \cup {Key(e.job)}
    /\ NoTrouble
    /\ UNCHANGED <<gate, rowVars, tx, queueVars, seeding, staged, unconfirmed>>
\* The nodes take a chunk when they know its data root, or reject it all of them; where
\* they cannot be reached, or their answer is lost, the job throws as well.
broadcastChunkToArioNode(e) ==
    /\ e \in sending /\ e.step = "post"
    /\ \/ /\ tx[e.job.bundle] # "posted" /\ taken' = taken \cup {Key(e.job)}
          /\ Becomes(e, "delete") /\ UNCHANGED queueVars /\ NoTrouble
       \/ /\ tx[e.job.bundle] = "posted" /\ UNCHANGED taken /\ NoTrouble
          /\ sending' = sending \ {e} /\ Throw(queue, e.job)
       \/ /\ Trouble /\ sending' = sending \ {e} /\ Throw(queue, e.job)
          /\ \/ UNCHANGED taken
             \/ tx[e.job.bundle] # "posted" /\ taken' = taken \cup {Key(e.job)}
    /\ UNCHANGED <<gate, rowVars, tx, seeding, staged, unconfirmed>>

\* The job is through even when its bytes cannot be deleted.
deleteChunkFromObjectStore(e) ==
    /\ e \in sending /\ e.step = "delete" /\ sending' = sending \ {e}
    /\ \/ staged' = staged \ {Key(e.job)} /\ NoTrouble
       \/ UNCHANGED staged /\ Trouble
    /\ UNCHANGED <<gate, rowVars, networkVars, queueVars, seeding, unconfirmed>>

\* The worker dies, or only its lock runs out: the job is handed out again.
BroadcastStalls(e) ==
    /\ e \in sending /\ Trouble /\ queue' = queue \cup {e.job}
    /\ UNCHANGED sending \/ sending' = sending \ {e}
    /\ UNCHANGED <<gate, rowVars, networkVars, spent, seeding, staged, unconfirmed>>

(***************************************************************************)
(* The other handlers and the network.                                     *)
(***************************************************************************)
\* Any posted row may be stale; after the last re-drive its bundle is demoted.
redrivePostedHandler(b) ==
    /\ row[b] = "posted"
    /\ \/ /\ redrives[b] < MaxRedrives /\ redrives' = [redrives EXCEPT ![b] = @ + 1]
          /\ queue' = queue \cup {SeedJob(b, NoDeadline)} /\ UNCHANGED row /\ Trouble
       \/ /\ redrives[b] = MaxRedrives /\ row' = [row EXCEPT ![b] = "failed"]
          /\ redrives' = [redrives EXCEPT ![b] = 0] /\ UNCHANGED queue /\ NoTrouble
    /\ UNCHANGED <<gate, networkVars, spent, seeding, sending, staged, unconfirmed>>

\* A transaction is posted to a gateway, known to the nodes that take chunks, mined.
Network(b) ==
    /\ \/ tx[b] = "posted" /\ tx' = [tx EXCEPT ![b] = "known"]
       \/ tx[b] \in {"posted", "known"} /\ tx' = [tx EXCEPT ![b] = "mined"]
    /\ UNCHANGED <<gate, rowVars, taken, queueVars, seeding, sending, staged,
                   unconfirmed, troubles>>

(***************************************************************************)
(* Behaviours.                                                             *)
(***************************************************************************)
\* Bundles that were just posted, and some that are through.
SeedingInit ==
    \E through \in SUBSET Posted :
        /\ gate \in Gates
        /\ row = [b \in Posted |-> IF b \in through THEN "seeded" ELSE "posted"]
        /\ redrives = [b \in Posted |-> 0]
        /\ tx = [b \in Posted |-> IF b \in through THEN "mined" ELSE "posted"]
        /\ taken = UNION {ChunksIn(b) : b \in through} /\ staged = {}
        /\ queue = {SeedJob(b, NoDeadline) : b \in Posted \ through} /\ spent = {}
        /\ seeding = {} /\ sending = {} /\ unconfirmed = {} /\ troubles = 0

StartSeed == \E j \in queue : getNextBundleAndDataItemsToSeedByPlanId(j)
SeedStep == \E e \in seeding :
    \/ GateProceeds(e) \/ GateRequeues(e) \/ putChunkIntoObjectStore(e)
    \/ enqueueBroadcastChunks(e) \/ insertSeededBundle(e)
ChunkStep(c) ==
    \/ \E j \in queue : Key(j) = c /\ getChunkFromObjectStore(j)
    \/ \E e \in sending : /\ Key(e.job) = c
                          /\ broadcastChunkToArioNode(e) \/ deleteChunkFromObjectStore(e)

SeedingNext ==
    \/ StartSeed \/ SeedStep \/ \E e \in seeding : SeedFails(e)
    \/ \E b \in Posted : \E c \in ChunksIn(b) : ChunkStep(c)
    \/ \E e \in sending : BroadcastStalls(e)
    \/ \E b \in Posted : redrivePostedHandler(b) \/ Network(b)

SeedingSpec == SeedingInit /\ [][SeedingNext]_seedingVars
\* The seed-bundle workers take their jobs and run their handler.  Nothing is assumed of
\* the network, nor of the re-drive, which may be switched off.
SeedingFairness == SF_seedingVars(StartSeed) /\ WF_seedingVars(SeedStep)
SeedingFairSpec == SeedingSpec /\ SeedingFairness

(***************************************************************************)
(* Properties.                                                             *)
(***************************************************************************)
Live == queue \cup {e.job : e \in sending}

\* The bytes of a chunk of a bundle that counts as seeded are in the object store until a
\* node has taken it, although jobs of one chunk, from several seed runs or started
\* twice, delete the bytes they share.  A job that waits or runs has the chunk, unless
\* one was tried for the last time: then nothing but the bytes is left.
ChunksKept ==
    \A b \in Posted : row[b] = "seeded" =>
        \A c \in ChunksIn(b) :
            \/ c \in taken
            \/ c \in staged /\ \E j \in Live \cup spent : Key(j) = c

\* The gate never holds a bundle back for good, whatever becomes of its transaction: it
\* is seeded, or demoted, or its job has used up its attempts on something else.
SeededAnyway ==
    \A b \in Posted : row[b] = "posted" ~>
        row[b] # "posted" \/ \E j \in spent : j.bundle = b /\ j.chunk = 0

\* A chunk that no node has taken is given up only where its bundle was staged without a
\* confirmation, by default or past the gate's cap: the nodes may not know it yet, and
\* the bundle becomes permanent all the same.  (When fewer things go wrong than a job
\* has attempts.)
GivenUpUnconfirmed ==
    \A j \in spent : j.chunk # 0 => j.bundle \in unconfirmed \/ Key(j) \in taken
=============================================================================
