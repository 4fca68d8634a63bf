---------------------------- MODULE StoresProofs ----------------------------
(***************************************************************************)
(* Proofs about what is kept in the stores.  That the bytes of the chunks  *)
(* of seeded bundles are kept, and that the gate keeps chunks from being given up, for *)
(* any bundles, chunks, attempts and gates; and that the clean-up of the   *)
(* bundler's store after the archive keeps its promises, for any bundles,  *)
(* sweeps, page size, attempts and faults.                                 *)
(***************************************************************************)
EXTENDS Archive, ChunkSeeding, SequenceTheorems, TLAPS

(***************************************************************************)
(* The chunks of seeded bundles.  A chunk is safe when a node has taken it,*)
(* or the object store has it and a job has, or had, it; it stays so, since*)
(* bytes are deleted only of a chunk that was taken and the last job of a  *)
(* chunk goes only when it is through or was tried for the last time.  An  *)
(* execution of seed has made safe all the chunks it is past.              *)
(***************************************************************************)
SeedSteps == {"gate", "put", "enqueue", "insert"}

Typed ==
    /\ row \in [Posted -> {"posted", "seeded", "failed"}]
    /\ queue \subseteq Jobs /\ spent \subseteq Jobs
    /\ seeding \subseteq [job : Jobs, step : SeedSteps, n : Nat \ {0}]
    /\ \A e \in seeding : e.n <= ChunksOf[e.job.bundle]
    /\ sending \subseteq [job : Jobs, step : {"post", "delete"}]

\* The jobs that have not got through: waiting, running, or tried for the last time.
Known == Live \cup spent
HasJob(b, n) == \E j \in Known : j.bundle = b /\ j.chunk = n
Safe(b, n) == <<b, n>> \in taken \/ (<<b, n>> \in staged /\ HasJob(b, n))

\* What an execution of seed has done so far.
Done(e) ==
    /\ \A m \in Nat \ {0} : m < e.n => Safe(e.job.bundle, m)
    /\ e.step = "enqueue" => <<e.job.bundle, e.n>> \in taken \cup staged
    /\ e.step = "insert" => e.n = ChunksOf[e.job.bundle] /\ Safe(e.job.bundle, e.n)

DoneAll == \A e \in seeding : Done(e)
DeletesTaken == \A e \in sending : e.step = "delete" => Key(e.job) \in taken
SeededSafe ==
    \A b \in Posted : row[b] = "seeded" => \A n \in 1..ChunksOf[b] : Safe(b, n)

Inv == Typed /\ DoneAll /\ DeletesTaken /\ SeededSafe

(***************************************************************************)
(* What a step keeps.                                                      *)
(***************************************************************************)
\* Bytes leave the store, and jobs the queue, only when a node has taken the chunk.
Keeps ==
    /\ taken \subseteq taken' /\ staged \subseteq staged' \cup taken'
    /\ \A j \in Known : j.chunk # 0 =>
          \/ <<j.bundle, j.chunk>> \in taken'
          \/ \E k \in Known' : k.bundle = j.bundle /\ k.chunk = j.chunk

\* A job that throws waits again or is spent.
LEMMA ThrownJobStays ==
    ASSUME SeedingAssumption, Typed, NEW W \in SUBSET Jobs, NEW j \in Jobs, Throw(W, j)
    PROVE  /\ queue' \subseteq Jobs /\ spent' \subseteq Jobs
           /\ W \subseteq queue' /\ spent \subseteq spent'
           /\ \E k \in queue' \cup spent' : k.bundle = j.bundle /\ k.chunk = j.chunk
<1>1. j.left \in 1..Tries /\ Tries \in Nat
  BY DEF SeedingAssumption, Jobs
<1>2. CASE j.left = 1
  <2>1. queue' = W /\ spent' = spent \cup {j}
    BY <1>2 DEF Throw, Retry, Exhausted
  <2> QED BY <2>1 DEF Typed
<1>3. CASE j.left > 1
  <2> DEFINE k == [j EXCEPT !.left = j.left - 1]
  <2>1. queue' = W \cup {k} /\ spent' = spent
    BY <1>1, <1>3 DEF Throw, Retry, Exhausted
  <2>2. k \in Jobs /\ k.bundle = j.bundle /\ k.chunk = j.chunk
    BY <1>1, <1>3 DEF Jobs
  <2> HIDE DEF k
  <2> QED BY <2>1, <2>2 DEF Typed
<1> QED BY <1>1, <1>2, <1>3

\* Once safe, a chunk stays safe.
LEMMA SafeStays ==
    ASSUME Keeps, NEW b, NEW n \in Nat \ {0}, Safe(b, n)
    PROVE  Safe(b, n)'
<1>1. CASE <<b, n>> \in taken
  BY <1>1 DEF Keeps, Safe
<1>2. CASE <<b, n>> \in staged /\ HasJob(b, n)
  <2>1. HasJob(b, n)' \/ <<b, n>> \in taken'
    BY <1>2 DEF HasJob, Keeps
  <2> QED BY <1>2, <2>1 DEF Keeps, Safe
<1> QED BY <1>1, <1>2 DEF Safe

LEMMA DoneStays ==
    ASSUME SeedingAssumption, Typed, Keeps, NEW e \in seeding, Done(e)
    PROVE  Done(e)'
<1>1. e.n \in Nat \ {0}
  BY DEF Typed
<1>2. \A m \in Nat \ {0} : m < e.n => Safe(e.job.bundle, m)'
  BY SafeStays DEF Done
<1>3. e.step = "enqueue" => <<e.job.bundle, e.n>> \in taken' \cup staged'
  BY DEF Done, Keeps
<1>4. e.step = "insert" => e.n = ChunksOf[e.job.bundle] /\ Safe(e.job.bundle, e.n)'
  BY <1>1, SafeStays DEF Done
<1> QED BY <1>2, <1>3, <1>4 DEF Done

\* What is left to show of a step: what it starts, and what it says is seeded.
LEMMA Carried ==
    ASSUME SeedingAssumption, Inv, Keeps, Typed', DeletesTaken',
           \A e \in seeding' : e \in seeding \/ Done(e)',
           \A b \in Posted : row'[b] = "seeded" =>
               row[b] = "seeded" \/ \A n \in 1..ChunksOf[b] : Safe(b, n)
    PROVE  Inv'
<1>1. DoneAll'
  BY DoneStays DEF DoneAll, Inv
<1>2. SeededSafe'
  <2> SUFFICES ASSUME NEW b \in Posted, row'[b] = "seeded", NEW n \in 1..ChunksOf[b]
               PROVE  Safe(b, n)'
    BY DEF SeededSafe
  <2>1. Safe(b, n) BY DEF Inv, SeededSafe
  <2>2. n \in Nat \ {0} BY DEF SeedingAssumption
  <2> QED BY <2>1, <2>2, SafeStays
<1> QED BY <1>1, <1>2 DEF Inv

(***************************************************************************)
(* seedBundleHandler, step by step.                                        *)
(***************************************************************************)
LEMMA SeedJobs ==
    ASSUME SeedingAssumption, NEW b \in Posted, NEW d \in {NoDeadline} \cup 0..MaxPolls
    PROVE  SeedJob(b, d) \in Jobs
BY DEF SeedingAssumption, SeedJob, Jobs

LEMMA ChunkJobs ==
    ASSUME SeedingAssumption, NEW b \in Posted, NEW n \in Nat
    PROVE  /\ ChunkJob(b, n) \in Jobs
           /\ ChunkJob(b, n).bundle = b /\ ChunkJob(b, n).chunk = n
BY DEF SeedingAssumption, ChunkJob, Jobs

LEMMA StartStep ==
    ASSUME SeedingAssumption, Inv, NEW j \in queue, getNextBundleAndDataItemsToSeedByPlanId(j)
    PROVE  Inv'
<1> USE DEF getNextBundleAndDataItemsToSeedByPlanId
<1>1. j \in Jobs /\ j.chunk = 0
  BY DEF Inv, Typed
<1>2. UNCHANGED <<rowVars, networkVars, sending, staged>>
  OBVIOUS
<1>3. CASE Start(j) /\ (seeding' = seeding \/ seeding' = seeding \cup {Seeding(j, "gate", 1)})
  <2>1. Keeps
    BY <1>1, <1>2, <1>3 DEF Keeps, Known, Live, Start, networkVars
  <2>2. Typed'
    BY <1>1, <1>2, <1>3 DEF Inv, Typed, Start, Seeding, SeedSteps, rowVars, SeedingAssumption, Jobs
  <2>3. DeletesTaken'
    BY <1>2 DEF Inv, DeletesTaken, networkVars
  <2>4. \A e \in seeding' : e \in seeding \/ Done(e)'
    BY <1>3 DEF Done, Seeding
  <2> QED BY <1>2, <2>1, <2>2, <2>3, <2>4, Carried DEF rowVars
<1>4. CASE Throw(queue \ {j}, j) /\ UNCHANGED seeding
  <2>0. queue' \subseteq Jobs /\ spent' \subseteq Jobs /\ queue \ {j} \subseteq queue' /\ spent \subseteq spent'
    BY <1>1, <1>4, ThrownJobStays DEF Inv, Typed
  <2>1. Keeps
    BY <1>1, <1>2, <2>0 DEF Keeps, Known, Live, networkVars
  <2>2. Typed'
    BY <1>2, <1>4, <2>0 DEF Inv, Typed, rowVars
  <2>3. DeletesTaken'
    BY <1>2 DEF Inv, DeletesTaken, networkVars
  <2> QED BY <1>2, <1>4, <2>1, <2>2, <2>3, Carried DEF rowVars
<1> QED BY <1>3, <1>4

LEMMA GateStep ==
    ASSUME SeedingAssumption, Inv, NEW e \in seeding, GateProceeds(e)
    PROVE  Inv'
<1> USE DEF GateProceeds, Goto
<1>1. UNCHANGED <<rowVars, networkVars, queueVars, sending, staged>>
  OBVIOUS
<1>2. Keeps
  BY <1>1 DEF Keeps, Known, Live, networkVars, queueVars
<1>3. Typed'
  BY <1>1 DEF Inv, Typed, Seeding, SeedSteps, rowVars, queueVars, SeedingAssumption, Jobs
<1>4. DeletesTaken'
  BY <1>1 DEF Inv, DeletesTaken, networkVars
<1>5. \A f \in seeding' : f \in seeding \/ Done(f)'
  BY DEF Done, Seeding
<1> QED BY <1>1, <1>2, <1>3, <1>4, <1>5, Carried DEF rowVars

LEMMA RequeueStep ==
    ASSUME SeedingAssumption, Inv, NEW e \in seeding, GateRequeues(e)
    PROVE  Inv'
<1> USE DEF GateRequeues, End
<1>1. UNCHANGED <<rowVars, networkVars, sending, staged>>
  OBVIOUS
<1>2. seeding' = seeding \ {e} /\ e.job \in Jobs
  BY DEF Inv, Typed
<1>3. PICK d \in Remaining(e) \ {0} :
        LET again == queue \cup {SeedJob(e.job.bundle, d - 1)} IN
        (queue' = again /\ UNCHANGED spent) \/ Throw(again, e.job)
  OBVIOUS
<1>4. d - 1 \in {NoDeadline} \cup 0..MaxPolls
  BY <1>2, <1>3 DEF Remaining, Jobs, SeedingAssumption
<1> DEFINE again == queue \cup {SeedJob(e.job.bundle, d - 1)}
<1>5. again \subseteq Jobs /\ queue \subseteq again
  BY <1>2, <1>4, SeedJobs DEF Inv, Typed, Jobs
<1>6. queue' \subseteq Jobs /\ spent' \subseteq Jobs /\ queue \subseteq queue' /\ spent \subseteq spent'
  <2>1. CASE queue' = again /\ UNCHANGED spent
    BY <1>5, <2>1 DEF Inv, Typed
  <2>2. CASE Throw(again, e.job)
    <3> HIDE DEF again
    <3> QED BY <1>2, <1>5, <2>2, ThrownJobStays DEF Inv
  <2> QED BY <1>3, <2>1, <2>2
<1>7. Keeps
  BY <1>1, <1>6 DEF Keeps, Known, Live, networkVars
<1>8. Typed'
  BY <1>1, <1>2, <1>6 DEF Inv, Typed, rowVars
<1>9. DeletesTaken'
  BY <1>1 DEF Inv, DeletesTaken, networkVars
<1> QED BY <1>1, <1>2, <1>7, <1>8, <1>9, Carried DEF rowVars

LEMMA PutStep ==
    ASSUME SeedingAssumption, Inv, NEW e \in seeding, putChunkIntoObjectStore(e)
    PROVE  Inv'
<1> USE DEF putChunkIntoObjectStore, Goto
<1>1. /\ UNCHANGED <<rowVars, networkVars, queueVars, sending>>
      /\ staged' = staged \cup {Chunk(e.job.bundle, e.n)}
  OBVIOUS
<1>2. Keeps
  BY <1>1 DEF Keeps, Known, Live, networkVars, queueVars
<1>3. Typed'
  BY <1>1 DEF Inv, Typed, Seeding, SeedSteps, rowVars, queueVars
<1>4. DeletesTaken'
  BY <1>1 DEF Inv, DeletesTaken, networkVars
<1> DEFINE new == Seeding(e.job, "enqueue", e.n)
<1>5. Done(new)'
  <2>1. \A m \in Nat \ {0} : m < e.n => Safe(e.job.bundle, m)'
    BY <1>2, SafeStays DEF Inv, DoneAll, Done
  <2> QED BY <1>1, <2>1 DEF Done, Seeding, Chunk
<1>6. \A f \in seeding' : f \in seeding \/ Done(f)'
  <2> HIDE DEF new
  <2>1. seeding' = (seeding \ {e}) \cup {new}
    BY DEF new
  <2> QED BY <2>1, <1>5
<1> QED BY <1>1, <1>2, <1>3, <1>4, <1>6, Carried DEF rowVars

LEMMA EnqueueStep ==
    ASSUME SeedingAssumption, Inv, NEW e \in seeding, enqueueBroadcastChunks(e)
    PROVE  Inv'
<1> USE DEF enqueueBroadcastChunks, Goto, At
<1> DEFINE b == e.job.bundle
           job == ChunkJob(b, e.n)
           new == IF e.n < ChunksOf[b] THEN Seeding(e.job, "put", e.n + 1)
                                       ELSE Seeding(e.job, "insert", e.n)
<1>1. /\ UNCHANGED <<rowVars, networkVars, spent, sending, staged>>
      /\ queue' = queue \cup {job} /\ seeding' = (seeding \ {e}) \cup {new}
  OBVIOUS
<1>2. /\ b \in Posted /\ e.n \in Nat \ {0} /\ e.job \in Jobs /\ e.n <= ChunksOf[b]
      /\ ChunksOf[b] \in Nat \ {0}
  BY DEF Inv, Typed, Jobs, SeedingAssumption
<1>3. job \in Jobs /\ job.bundle = b /\ job.chunk = e.n
  BY <1>2, ChunkJobs
<1>4. Keeps
  BY <1>1 DEF Keeps, Known, Live, networkVars
<1>5. new \in [job : Jobs, step : SeedSteps, n : Nat \ {0}] /\ new.n <= ChunksOf[new.job.bundle]
  BY <1>2 DEF Seeding, SeedSteps
<1>6. Done(new)'
  <2>1. \A m \in Nat \ {0} : m < e.n => Safe(b, m)'
    BY <1>4, SafeStays DEF Inv, DoneAll, Done
  <2>2. Safe(b, e.n)'
    <3>1. <<b, e.n>> \in taken' \cup staged'
      BY <1>1 DEF Inv, DoneAll, Done, networkVars
    <3>2. HasJob(b, e.n)'
      <4> HIDE DEF job, b
      <4> QED BY <1>1, <1>3 DEF HasJob, Known, Live
    <3> QED BY <3>1, <3>2 DEF Safe
  <2>3. CASE e.n < ChunksOf[b]
    <3>1. new = Seeding(e.job, "put", e.n + 1)
      BY <2>3
    <3> HIDE DEF new
    <3> QED BY <1>2, <2>1, <2>2, <3>1 DEF Done, Seeding
  <2>4. CASE ~(e.n < ChunksOf[b])
    <3>1. new = Seeding(e.job, "insert", e.n) /\ e.n = ChunksOf[b]
      BY <1>2, <2>4
    <3> HIDE DEF new
    <3> QED BY <1>2, <2>1, <2>2, <3>1 DEF Done, Seeding
  <2> QED BY <2>3, <2>4
<1> HIDE DEF new, job
<1>7. Typed'
  BY <1>1, <1>3, <1>5 DEF Inv, Typed, rowVars
<1>8. DeletesTaken'
  BY <1>1 DEF Inv, DeletesTaken, networkVars
<1> QED BY <1>1, <1>4, <1>6, <1>7, <1>8, Carried DEF rowVars

LEMMA InsertStep ==
    ASSUME SeedingAssumption, Inv, NEW e \in seeding, insertSeededBundle(e)
    PROVE  Inv'
<1> USE DEF insertSeededBundle, End, At
<1>1. UNCHANGED <<networkVars, sending, staged>> /\ seeding' = seeding \ {e}
  OBVIOUS
<1>2. /\ e.job \in Jobs /\ e.job.bundle \in Posted
      /\ e.n = ChunksOf[e.job.bundle] /\ Safe(e.job.bundle, e.n)
  BY DEF Inv, Typed, DoneAll, Done, Jobs
<1>3. queue' \subseteq Jobs /\ spent' \subseteq Jobs /\ queue \subseteq queue' /\ spent \subseteq spent'
  <2>1. CASE UNCHANGED queueVars
    BY <2>1 DEF Inv, Typed, queueVars
  <2>2. CASE Throw(queue, e.job)
    BY <1>2, <2>2, ThrownJobStays DEF Inv, Typed
  <2> QED BY <2>1, <2>2
<1>4. Keeps
  BY <1>1, <1>3 DEF Keeps, Known, Live, networkVars
<1>5. row' \in [Posted -> {"posted", "seeded", "failed"}]
  BY DEF Inv, Typed
<1>6. Typed'
  BY <1>1, <1>3, <1>5 DEF Inv, Typed
<1>7. DeletesTaken'
  BY <1>1 DEF Inv, DeletesTaken, networkVars
<1>8. \A n \in 1..ChunksOf[e.job.bundle] : Safe(e.job.bundle, n)
  <2> SUFFICES ASSUME NEW n \in 1..ChunksOf[e.job.bundle] PROVE Safe(e.job.bundle, n)
    OBVIOUS
  <2>1. ChunksOf[e.job.bundle] \in Nat \ {0} /\ Done(e)
    BY <1>2 DEF SeedingAssumption, Inv, DoneAll
  <2>2. n \in Nat \ {0} /\ (n < e.n \/ n = e.n)
    BY <1>2, <2>1
  <2> QED BY <1>2, <2>1, <2>2 DEF Done
<1>9. \A b \in Posted : row'[b] = "seeded" =>
          row[b] = "seeded" \/ \A n \in 1..ChunksOf[b] : Safe(b, n)
  BY <1>8 DEF Inv, Typed
<1> QED BY <1>1, <1>4, <1>6, <1>7, <1>9, Carried

LEMMA SeedFailsStep ==
    ASSUME SeedingAssumption, Inv, NEW e \in seeding, SeedFails(e)
    PROVE  Inv'
<1> USE DEF SeedFails, End
<1>1. UNCHANGED <<rowVars, networkVars, sending, staged>> /\ seeding' \subseteq seeding
  OBVIOUS
<1>2. e.job \in Jobs
  BY DEF Inv, Typed
<1>3. queue' \subseteq Jobs /\ spent' \subseteq Jobs /\ queue \subseteq queue' /\ spent \subseteq spent'
  <2>1. CASE queue' = queue \cup {e.job} /\ UNCHANGED spent
    BY <1>2, <2>1 DEF Inv, Typed
  <2>2. CASE Throw(queue, e.job)
    BY <1>2, <2>2, ThrownJobStays DEF Inv, Typed
  <2> QED BY <2>1, <2>2
<1>4. Keeps
  BY <1>1, <1>3 DEF Keeps, Known, Live, networkVars
<1>5. Typed'
  BY <1>1, <1>3 DEF Inv, Typed, rowVars
<1>6. DeletesTaken'
  BY <1>1 DEF Inv, DeletesTaken, networkVars
<1> QED BY <1>1, <1>4, <1>5, <1>6, Carried DEF rowVars

(***************************************************************************)
(* broadcastChunkHandler, and the others.                                  *)
(***************************************************************************)
LEMMA GetChunkStep ==
    ASSUME SeedingAssumption, Inv, NEW j \in queue, getChunkFromObjectStore(j)
    PROVE  Inv'
<1> USE DEF getChunkFromObjectStore
<1>1. UNCHANGED <<rowVars, networkVars, seeding, staged>> /\ j \in Jobs
  BY DEF Inv, Typed
<1>2. CASE Start(j) /\ sending' = sending \cup {Execution(j, "post")}
  <2>1. Keeps
    <3>1. \A e \in sending : e \in sending'
      BY <1>2
    <3>2. Execution(j, "post") \in sending' /\ Execution(j, "post").job = j
      BY <1>2 DEF Execution
    <3>3. Known \subseteq Known'
      BY <1>2, <3>1, <3>2 DEF Known, Live, Start
    <3> QED BY <1>1, <3>3 DEF Keeps, networkVars
  <2>2. Typed'
    BY <1>1, <1>2 DEF Inv, Typed, Start, Execution, rowVars
  <2>3. DeletesTaken'
    BY <1>1, <1>2 DEF Inv, DeletesTaken, Execution, networkVars
  <2> QED BY <1>1, <2>1, <2>2, <2>3, Carried DEF rowVars
<1>3. CASE Throw(queue \ {j}, j) /\ UNCHANGED sending
  <2>1. /\ queue' \subseteq Jobs /\ spent' \subseteq Jobs
        /\ queue \ {j} \subseteq queue' /\ spent \subseteq spent'
        /\ \E k \in queue' \cup spent' : k.bundle = j.bundle /\ k.chunk = j.chunk
    BY <1>1, <1>3, ThrownJobStays DEF Inv, Typed
  <2>2. Keeps
    BY <1>1, <1>3, <2>1 DEF Keeps, Known, Live, networkVars
  <2>3. Typed'
    BY <1>1, <1>3, <2>1 DEF Inv, Typed, rowVars
  <2>4. DeletesTaken'
    BY <1>1, <1>3 DEF Inv, DeletesTaken, networkVars
  <2> QED BY <1>1, <2>2, <2>3, <2>4, Carried DEF rowVars
<1> QED BY <1>2, <1>3

LEMMA BroadcastStep ==
    ASSUME SeedingAssumption, Inv, NEW e \in sending, broadcastChunkToArioNode(e)
    PROVE  Inv'
<1> USE DEF broadcastChunkToArioNode
<1>1. /\ UNCHANGED <<rowVars, seeding, staged>> /\ taken \subseteq taken'
      /\ e.job \in Jobs
  BY DEF Inv, Typed
<1>2. CASE Becomes(e, "delete") /\ UNCHANGED queueVars /\ Key(e.job) \in taken'
  <2>1. sending' = (sending \ {e}) \cup {Execution(e.job, "delete")}
    BY <1>2 DEF Becomes
  <2>2. Known \subseteq Known'
    <3> DEFINE new == Execution(e.job, "delete")
    <3>1. new.job = e.job BY DEF Execution
    <3>2. sending' = (sending \ {e}) \cup {new} BY <2>1
    <3> HIDE DEF new
    <3>3. \A f \in sending : \E g \in sending' : g.job = f.job BY <3>1, <3>2
    <3> QED BY <1>2, <3>3 DEF Known, Live, queueVars
  <2>3. Keeps
    BY <1>1, <2>2 DEF Keeps
  <2>4. Typed'
    BY <1>1, <1>2, <2>1 DEF Inv, Typed, Execution, rowVars, queueVars
  <2>5. DeletesTaken'
    BY <1>1, <1>2, <2>1 DEF Inv, DeletesTaken, Execution
  <2> QED BY <1>1, <2>3, <2>4, <2>5, Carried DEF rowVars
<1>3. CASE sending' = sending \ {e} /\ Throw(queue, e.job)
  <2>1. /\ queue' \subseteq Jobs /\ spent' \subseteq Jobs
        /\ queue \subseteq queue' /\ spent \subseteq spent'
        /\ \E k \in queue' \cup spent' : k.bundle = e.job.bundle /\ k.chunk = e.job.chunk
    BY <1>1, <1>3, ThrownJobStays DEF Inv, Typed
  <2>2. Keeps
    BY <1>1, <1>3, <2>1 DEF Keeps, Known, Live
  <2>3. Typed'
    BY <1>1, <1>3, <2>1 DEF Inv, Typed, rowVars
  <2>4. DeletesTaken'
    BY <1>1, <1>3 DEF Inv, DeletesTaken
  <2> QED BY <1>1, <2>2, <2>3, <2>4, Carried DEF rowVars
<1> QED BY <1>2, <1>3

LEMMA DeleteStep ==
    ASSUME SeedingAssumption, Inv, NEW e \in sending, deleteChunkFromObjectStore(e)
    PROVE  Inv'
<1> USE DEF deleteChunkFromObjectStore
<1>1. /\ UNCHANGED <<rowVars, networkVars, queueVars, seeding>> /\ sending' = sending \ {e}
      /\ staged \subseteq staged' \cup {Key(e.job)}
  OBVIOUS
<1>2. Key(e.job) \in taken'
  BY <1>1 DEF Inv, DeletesTaken, networkVars
<1>3. Keeps
  BY <1>1, <1>2 DEF Keeps, Known, Live, Key, Chunk, networkVars, queueVars
<1>4. Typed'
  BY <1>1 DEF Inv, Typed, rowVars, queueVars
<1>5. DeletesTaken'
  BY <1>1 DEF Inv, DeletesTaken, networkVars
<1> QED BY <1>1, <1>3, <1>4, <1>5, Carried DEF rowVars

LEMMA StallStep ==
    ASSUME SeedingAssumption, Inv, NEW e \in sending, BroadcastStalls(e)
    PROVE  Inv'
<1> USE DEF BroadcastStalls
<1>1. /\ UNCHANGED <<rowVars, networkVars, seeding, staged, spent>>
      /\ queue' = queue \cup {e.job} /\ sending' \in {sending, sending \ {e}}
  OBVIOUS
<1>2. Keeps
  BY <1>1 DEF Keeps, Known, Live, networkVars
<1>3. Typed'
  BY <1>1 DEF Inv, Typed, rowVars
<1>4. DeletesTaken'
  BY <1>1 DEF Inv, DeletesTaken, networkVars
<1> QED BY <1>1, <1>2, <1>3, <1>4, Carried DEF rowVars

LEMMA RedriveStep ==
    ASSUME SeedingAssumption, Inv, NEW b \in Posted, redrivePostedHandler(b)
    PROVE  Inv'
<1> USE DEF redrivePostedHandler
<1>1. /\ UNCHANGED <<networkVars, seeding, sending, staged, spent>>
      /\ row' \in [Posted -> {"posted", "seeded", "failed"}]
      /\ \A c \in Posted : row'[c] = "seeded" => row[c] = "seeded"
  BY DEF Inv, Typed
<1>2. queue \subseteq queue' /\ queue' \subseteq Jobs
  BY SeedJobs DEF Inv, Typed
<1>3. Keeps
  BY <1>1, <1>2 DEF Keeps, Known, Live, networkVars
<1>4. Typed'
  BY <1>1, <1>2 DEF Inv, Typed
<1>5. DeletesTaken'
  BY <1>1 DEF Inv, DeletesTaken, networkVars
<1> QED BY <1>1, <1>3, <1>4, <1>5, Carried

\* A step of the network, and one in which nothing happens.
LEMMA OtherStep ==
    ASSUME SeedingAssumption, Inv,
           UNCHANGED <<rowVars, taken, queueVars, seeding, sending, staged>>
    PROVE  Inv'
<1>1. Keeps BY DEF Keeps, Known, Live, queueVars
<1>2. Typed' BY DEF Inv, Typed, rowVars, queueVars
<1>3. DeletesTaken' BY DEF Inv, DeletesTaken
<1> QED BY <1>1, <1>2, <1>3, Carried DEF rowVars

(***************************************************************************)
(* The theorem.                                                            *)
(***************************************************************************)
LEMMA InvInit == ASSUME SeedingAssumption, SeedingInit PROVE Inv
<1>1. PICK through \in SUBSET Posted :
        /\ row = [b \in Posted |-> IF b \in through THEN "seeded" ELSE "posted"]
        /\ taken = UNION {ChunksIn(b) : b \in through}
        /\ queue = {SeedJob(b, NoDeadline) : b \in Posted \ through} /\ spent = {}
        /\ seeding = {} /\ sending = {}
  BY DEF SeedingInit
<1>2. Typed
  BY <1>1, SeedJobs DEF Typed
<1>3. SeededSafe
  <2> SUFFICES ASSUME NEW b \in Posted, row[b] = "seeded", NEW n \in 1..ChunksOf[b]
               PROVE  Safe(b, n)
    BY DEF SeededSafe
  <2>1. b \in through BY <1>1
  <2>2. <<b, n>> \in ChunksIn(b) BY DEF ChunksIn, Chunk
  <2> QED BY <1>1, <2>1, <2>2 DEF Safe
<1> QED BY <1>1, <1>2, <1>3 DEF Inv, DoneAll, DeletesTaken

LEMMA InvNext == ASSUME SeedingAssumption, Inv, [SeedingNext]_seedingVars PROVE Inv'
<1>1. CASE StartSeed
  BY <1>1, StartStep DEF StartSeed
<1>2. CASE SeedStep
  BY <1>2, GateStep, RequeueStep, PutStep, EnqueueStep, InsertStep DEF SeedStep
<1>3. CASE \E e \in seeding : SeedFails(e)
  BY <1>3, SeedFailsStep
<1>4. CASE \E b \in Posted : \E c \in ChunksIn(b) : ChunkStep(c)
  BY <1>4, GetChunkStep, BroadcastStep, DeleteStep DEF ChunkStep
<1>5. CASE \E e \in sending : BroadcastStalls(e)
  BY <1>5, StallStep
<1>6. CASE \E b \in Posted : redrivePostedHandler(b) \/ Network(b)
  BY <1>6, RedriveStep, OtherStep DEF Network
<1>7. CASE UNCHANGED seedingVars
  BY <1>7, OtherStep DEF seedingVars, networkVars
<1> QED BY <1>1, <1>2, <1>3, <1>4, <1>5, <1>6, <1>7 DEF SeedingNext

\* What is safe by bundle and number is safe as a chunk.
LEMMA InvKept == ASSUME Inv PROVE ChunksKept
<1> SUFFICES ASSUME NEW b \in Posted, row[b] = "seeded", NEW n \in 1..ChunksOf[b]
             PROVE  \/ Chunk(b, n) \in taken
                    \/ Chunk(b, n) \in staged /\ \E j \in Known : Key(j) = Chunk(b, n)
  BY DEF ChunksKept, ChunksIn, Known
<1>1. Safe(b, n) BY DEF Inv, SeededSafe
<1> QED BY <1>1 DEF Safe, HasJob, Key, Chunk, Known

\* The bytes of a chunk of a bundle that counts as seeded stay in the object store until a
\* node has taken it, however many seed runs and jobs of one chunk share them and delete
\* them (broadcastChunkHandler, seedBundleHandler); a job has the chunk, unless one was
\* tried for the last time.
THEOREM ChunksKeptAlways == SeedingSpec => []ChunksKept
<1>1. SeedingInit => Inv BY SeedingAssumption, InvInit
<1>2. Inv /\ [SeedingNext]_seedingVars => Inv' BY SeedingAssumption, InvNext
<1>3. Inv => ChunksKept BY InvKept
<1> QED BY <1>1, <1>2, <1>3, PTL DEF SeedingSpec

(***************************************************************************)
(* Chunks are given up only where nobody had confirmed the transaction:    *)
(* past the gate it is mined, so a chunk job throws only when something    *)
(* goes wrong, and it has more attempts than that happens.                 *)
(***************************************************************************)
Waiting == queue \cup {e.job : e \in sending}
Present(j) == Key(j) \in staged \cup taken
Excused(j) == j.bundle \in unconfirmed \/ Key(j) \in taken
HasChance(j) == Excused(j) \/ (tx[j.bundle] = "mined" /\ j.left + troubles >= Tries)
PastGate(e) == e.job.bundle \in unconfirmed \/ tx[e.job.bundle] = "mined"

Chances ==
    /\ tx \in [Posted -> {"posted", "known", "mined"}] /\ troubles \in Nat
    /\ \A e \in seeding : e.job.chunk = 0 /\ (e.step = "gate" \/ PastGate(e))
    /\ \A j \in Waiting : j.chunk # 0 => HasChance(j) /\ Present(j)
    /\ \A j \in spent : j.chunk # 0 => Excused(j)

Grows ==
    /\ unconfirmed \subseteq unconfirmed' /\ taken \subseteq taken'
    /\ staged \subseteq staged' \cup taken'
    /\ troubles' \in Nat /\ troubles <= troubles'
    /\ tx' \in [Posted -> {"posted", "known", "mined"}]
    /\ \A b \in Posted : tx[b] = "mined" => tx'[b] = "mined"

\* What is left to show of a step: the executions and jobs it brings in.
LEMMA ChancesCarried ==
    ASSUME SeedingAssumption, Typed, Chances, Grows,
           \A e \in seeding' : \/ e \in seeding
                               \/ e.job.chunk = 0 /\ (e.step = "gate" \/ PastGate(e)'),
           \A j \in Waiting' : j \in Waiting \/ j.chunk = 0 \/ (HasChance(j)' /\ Present(j)'),
           \A j \in spent' : j \in spent \/ j.chunk = 0 \/ Excused(j)'
    PROVE  Chances'
<1>1. \A e \in seeding' : e.job.chunk = 0 /\ (e.step = "gate" \/ PastGate(e)')
  <2> SUFFICES ASSUME NEW e \in seeding
               PROVE  e.job.chunk = 0 /\ (e.step = "gate" \/ PastGate(e)')
    OBVIOUS
  <2>1. e.job.bundle \in Posted BY DEF Typed, Jobs
  <2> QED BY <2>1 DEF Chances, Grows, PastGate
<1>2. \A j \in Waiting' : j.chunk # 0 => HasChance(j)' /\ Present(j)'
  <2> SUFFICES ASSUME NEW j \in Waiting, j.chunk # 0 PROVE HasChance(j)' /\ Present(j)'
    OBVIOUS
  <2>1. j \in Jobs BY DEF Typed, Waiting
  <2>2. j.bundle \in Posted /\ j.left \in Nat /\ Tries \in Nat
    BY <2>1 DEF Jobs, SeedingAssumption
  <2>3. HasChance(j)'
    <3>1. HasChance(j) BY DEF Chances
    <3>2. CASE Excused(j)
      BY <3>2 DEF Excused, Grows, HasChance, Key, Chunk
    <3>3. CASE tx[j.bundle] = "mined" /\ j.left + troubles >= Tries
      <4>1. troubles \in Nat BY DEF Chances
      <4>2. j.left + troubles' >= Tries BY <2>2, <3>3, <4>1 DEF Grows
      <4> QED BY <2>2, <3>3, <4>2 DEF Grows, HasChance
    <3> QED BY <3>1, <3>2, <3>3 DEF HasChance
  <2>4. Present(j)' BY DEF Chances, Grows, Present, Key, Chunk
  <2> QED BY <2>3, <2>4
<1>3. \A j \in spent' : j.chunk # 0 => Excused(j)'
  BY DEF Chances, Grows, Excused, Key, Chunk
<1> QED BY <1>1, <1>2, <1>3 DEF Chances, Grows

\* What throwing does to a job.
LEMMA ThrownJob ==
    ASSUME SeedingAssumption, NEW W, NEW j \in Jobs, Throw(W, j)
    PROVE  /\ \A k \in queue' : \/ k \in W
                                \/ /\ k.bundle = j.bundle /\ k.chunk = j.chunk
                                   /\ j.left > 1 /\ k.left = j.left - 1
           /\ \A k \in spent' : k \in spent \/ (k = j /\ j.left = 1)
<1>1. j.left \in 1..Tries /\ Tries \in Nat
  BY DEF SeedingAssumption, Jobs
<1>2. CASE j.left = 1
  BY <1>2 DEF Throw, Retry, Exhausted
<1>3. CASE j.left > 1
  <2> DEFINE k == [j EXCEPT !.left = j.left - 1]
  <2>1. queue' = W \cup {k} /\ spent' = spent
    BY <1>1, <1>3 DEF Throw, Retry, Exhausted
  <2>2. k.bundle = j.bundle /\ k.chunk = j.chunk /\ k.left = j.left - 1
    BY <1>1, <1>3 DEF Jobs
  <2> HIDE DEF k
  <2> QED BY <1>3, <2>1, <2>2
<1> QED BY <1>1, <1>2, <1>3

LEMMA ChancesStart ==
    ASSUME SeedingAssumption, Inv, Chances, NEW j \in queue,
           getNextBundleAndDataItemsToSeedByPlanId(j)
    PROVE  Chances'
<1> USE DEF getNextBundleAndDataItemsToSeedByPlanId
<1>1. /\ UNCHANGED <<networkVars, sending, staged, unconfirmed, troubles>>
      /\ j \in Jobs /\ j.chunk = 0
  BY DEF Inv, Typed, NoTrouble
<1>2. Grows BY <1>1 DEF Grows, Chances, networkVars
<1>3. \A e \in seeding' : e \in seeding \/ (e.job.chunk = 0 /\ e.step = "gate")
  BY <1>1 DEF Seeding
<1>4. /\ \A k \in queue' : k \in queue \/ k.chunk = 0
      /\ \A k \in spent' : k \in spent \/ k.chunk = 0
  <2>1. CASE Start(j) BY <2>1 DEF Start
  <2>2. CASE Throw(queue \ {j}, j) BY <1>1, <2>2, ThrownJob
  <2> QED BY <2>1, <2>2
<1>5. \A k \in Waiting' : k \in Waiting \/ k.chunk = 0
  BY <1>1, <1>4 DEF Waiting
<1> QED BY <1>2, <1>3, <1>4, <1>5, ChancesCarried DEF Inv

LEMMA ChancesGate ==
    ASSUME SeedingAssumption, Inv, Chances, NEW e \in seeding, GateProceeds(e)
    PROVE  Chances'
<1> USE DEF GateProceeds, Goto
<1>1. UNCHANGED <<networkVars, queueVars, sending, staged, troubles>>
  BY DEF NoTrouble
<1>2. unconfirmed \subseteq unconfirmed' /\ PastGate(e)'
  BY <1>1 DEF GateOff, GateCapReached, GateConfirmed, PastGate, networkVars
<1>3. Grows BY <1>1, <1>2 DEF Grows, Chances, networkVars
<1>4. \A f \in seeding' : f \in seeding \/ (f.job.chunk = 0 /\ PastGate(f)')
  <2>1. Seeding(e.job, "put", 1).job = e.job /\ e.job.chunk = 0
    BY DEF Seeding, Chances
  <2> QED BY <1>2, <2>1 DEF PastGate
<1>5. Waiting' = Waiting /\ spent' = spent BY <1>1 DEF Waiting, queueVars
<1> QED BY <1>3, <1>4, <1>5, ChancesCarried DEF Inv

LEMMA ChancesRequeue ==
    ASSUME SeedingAssumption, Inv, Chances, NEW e \in seeding, GateRequeues(e)
    PROVE  Chances'
<1> USE DEF GateRequeues, End
<1>1. /\ UNCHANGED <<networkVars, sending, staged, unconfirmed>>
      /\ troubles' \in Nat /\ troubles <= troubles'
      /\ seeding' \subseteq seeding /\ e.job \in Jobs /\ e.job.chunk = 0
  BY DEF Inv, Typed, Chances, NoTrouble, Trouble
<1>2. Grows BY <1>1 DEF Grows, Chances, networkVars
<1>3. PICK d \in Remaining(e) \ {0} :
        LET again == queue \cup {SeedJob(e.job.bundle, d - 1)} IN
        (queue' = again /\ UNCHANGED spent) \/ Throw(again, e.job)
  OBVIOUS
<1> DEFINE new == SeedJob(e.job.bundle, d - 1)
<1>4. new.chunk = 0 BY DEF SeedJob
<1> HIDE DEF new
<1>5. /\ \A k \in queue' : k \in queue \/ k.chunk = 0
      /\ \A k \in spent' : k \in spent \/ k.chunk = 0
  <2>1. CASE queue' = queue \cup {new} /\ UNCHANGED spent BY <1>4, <2>1
  <2>2. CASE Throw(queue \cup {new}, e.job) BY <1>1, <1>4, <2>2, ThrownJob
  <2> QED BY <1>3, <2>1, <2>2 DEF new
<1>6. \A k \in Waiting' : k \in Waiting \/ k.chunk = 0
  BY <1>1, <1>5 DEF Waiting
<1> QED BY <1>1, <1>2, <1>5, <1>6, ChancesCarried DEF Inv

LEMMA ChancesPut ==
    ASSUME SeedingAssumption, Inv, Chances, NEW e \in seeding, putChunkIntoObjectStore(e)
    PROVE  Chances'
<1> USE DEF putChunkIntoObjectStore, Goto
<1>1. /\ UNCHANGED <<networkVars, queueVars, sending, unconfirmed, troubles>>
      /\ staged \subseteq staged'
  BY DEF NoTrouble
<1>2. Grows BY <1>1 DEF Grows, Chances, networkVars
<1>3. \A f \in seeding' : f \in seeding \/ (f.job.chunk = 0 /\ PastGate(f)')
  <2>1. Seeding(e.job, "enqueue", e.n).job = e.job BY DEF Seeding
  <2>2. e.job.chunk = 0 /\ PastGate(e) BY DEF Chances, At
  <2> QED BY <1>1, <2>1, <2>2 DEF PastGate, networkVars
<1>4. Waiting' = Waiting /\ spent' = spent BY <1>1 DEF Waiting, queueVars
<1> QED BY <1>2, <1>3, <1>4, ChancesCarried DEF Inv

LEMMA ChancesEnqueue ==
    ASSUME SeedingAssumption, Inv, Chances, NEW e \in seeding, enqueueBroadcastChunks(e)
    PROVE  Chances'
<1> USE DEF enqueueBroadcastChunks, Goto, At
<1> DEFINE job == ChunkJob(e.job.bundle, e.n)
           new == IF e.n < ChunksOf[e.job.bundle] THEN Seeding(e.job, "put", e.n + 1)
                                                  ELSE Seeding(e.job, "insert", e.n)
<1>1. /\ UNCHANGED <<networkVars, spent, sending, staged, unconfirmed, troubles>>
      /\ queue' = queue \cup {job} /\ seeding' = (seeding \ {e}) \cup {new}
  BY DEF NoTrouble
<1>2. new.job = e.job /\ e.job.chunk = 0 /\ PastGate(e)
  BY DEF Chances, Seeding
<1>3. job.bundle = e.job.bundle /\ job.chunk = e.n /\ job.left = Tries
  BY DEF ChunkJob
<1> HIDE DEF job, new
<1>4. Grows BY <1>1 DEF Grows, Chances, networkVars
<1>5. \A f \in seeding' : f \in seeding \/ (f.job.chunk = 0 /\ PastGate(f)')
  BY <1>1, <1>2 DEF PastGate, networkVars
<1>6. HasChance(job)' /\ Present(job)'
  <2>1. job.left + troubles' >= Tries
    BY <1>1, <1>3 DEF SeedingAssumption, Chances
  <2>2. Key(job) \in staged \cup taken
    BY <1>3 DEF Key, Chunk, Inv, DoneAll, Done
  <2> QED BY <1>1, <1>2, <1>3, <2>1, <2>2
          DEF HasChance, Excused, Present, PastGate, networkVars
<1>7. \A j \in Waiting' : j \in Waiting \/ j = job
  BY <1>1 DEF Waiting
<1> QED BY <1>1, <1>4, <1>5, <1>6, <1>7, ChancesCarried DEF Inv

\* Seed runs that end, by the insert or by failing.
LEMMA ChancesEnd ==
    ASSUME SeedingAssumption, Inv, Chances, NEW e \in seeding,
           insertSeededBundle(e) \/ SeedFails(e)
    PROVE  Chances'
<1> USE DEF insertSeededBundle, SeedFails, End
<1>1. /\ UNCHANGED <<networkVars, sending, staged, unconfirmed>>
      /\ troubles' \in Nat /\ troubles <= troubles'
      /\ seeding' \subseteq seeding /\ e.job \in Jobs /\ e.job.chunk = 0
  BY DEF Inv, Typed, Chances, NoTrouble, Trouble
<1>2. Grows BY <1>1 DEF Grows, Chances, networkVars
<1>3. /\ \A k \in queue' : k \in queue \/ k.chunk = 0
      /\ \A k \in spent' : k \in spent \/ k.chunk = 0
  <2>1. CASE Throw(queue, e.job) BY <1>1, <2>1, ThrownJob
  <2>2. CASE queue' = queue \cup {e.job} /\ UNCHANGED spent BY <1>1, <2>2
  <2>3. CASE UNCHANGED queueVars BY <2>3 DEF queueVars
  <2> QED BY <2>1, <2>2, <2>3
<1>4. \A k \in Waiting' : k \in Waiting \/ k.chunk = 0
  BY <1>1, <1>3 DEF Waiting
<1> QED BY <1>1, <1>2, <1>3, <1>4, ChancesCarried DEF Inv

LEMMA ChancesGet ==
    ASSUME SeedingAssumption, Inv, Chances, NEW j \in queue, getChunkFromObjectStore(j)
    PROVE  Chances'
<1> USE DEF getChunkFromObjectStore
<1>1. UNCHANGED <<networkVars, seeding, staged, unconfirmed, troubles>> /\ j \in Jobs
  BY DEF Inv, Typed, NoTrouble
<1>2. Grows BY <1>1 DEF Grows, Chances, networkVars
<1>3. CASE Start(j) /\ sending' = sending \cup {Execution(j, "post")}
  <2>1. Execution(j, "post").job = j BY DEF Execution
  <2>2. \A k \in Waiting' : k \in Waiting
    BY <1>3, <2>1 DEF Waiting, Start
  <2> QED BY <1>1, <1>2, <1>3, <2>2, ChancesCarried DEF Inv, Start
<1>4. CASE Key(j) \notin staged /\ Throw(queue \ {j}, j) /\ UNCHANGED sending
  <2>1. Key(j) \in taken
    BY <1>4 DEF Chances, Present, Waiting
  <2>2. \A k \in queue' : k \in queue \/ (k.bundle = j.bundle /\ k.chunk = j.chunk)
    BY <1>1, <1>4, ThrownJob
  <2>3. \A k \in spent' : k \in spent \/ k = j
    BY <1>1, <1>4, ThrownJob
  <2>4. \A k \in Waiting' : k \in Waiting \/ (HasChance(k)' /\ Present(k)')
    BY <1>1, <1>4, <2>1, <2>2
       DEF Waiting, HasChance, Present, Excused, Key, Chunk, networkVars
  <2>5. \A k \in spent' : k \in spent \/ Excused(k)'
    BY <1>1, <2>1, <2>3 DEF Excused, Key, Chunk, networkVars
  <2> QED BY <1>1, <1>2, <2>4, <2>5, ChancesCarried DEF Inv
<1> QED BY <1>3, <1>4

\* A rejection costs nothing that matters: where it can happen, the job is excused.
LEMMA ChancesBroadcast ==
    ASSUME SeedingAssumption, MaxTroubles < Tries, Inv, Chances,
           NEW e \in sending, broadcastChunkToArioNode(e)
    PROVE  Chances'
<1> USE DEF broadcastChunkToArioNode
<1>1. /\ UNCHANGED <<tx, seeding, staged, unconfirmed>> /\ taken \subseteq taken'
      /\ troubles' \in Nat /\ troubles <= troubles'
      /\ e.job \in Jobs /\ e.job \in Waiting
  BY DEF Inv, Typed, Chances, NoTrouble, Trouble, Waiting
<1>2. Grows BY <1>1 DEF Grows, Chances
<1>3. CASE Becomes(e, "delete") /\ UNCHANGED queueVars
  <2>1. sending' = (sending \ {e}) \cup {Execution(e.job, "delete")}
    BY <1>3 DEF Becomes
  <2>2. Execution(e.job, "delete").job = e.job BY DEF Execution
  <2>3. \A k \in Waiting' : k \in Waiting
    BY <1>3, <2>1, <2>2 DEF Waiting, queueVars
  <2> QED BY <1>1, <1>2, <1>3, <2>3, ChancesCarried DEF Inv, queueVars
<1>4. CASE /\ sending' = sending \ {e} /\ Throw(queue, e.job)
           /\ (tx[e.job.bundle] = "posted" \/ Trouble)
  <2>1. /\ \A k \in queue' : \/ k \in queue
                             \/ /\ k.bundle = e.job.bundle /\ k.chunk = e.job.chunk
                                /\ e.job.left > 1 /\ k.left = e.job.left - 1
        /\ \A k \in spent' : k \in spent \/ (k = e.job /\ e.job.left = 1)
    BY <1>1, <1>4, ThrownJob
  <2>2. e.job.left \in Nat /\ Tries \in Nat /\ MaxTroubles \in Nat /\ troubles \in Nat
    BY <1>1 DEF Jobs, SeedingAssumption, Chances
  <2>3. e.job.chunk # 0 => Present(e.job) /\ HasChance(e.job)
    BY <1>1 DEF Chances
  <2>4. \A k \in queue' : k \in queue \/ k.chunk = 0 \/ (HasChance(k)' /\ Present(k)')
    <3> SUFFICES ASSUME NEW k \in queue', k \notin queue, k.chunk # 0
                 PROVE  HasChance(k)' /\ Present(k)'
      OBVIOUS
    <3>1. /\ k.bundle = e.job.bundle /\ k.chunk = e.job.chunk
          /\ e.job.left > 1 /\ k.left = e.job.left - 1
      BY <2>1
    <3>2. Present(k)' BY <1>2, <2>3, <3>1 DEF Present, Grows, Key, Chunk
    <3>3. CASE Excused(e.job)
      <4>1. Excused(k)' BY <1>2, <3>1, <3>3 DEF Excused, Grows, Key, Chunk
      <4> QED BY <3>2, <4>1 DEF HasChance
    <3>4. CASE ~Excused(e.job)
      <4>1. tx[e.job.bundle] = "mined" /\ e.job.left + troubles >= Tries
        BY <2>3, <3>1, <3>4 DEF HasChance
      <4>2. troubles' = troubles + 1
        BY <1>4, <4>1 DEF Trouble
      <4>3. k.left + troubles' >= Tries
        BY <2>2, <3>1, <4>1, <4>2
      <4>4. tx'[k.bundle] = "mined"
        BY <1>1, <3>1, <4>1
      <4> QED BY <3>2, <4>3, <4>4 DEF HasChance
    <3> QED BY <3>2, <3>3, <3>4
  <2>5. \A k \in spent' : k \in spent \/ k.chunk = 0 \/ Excused(k)'
    <3> SUFFICES ASSUME e.job.chunk # 0, e.job.left = 1 PROVE Excused(e.job)'
      BY <2>1
    <3>1. CASE Excused(e.job)
      BY <1>2, <3>1 DEF Excused, Grows, Key, Chunk
    <3>2. CASE ~Excused(e.job)
      <4>1. tx[e.job.bundle] = "mined" /\ e.job.left + troubles >= Tries
        BY <2>3, <3>2 DEF HasChance
      <4>2. troubles < MaxTroubles
        BY <1>4, <4>1 DEF Trouble
      <4> QED BY <2>2, <4>1, <4>2
    <3> QED BY <3>1, <3>2
  <2>6. \A k \in Waiting' : k \in Waiting \/ k.chunk = 0 \/ (HasChance(k)' /\ Present(k)')
    BY <1>4, <2>4 DEF Waiting
  <2> QED BY <1>1, <1>2, <2>5, <2>6, ChancesCarried DEF Inv
<1> QED BY <1>3, <1>4

\* SeedSteps that bring in no job of a chunk and no execution of seed.
LEMMA ChancesOther ==
    ASSUME SeedingAssumption, Inv, Chances, Grows, UNCHANGED <<seeding, spent>>,
           \A j \in Waiting' : j \in Waiting \/ j.chunk = 0
    PROVE  Chances'
BY ChancesCarried DEF Inv

LEMMA ChancesDelete ==
    ASSUME SeedingAssumption, Inv, Chances, NEW e \in sending, deleteChunkFromObjectStore(e)
    PROVE  Chances'
<1> USE DEF deleteChunkFromObjectStore
<1>1. /\ UNCHANGED <<networkVars, queueVars, seeding, unconfirmed>>
      /\ troubles' \in Nat /\ troubles <= troubles'
      /\ sending' \subseteq sending /\ staged \subseteq staged' \cup {Key(e.job)}
  BY DEF NoTrouble, Trouble, Chances
<1>2. Key(e.job) \in taken BY DEF Inv, DeletesTaken
<1>3. Grows BY <1>1, <1>2 DEF Grows, Chances, networkVars
<1>4. \A j \in Waiting' : j \in Waiting BY <1>1 DEF Waiting, queueVars
<1> QED BY <1>1, <1>3, <1>4, ChancesOther DEF queueVars

LEMMA ChancesStall ==
    ASSUME SeedingAssumption, Inv, Chances, NEW e \in sending, BroadcastStalls(e)
    PROVE  Chances'
<1> USE DEF BroadcastStalls
<1>1. /\ UNCHANGED <<networkVars, spent, seeding, staged, unconfirmed>>
      /\ troubles' \in Nat /\ troubles <= troubles'
      /\ sending' \subseteq sending /\ queue' = queue \cup {e.job}
  BY DEF Trouble, Chances
<1>2. Grows BY <1>1 DEF Grows, Chances, networkVars
<1>3. \A j \in Waiting' : j \in Waiting BY <1>1 DEF Waiting
<1> QED BY <1>1, <1>2, <1>3, ChancesOther

LEMMA ChancesRedrive ==
    ASSUME SeedingAssumption, Inv, Chances, NEW b \in Posted, redrivePostedHandler(b)
    PROVE  Chances'
<1> USE DEF redrivePostedHandler
<1>1. /\ UNCHANGED <<networkVars, spent, seeding, sending, staged, unconfirmed>>
      /\ troubles' \in Nat /\ troubles <= troubles'
      /\ queue' \subseteq queue \cup {SeedJob(b, NoDeadline)}
  BY DEF NoTrouble, Trouble, Chances
<1>2. SeedJob(b, NoDeadline).chunk = 0 BY DEF SeedJob
<1>3. Grows BY <1>1 DEF Grows, Chances, networkVars
<1>4. \A j \in Waiting' : j \in Waiting \/ j.chunk = 0 BY <1>1, <1>2 DEF Waiting
<1> QED BY <1>1, <1>3, <1>4, ChancesOther

LEMMA ChancesNetwork ==
    ASSUME SeedingAssumption, Inv, Chances, NEW b \in Posted, Network(b)
    PROVE  Chances'
<1>1. /\ UNCHANGED <<taken, queueVars, seeding, sending, staged, unconfirmed, troubles>>
  BY DEF Network
<1>2. /\ tx' \in [Posted -> {"posted", "known", "mined"}]
      /\ \A c \in Posted : tx[c] = "mined" => tx'[c] = "mined"
  BY DEF Network, Chances
<1>3. Grows BY <1>1, <1>2 DEF Grows, Chances
<1>4. \A j \in Waiting' : j \in Waiting BY <1>1 DEF Waiting, queueVars
<1> QED BY <1>1, <1>3, <1>4, ChancesOther DEF queueVars

LEMMA ChancesInit == ASSUME SeedingAssumption, SeedingInit PROVE Chances
<1>1. PICK through \in SUBSET Posted :
        /\ tx = [b \in Posted |-> IF b \in through THEN "mined" ELSE "posted"]
        /\ queue = {SeedJob(b, NoDeadline) : b \in Posted \ through} /\ spent = {}
        /\ seeding = {} /\ sending = {} /\ troubles = 0
  BY DEF SeedingInit
<1>2. \A j \in queue : j.chunk = 0 BY <1>1 DEF SeedJob
<1> QED BY <1>1, <1>2 DEF Chances, Waiting

LEMMA ChancesNext ==
    ASSUME SeedingAssumption, MaxTroubles < Tries, Inv, Chances, [SeedingNext]_seedingVars
    PROVE  Chances'
<1>1. CASE StartSeed
  BY <1>1, ChancesStart DEF StartSeed
<1>2. CASE SeedStep
  BY <1>2, ChancesGate, ChancesRequeue, ChancesPut, ChancesEnqueue, ChancesEnd DEF SeedStep
<1>3. CASE \E e \in seeding : SeedFails(e)
  BY <1>3, ChancesEnd
<1>4. CASE \E b \in Posted : \E c \in ChunksIn(b) : ChunkStep(c)
  BY <1>4, ChancesGet, ChancesBroadcast, ChancesDelete DEF ChunkStep
<1>5. CASE \E e \in sending : BroadcastStalls(e)
  BY <1>5, ChancesStall
<1>6. CASE \E b \in Posted : redrivePostedHandler(b) \/ Network(b)
  BY <1>6, ChancesRedrive, ChancesNetwork
<1>7. CASE UNCHANGED seedingVars
  <2>1. Grows BY <1>7 DEF seedingVars, networkVars, Grows, Chances
  <2>2. UNCHANGED <<seeding, spent, Waiting>>
    BY <1>7 DEF seedingVars, queueVars, Waiting
  <2> QED BY <2>1, <2>2, ChancesOther
<1> QED BY <1>1, <1>2, <1>3, <1>4, <1>5, <1>6, <1>7 DEF SeedingNext

\* When fewer things go wrong than a job has attempts, a chunk that no node has taken is
\* given up only where its bundle was staged without a confirmation: the gate keeps the
\* jobs of a confirmed bundle from being rejected (decideChunkBroadcastGate).
THEOREM GivenUpUnconfirmedAlways ==
    ASSUME MaxTroubles < Tries PROVE SeedingSpec => []GivenUpUnconfirmed
<1>1. SeedingInit => Inv /\ Chances BY SeedingAssumption, InvInit, ChancesInit
<1>2. Inv /\ Chances /\ [SeedingNext]_seedingVars => (Inv /\ Chances)'
  BY SeedingAssumption, InvNext, ChancesNext
<1>3. Chances => GivenUpUnconfirmed BY DEF Chances, Excused, GivenUpUnconfirmed
<1> QED BY <1>1, <1>2, <1>3, PTL DEF SeedingSpec

(***************************************************************************)
(* Types.                                                                  *)
(***************************************************************************)
SweepSteps == {"fetch", "payload", "raws", "next", "page"}
Progress == [step : SweepSteps, scan : Nat, last : Nat, full : BOOLEAN, keep : Nat,
             hole : BOOLEAN, dirty : BOOLEAN, missing : SUBSET Copied, raws : SUBSET Copied]
Stored == Copied \cup {BundleTx(b) : b \in Bundles}

\* Where a sweep may stand in the list of permanent bundles.
Placed(r) ==
    /\ r.last <= Len(permanent) /\ r.scan <= r.last
    /\ r.step \in {"payload", "raws", "next"} => r.scan < r.last /\ r.keep <= r.scan + 1
    /\ r.step \in {"fetch", "page"} => r.keep <= r.scan

Types ==
    /\ bundler \subseteq Stored /\ archive \in [Copied -> {None, "whole", "short"}]
    /\ jobs \in [Copied -> 0..Attempts] /\ copying \in SUBSET Copied
    /\ permanent \in Seq(Bundles) /\ cursor \in 0..Len(permanent)
    /\ faults \in 0..MaxFaults /\ shortened \in BOOLEAN
    /\ \A k \in copying : jobs[k] > 0
    /\ sweep \in [Sweeps -> Progress \cup {None}]
    /\ \A s \in Sweeps : sweep[s] # None => Placed(sweep[s])

LEMMA KeysAreStored ==
    /\ \A x \in Items : Raw(x) \in Copied
    /\ \A b \in Bundles : /\ Payload(b) \in Copied /\ BundleTx(b) \in Stored
                          /\ Raws(b) \subseteq Copied /\ Kept(b) \subseteq Copied
BY ArchiveAssumption DEF Raws, Kept, Copied, Stored

LEMMA EnqueueTypes ==
    ASSUME Types, NEW keys, enqueueArchiveCopy(keys)
    PROVE  /\ jobs' \in [Copied -> 0..Attempts] /\ faults' \in 0..MaxFaults
           /\ shortened' = shortened /\ \A k \in copying : jobs'[k] > 0
<1>1. Attempts \in 0..Attempts /\ Attempts > 0 /\ MaxFaults \in Nat
  BY ArchiveAssumption
<1>2. jobs' \in [Copied -> 0..Attempts]
  BY <1>1 DEF Types, enqueueArchiveCopy
<1>3. \A k \in copying : jobs'[k] > 0
  BY <1>1 DEF Types, enqueueArchiveCopy
<1> QED BY <1>1, <1>2, <1>3 DEF Types, enqueueArchiveCopy, Fault, NoFault, faultVars

LEMMA FaultTypes ==
    ASSUME Types, Fault
    PROVE  faults' \in 0..MaxFaults /\ shortened' \in BOOLEAN
BY ArchiveAssumption DEF Types, Fault

\* What a step does to the list of permanent bundles: nothing, or one more at its end.
LEMMA ListGrows ==
    ASSUME Types, NEW b \in Bundles, updateBundleAsPermanent(b)
    PROVE  /\ permanent' \in Seq(Bundles) /\ Len(permanent') = Len(permanent) + 1
           /\ \A n \in DOMAIN permanent : n \in DOMAIN permanent' /\ permanent'[n] = permanent[n]
           /\ \A n \in DOMAIN permanent' : permanent'[n] = b \/ n \in DOMAIN permanent
BY DEF Types, updateBundleAsPermanent

LEMMA InitTypes == Init => Types
<1> SUFFICES ASSUME Init PROVE Types
  OBVIOUS
<1>1. 0 \in 0..Attempts /\ 0 \in 0..MaxFaults
  BY ArchiveAssumption
<1>2. permanent \in Seq(Bundles) /\ cursor \in 0..Len(permanent)
  BY DEF Init
<1>3. /\ archive \in [Copied -> {None, "whole", "short"}] /\ jobs \in [Copied -> 0..Attempts]
      /\ sweep \in [Sweeps -> Progress \cup {None}]
  BY <1>1 DEF Init
<1>4. \A s \in Sweeps : sweep[s] = None
  BY DEF Init
<1> QED BY <1>1, <1>2, <1>3, <1>4 DEF Init, Types

\* The steps of the pipeline and of the copies leave the sweeps alone.
LEMMA PipelineTypes ==
    ASSUME Types,
           \/ \E x \in Items : newDataItemBatchInsertHandler(x)
           \/ \E b \in Bundles : prepareBundleHandler(b) \/ updateBundleAsPermanent(b)
    PROVE  Types'
<1>1. CASE \E x \in Items : newDataItemBatchInsertHandler(x)
  <2>1. PICK x \in Items : newDataItemBatchInsertHandler(x)
    BY <1>1
  <2>2. enqueueArchiveCopy({Raw(x)})
    BY <2>1 DEF newDataItemBatchInsertHandler
  <2> QED BY <2>1, <2>2, EnqueueTypes, KeysAreStored
          DEF Types, newDataItemBatchInsertHandler, Placed, Stored
<1>2. CASE \E b \in Bundles : prepareBundleHandler(b)
  <2>1. PICK b \in Bundles : prepareBundleHandler(b)
    BY <1>2
  <2>2. enqueueArchiveCopy({Payload(b)})
    BY <2>1 DEF prepareBundleHandler
  <2> QED BY <2>1, <2>2, EnqueueTypes, KeysAreStored
          DEF Types, prepareBundleHandler, Placed, Stored
<1>3. CASE \E b \in Bundles : updateBundleAsPermanent(b)
  <2>1. PICK b \in Bundles : updateBundleAsPermanent(b)
    BY <1>3
  <2>2. sweep' = sweep /\ Len(permanent') = Len(permanent) + 1 /\ Len(permanent) \in Nat
    BY <2>1, ListGrows DEF Types, updateBundleAsPermanent
  <2>3. ASSUME NEW s \in Sweeps, sweep[s] # None PROVE Placed(sweep[s])'
    <3>1. Placed(sweep[s]) /\ sweep[s] \in Progress
      BY <2>3 DEF Types
    <3> QED BY <2>2, <3>1 DEF Placed, Progress
  <2> QED BY <2>1, <2>2, <2>3, ListGrows DEF Types, updateBundleAsPermanent, storeVars, faultVars
<1> QED BY <1>1, <1>2, <1>3

LEMMA CopyTypes ==
    ASSUME Types, NEW k \in Copied, archiveCopyHandler(k) \/ copyKeyToArchive(k)
    PROVE  Types'
<1>1. Attempts \in Nat \ {0} /\ MaxFaults \in Nat /\ jobs[k] \in 0..Attempts
  BY ArchiveAssumption DEF Types
<1>2. /\ bundler' = bundler /\ permanent' = permanent /\ cursor' = cursor /\ sweep' = sweep
      /\ faults' \in 0..MaxFaults /\ shortened' \in BOOLEAN
      /\ archive' \in [Copied -> {None, "whole", "short"}] /\ copying' \in SUBSET Copied
  <2>1. CASE archiveCopyHandler(k)
    <3>1. bundler' = bundler /\ permanent' = permanent /\ cursor' = cursor /\ sweep' = sweep
      BY <2>1 DEF archiveCopyHandler
    <3>2. faults' \in 0..MaxFaults /\ shortened' \in BOOLEAN
      <4>1. faults' = faults \/ (faults < MaxFaults /\ faults' = faults + 1)
        BY <2>1 DEF archiveCopyHandler, Fault, NoFault, faultVars
      <4>2. faults' \in 0..MaxFaults
        BY <1>1, <4>1 DEF Types
      <4>3. shortened' = shortened \/ shortened' = TRUE
        BY <2>1 DEF archiveCopyHandler, Fault, NoFault, faultVars
      <4>4. shortened' \in BOOLEAN
        BY <4>3, Zenon DEF Types
      <4> QED BY <4>2, <4>4
    <3>3. /\ \/ archive' = archive \/ archive' = [archive EXCEPT ![k] = "whole"]
             \/ archive' = [archive EXCEPT ![k] = "short"]
          /\ copying' = copying \/ copying' = copying \cup {k}
      BY <2>1 DEF archiveCopyHandler
    <3>4. archive' \in [Copied -> {None, "whole", "short"}] /\ copying' \in SUBSET Copied
      BY <3>3 DEF Types
    <3> QED BY <3>1, <3>2, <3>4
  <2>2. CASE copyKeyToArchive(k)
    BY <1>1, <2>2 DEF Types, copyKeyToArchive, Fault, NoFault, faultVars
  <2> QED BY <2>1, <2>2
<1>3. jobs[k] > 0
  BY DEF Types, archiveCopyHandler, copyKeyToArchive
<1>4. jobs' \in [Copied -> 0..Attempts]
  <2>1. jobs[k] - 1 \in 0..Attempts /\ 0 \in 0..Attempts
    BY <1>1, <1>3
  <2> QED BY <2>1 DEF Types, archiveCopyHandler, copyKeyToArchive, Attempted
<1>5. \A c \in copying' : jobs'[c] > 0
  <2>1. CASE archiveCopyHandler(k)
    BY <1>3, <2>1 DEF Types, archiveCopyHandler, Attempted
  <2>2. CASE copyKeyToArchive(k)
    BY <2>2 DEF Types, copyKeyToArchive, Attempted
  <2> QED BY <2>1, <2>2
<1>6. ASSUME NEW s \in Sweeps, sweep'[s] # None PROVE Placed(sweep[s])'
  BY <1>2, <1>6 DEF Types, Placed
<1> QED BY <1>2, <1>4, <1>5, <1>6 DEF Types

\* A sweep that moves, or ends, stands where it may; the others stay.
LEMMA SweepMoves ==
    ASSUME Types, NEW s \in Sweeps, sweep' = [sweep EXCEPT ![s] = sweep'[s]],
           sweep'[s] = None \/ (sweep'[s] \in Progress /\ Placed(sweep'[s])),
           UNCHANGED <<archive, copying, permanent>>, bundler' \subseteq bundler,
           cursor' \in 0..Len(permanent), faults' \in 0..MaxFaults, shortened' \in BOOLEAN,
           jobs' \in [Copied -> 0..Attempts], \A k \in copying : jobs'[k] > 0
    PROVE  Types'
<1>1. sweep' \in [Sweeps -> Progress \cup {None}]
  BY DEF Types
<1>2. ASSUME NEW t \in Sweeps, sweep'[t] # None PROVE Placed(sweep[t])'
  <2>1. sweep'[t] = sweep[t] \/ sweep'[t] = sweep'[s]
    BY DEF Types
  <2>2. Placed(sweep'[t])
    BY <1>2, <2>1 DEF Types
  <2> QED BY <2>2 DEF Placed
<1> QED BY <1>1, <1>2 DEF Types

\* A page begins at the scan's position or one row before, and has a row.
PageOf(r, from, last, full) ==
    [r EXCEPT !.step = "payload", !.scan = from, !.last = last, !.full = full]
LEMMA PageFetched ==
    ASSUME Types, NEW s \in Sweeps, fetchPage(s), sweep'[s] # None
    PROVE  \E from, last \in Nat, full \in BOOLEAN :
             /\ from <= sweep[s].scan /\ sweep[s].keep <= from + 1
             /\ from < last /\ last <= Len(permanent)
             /\ sweep'[s] = PageOf(sweep[s], from, last, full)
<1> DEFINE r == sweep[s]
           end(from) == IF from + PageSize < Len(permanent) THEN from + PageSize ELSE Len(permanent)
           q(from) == PageOf(r, from, end(from), end(from) = from + PageSize)
<1>1. PICK from \in {r.scan} \cup ({r.scan - 1} \cap Nat) :
        IF from = end(from) THEN To(s, None) ELSE To(s, q(from))
  BY DEF fetchPage, PageOf
<1>2. Len(permanent) \in Nat /\ PageSize \in Nat \ {0}
  BY ArchiveAssumption DEF Types
<1>3. r \in Progress /\ r.scan <= Len(permanent) /\ r.keep <= r.scan
  <2>1. r \in Progress /\ Placed(r) /\ r.step = "fetch"
    BY DEF Types, fetchPage, In
  <2> QED BY <1>2, <2>1 DEF Placed, Progress
<1>4. r.scan \in Nat /\ r.keep \in Nat
  BY <1>3 DEF Progress
<1>5. from \in Nat /\ end(from) \in Nat /\ from <= r.scan /\ r.keep <= from + 1
  BY <1>2, <1>3, <1>4
<1>6. from # end(from) => from < end(from) /\ end(from) <= Len(permanent)
  BY <1>2, <1>3, <1>4, <1>5
<1>7. from # end(from) /\ sweep'[s] = q(from)
  BY <1>1 DEF To, Types
<1>8. (end(from) = from + PageSize) \in BOOLEAN
  OBVIOUS
<1> QED BY <1>5, <1>6, <1>7, <1>8

LEMMA SweepTypes ==
    ASSUME Types, NEW s \in Sweeps, getCursor(s) \/ SweepStep(s) \/ Crash(s)
    PROVE  Types'
<1> DEFINE r == sweep[s]
<1>1. r # None => r \in Progress /\ Placed(r)
  BY DEF Types
<1>2. /\ Len(permanent) \in Nat /\ cursor \in 0..Len(permanent)
      /\ PageSize \in Nat \ {0} /\ MaxFaults \in Nat
  BY ArchiveAssumption DEF Types
<1>3. UNCHANGED <<archive, copying, permanent>> /\ bundler' \subseteq bundler
  BY DEF SweepStep, getCursor, fetchPage, reclaimBundleFromBundler, ReclaimRaw, ReclaimBundle,
         Advance, setCursor, Crash, storeVars
<1>4. faults' \in 0..MaxFaults /\ shortened' \in BOOLEAN
  <2>1. Fault \/ NoFault \/ \E keys : enqueueArchiveCopy(keys)
    BY DEF SweepStep, getCursor, fetchPage, reclaimBundleFromBundler, ReclaimRaw, ReclaimBundle,
           Advance, setCursor, Crash, NoFault
  <2>2. NoFault => faults' \in 0..MaxFaults /\ shortened' \in BOOLEAN
    BY DEF NoFault, faultVars, Types
  <2> QED BY <2>1, <2>2, FaultTypes, EnqueueTypes DEF Types
<1>5. jobs' \in [Copied -> 0..Attempts] /\ \A k \in copying : jobs'[k] > 0
  BY EnqueueTypes DEF Types, SweepStep, getCursor, fetchPage, reclaimBundleFromBundler, ReclaimRaw,
         ReclaimBundle, Advance, setCursor, Crash, storeVars
<1>6. cursor' \in 0..Len(permanent)
  <2>1. In(s, "page") => r.keep \in 0..Len(permanent)
    BY <1>1, <1>2 DEF In, Progress, Placed
  <2> QED BY <1>2, <2>1 DEF SweepStep, getCursor, fetchPage, reclaimBundleFromBundler,
             ReclaimRaw, ReclaimBundle, Advance, setCursor, Crash
<1>7. sweep' = [sweep EXCEPT ![s] = sweep'[s]]
  BY DEF Types, To, SweepStep, getCursor, fetchPage, reclaimBundleFromBundler, ReclaimRaw,
         ReclaimBundle, Advance, setCursor, Crash
<1>8. sweep'[s] = None \/ (sweep'[s] \in Progress /\ Placed(sweep'[s]))
  <2>1. CASE getCursor(s)
    BY <1>2, <2>1 DEF Types, getCursor, To, Progress, Placed, SweepSteps
  <2>2. CASE fetchPage(s)
    <3>1. r \in Progress /\ Placed(r)
      BY <1>1, <2>2 DEF fetchPage, In
    <3>2. CASE sweep'[s] # None
      <4>1. PICK from, last \in Nat, full \in BOOLEAN :
              /\ from <= r.scan /\ r.keep <= from + 1 /\ from < last /\ last <= Len(permanent)
              /\ sweep'[s] = PageOf(r, from, last, full)
        BY <2>2, <3>2, PageFetched
      <4> HIDE DEF r
      <4>2. sweep'[s] \in Progress
        BY <3>1, <4>1 DEF Progress, SweepSteps, PageOf
      <4>3. Placed(sweep'[s])
        BY <3>1, <4>1 DEF Progress, Placed, PageOf
      <4> QED BY <4>2, <4>3
    <3> QED BY <3>2
  <2>3. CASE reclaimBundleFromBundler(s)
    <3>1. r \in Progress /\ Placed(r) /\ r.step = "payload"
      BY <1>1, <2>3 DEF reclaimBundleFromBundler, In
    <3>2. permanent[r.scan + 1] \in Bundles
      BY <1>2, <3>1 DEF Placed, Progress, Types
    <3>3. Payload(Current(s)) \in Copied /\ Raws(Current(s)) \subseteq Copied
      BY <3>2, KeysAreStored DEF Current
    <3> DEFINE absent == {Payload(Current(s))}
               raws == Raws(Current(s))
    <3>4. \/ sweep'[s] = [r EXCEPT !.step = "next", !.missing = absent]
          \/ sweep'[s] = [r EXCEPT !.step = "raws", !.raws = raws, !.missing = {}]
      BY <2>3 DEF Types, reclaimBundleFromBundler, To
    <3>5. absent \in SUBSET Copied /\ raws \in SUBSET Copied
      BY <3>3
    <3> HIDE DEF r, absent, raws
    <3>6. CASE sweep'[s] = [r EXCEPT !.step = "next", !.missing = absent]
      BY <3>1, <3>5, <3>6 DEF Progress, Placed, SweepSteps
    <3>7. CASE sweep'[s] = [r EXCEPT !.step = "raws", !.raws = raws, !.missing = {}]
      BY <3>1, <3>5, <3>7 DEF Progress, Placed, SweepSteps
    <3> QED BY <3>4, <3>6, <3>7
  <2>4. CASE \E k \in Copied : ReclaimRaw(s, k)
    <3>1. PICK k \in Copied : ReclaimRaw(s, k)
      BY <2>4
    <3>2. r \in Progress /\ Placed(r) /\ r.step = "raws"
      BY <1>1, <3>1 DEF ReclaimRaw, In
    <3> DEFINE rest == r.raws \ {k}
               more == r.missing \cup {k}
    <3>3. sweep'[s] = [r EXCEPT !.raws = rest] \/ sweep'[s] = [r EXCEPT !.raws = rest, !.missing = more]
      BY <3>1 DEF Types, ReclaimRaw, To
    <3>4. rest \in SUBSET Copied /\ more \in SUBSET Copied
      BY <3>2 DEF Progress
    <3> HIDE DEF r, rest, more
    <3>5. CASE sweep'[s] = [r EXCEPT !.raws = rest]
      BY <3>2, <3>4, <3>5 DEF Progress, Placed
    <3>6. CASE sweep'[s] = [r EXCEPT !.raws = rest, !.missing = more]
      BY <3>2, <3>4, <3>6 DEF Progress, Placed
    <3> QED BY <3>3, <3>5, <3>6
  <2>5. CASE ReclaimBundle(s)
    <3>1. r \in Progress /\ Placed(r) /\ r.step = "raws"
      BY <1>1, <2>5 DEF ReclaimBundle, In
    <3>2. sweep'[s] = [r EXCEPT !.step = "next"]
      BY <2>5 DEF Types, ReclaimBundle, To
    <3> HIDE DEF r
    <3> QED BY <3>1, <3>2 DEF Progress, Placed, SweepSteps
  <2>6. CASE Advance(s)
    <3>1. r \in Progress /\ Placed(r) /\ r.step = "next"
      BY <1>1, <2>6 DEF Advance, In
    <3>2. sweep'[s] = Advanced(r)
      BY <2>6 DEF Types, Advance, To
    <3>3. r.scan < r.last /\ r.last <= Len(permanent) /\ r.keep <= r.scan + 1
      BY <3>1 DEF Placed
    <3>4. Advanced(r) \in Progress
      <4> DEFINE done == r.hole \/ r.missing # {}
                 k == IF done THEN r.keep ELSE r.scan + 1
                 e == IF r.scan + 1 < r.last THEN "payload" ELSE "page"
                 d == r.dirty \/ ~done
                 made == [r EXCEPT !.scan = r.scan + 1, !.missing = {}, !.step = e,
                                   !.hole = done, !.keep = k, !.dirty = d]
      <4>1. Advanced(r) = made
        BY DEF Advanced
      <4>2. r.scan + 1 \in Nat /\ k \in Nat /\ e \in SweepSteps /\ done \in BOOLEAN /\ d \in BOOLEAN
        BY <3>1 DEF Progress, SweepSteps
      <4>3. {} \in SUBSET Copied
        OBVIOUS
      <4> HIDE DEF done, k, e, d, r
      <4>4. made \in Progress
        BY <3>1, <4>2, <4>3 DEF Progress
      <4> QED BY <4>1, <4>4
    <3> HIDE DEF r
    <3>5. Placed(Advanced(r))
      BY <1>2, <3>1, <3>3 DEF Advanced, Placed, Progress
    <3> QED BY <3>2, <3>4, <3>5
  <2>7. CASE setCursor(s)
    <3>1. r \in Progress /\ Placed(r) /\ r.step = "page"
      BY <1>1, <2>7 DEF setCursor, In
    <3>2. sweep'[s] = None \/ sweep'[s] = [r EXCEPT !.step = "fetch", !.dirty = FALSE]
      BY <2>7 DEF Types, setCursor, To
    <3> HIDE DEF r
    <3> QED BY <3>1, <3>2 DEF Progress, Placed, SweepSteps
  <2>8. CASE Crash(s)
    BY <2>8 DEF Types, Crash, To
  <2> QED BY <2>1, <2>2, <2>3, <2>4, <2>5, <2>6, <2>7, <2>8 DEF SweepStep
<1> QED BY <1>3, <1>4, <1>5, <1>6, <1>7, <1>8, SweepMoves

LEMMA StepTypes == Types /\ [Next]_vars => Types'
<1> SUFFICES ASSUME Types, [Next]_vars PROVE Types'
  OBVIOUS
<1>1. CASE \E x \in Items : newDataItemBatchInsertHandler(x)
  BY <1>1, PipelineTypes
<1>2. CASE \E b \in Bundles : prepareBundleHandler(b) \/ updateBundleAsPermanent(b)
  BY <1>2, PipelineTypes
<1>3. CASE \E k \in Copied : archiveCopyHandler(k) \/ copyKeyToArchive(k)
  BY <1>3, CopyTypes
<1>4. CASE \E s \in Sweeps : getCursor(s) \/ SweepStep(s) \/ Crash(s)
  BY <1>4, SweepTypes
<1>5. CASE UNCHANGED vars
  BY <1>5 DEF Types, Placed, vars, storeVars, faultVars
<1> QED BY <1>1, <1>2, <1>3, <1>4, <1>5 DEF Next

\* Tables, copies and offsets keep their types, and a sweep stands where a sweep may, in
\* every step of cleanup and archive copy.
THEOREM TypesAlways == Spec => []Types
BY InitTypes, StepTypes, PTL DEF Spec

\* Every variable keeps its type.
THEOREM TypeCorrect == Spec => []TypeOK
<1>1. ASSUME Types, NEW s \in Sweeps, sweep[s] # None PROVE sweep[s].keep <= sweep[s].last
  <2>1. sweep[s] \in Progress /\ Placed(sweep[s])
    BY <1>1 DEF Types
  <2> QED BY <2>1 DEF Progress, Placed, SweepSteps
<1>2. Types => TypeOK
  BY <1>1 DEF Types, TypeOK, Stored
<1> QED BY <1>2, TypesAlways, PTL

(***************************************************************************)
(* The last copy.  A bundle that was prepared has its transaction in the   *)
(* bundler's store until the sweep is done with it, so what holds of the   *)
(* permanent bundles has to hold of the prepared ones before.              *)
(***************************************************************************)
Somewhere(k) == k \in bundler \/ archive[k] = "whole"
Guarded(b) == BundleTx(b) \in bundler \/ \E n \in DOMAIN permanent : permanent[n] = b

Archived ==
    ~shortened =>
        /\ \A k \in Copied : archive[k] \in {None, "whole"}
        /\ \A b \in Bundles : Guarded(b) => \A k \in Kept(b) : Somewhere(k)
        /\ \A s \in Sweeps : In(s, "raws") => archive[Payload(Current(s))] # None

LEMMA KeysDiffer ==
    /\ \A x, b : Raw(x) # Payload(b) /\ Raw(x) # BundleTx(b)
    /\ \A b, c : Payload(b) # BundleTx(c)
    /\ \A b, c : BundleTx(b) = BundleTx(c) => b = c
    /\ \A b, c : Payload(b) = Payload(c) => b = c
    /\ \A x, y : Raw(x) = Raw(y) => x = y
BY DEF Raw, Payload, BundleTx

LEMMA KeptIsCopied ==
    ASSUME NEW b \in Bundles, NEW k \in Kept(b)
    PROVE  k \in Copied /\ \A c : k # BundleTx(c)
BY KeysAreStored, KeysDiffer DEF Kept, Raws

\* No copy in the archive is lost as long as all of them are whole.
LEMMA CopiesStay ==
    ASSUME Types, Archived, [Next]_vars, ~shortened'
    PROVE  /\ ~shortened
           /\ \A k \in Copied : /\ archive'[k] \in {None, "whole"}
                                /\ archive[k] # None => archive'[k] # None
                                /\ archive[k] = "whole" => archive'[k] = "whole"
<1>1. CASE \E k \in Copied : archiveCopyHandler(k) \/ copyKeyToArchive(k)
  <2>1. PICK k \in Copied : archiveCopyHandler(k) \/ copyKeyToArchive(k)
    BY <1>1
  <2>2. ~shortened
    BY <2>1 DEF archiveCopyHandler, copyKeyToArchive, Fault, NoFault, faultVars
  <2>3. \/ archive' = archive
        \/ archive' = [archive EXCEPT ![k] = "whole"]
        \/ archive[k] = "short" /\ archive' = [archive EXCEPT ![k] = None]
    BY <2>1 DEF archiveCopyHandler, copyKeyToArchive
  <2> QED BY <2>2, <2>3 DEF Types, Archived
<1>2. CASE ~\E k \in Copied : archiveCopyHandler(k) \/ copyKeyToArchive(k)
  <2>1. archive' = archive /\ shortened' = shortened
    BY <1>2 DEF Next, vars, storeVars, faultVars, newDataItemBatchInsertHandler, prepareBundleHandler,
           updateBundleAsPermanent, enqueueArchiveCopy, Fault, NoFault, getCursor, SweepStep, fetchPage,
           reclaimBundleFromBundler, ReclaimRaw, ReclaimBundle, Advance, setCursor, Crash
  <2> QED BY <2>1 DEF Archived
<1> QED BY <1>1, <1>2

\* The bundle a sweep is at, and that it stays the same while the list grows.
LEMMA CurrentIsPermanent ==
    ASSUME Types, NEW s \in Sweeps, sweep[s] # None, sweep[s].step \in {"payload", "raws", "next"}
    PROVE  /\ sweep[s] \in Progress /\ Placed(sweep[s])
           /\ sweep[s].scan + 1 \in DOMAIN permanent /\ Current(s) \in Bundles
<1>1. sweep[s] \in Progress /\ Placed(sweep[s]) /\ permanent \in Seq(Bundles)
  BY DEF Types
<1>2. sweep[s].scan + 1 \in DOMAIN permanent
  BY <1>1 DEF Progress, Placed
<1> QED BY <1>1, <1>2 DEF Current

LEMMA ListKept ==
    ASSUME Types, [Next]_vars
    PROVE  \A n \in DOMAIN permanent : n \in DOMAIN permanent' /\ permanent'[n] = permanent[n]
<1>1. CASE \E b \in Bundles : updateBundleAsPermanent(b)
  BY <1>1, ListGrows
<1>2. CASE ~\E b \in Bundles : updateBundleAsPermanent(b)
  <2>1. permanent' = permanent
    BY <1>2 DEF Next, vars, storeVars, faultVars, newDataItemBatchInsertHandler, prepareBundleHandler,
           archiveCopyHandler, copyKeyToArchive, getCursor, SweepStep, fetchPage,
           reclaimBundleFromBundler, ReclaimRaw, ReclaimBundle, Advance, setCursor, Crash
  <2> QED BY <2>1
<1> QED BY <1>1, <1>2

\* What leaves the bundler's store is a bundle transaction, or in the archive.
LEMMA OnlyArchivedLeaves ==
    ASSUME Types, Archived, [Next]_vars, ~shortened,
           NEW k \in bundler, k \notin bundler', \A b \in Bundles : k # BundleTx(b)
    PROVE  k \in Copied /\ archive[k] # None
<1>1. PICK s \in Sweeps : \/ \E j \in Copied : ReclaimRaw(s, j)
                          \/ ReclaimBundle(s) \/ Crash(s)
  BY DEF Next, vars, storeVars, faultVars, newDataItemBatchInsertHandler, prepareBundleHandler,
         updateBundleAsPermanent, archiveCopyHandler, copyKeyToArchive, getCursor, SweepStep,
         fetchPage, reclaimBundleFromBundler, Advance, setCursor
<1>2. In(s, "raws")
  BY <1>1 DEF ReclaimRaw, ReclaimBundle, Crash
<1>3. Current(s) \in Bundles /\ archive[Payload(Current(s))] # None
  BY <1>2, CurrentIsPermanent DEF In, Archived
<1>4. k = Payload(Current(s)) \/ (k \in Copied /\ archive[k] # None)
  BY <1>1, <1>3 DEF ReclaimRaw, ReclaimBundle, Crash
<1> QED BY <1>3, <1>4, KeysAreStored

\* A bundle that becomes guarded was just prepared, from raw data items that were there.
LEMMA GuardedBefore ==
    ASSUME Types, [Next]_vars, NEW b \in Bundles, Guarded(b)'
    PROVE  Guarded(b) \/ Kept(b) \subseteq bundler'
<1>1. CASE \E c \in Bundles : updateBundleAsPermanent(c)
  <2>1. PICK c \in Bundles : updateBundleAsPermanent(c)
    BY <1>1
  <2>2. BundleTx(c) \in bundler /\ bundler' = bundler
    BY <2>1 DEF updateBundleAsPermanent, storeVars
  <2>3. \A n \in DOMAIN permanent' :
            permanent'[n] = c \/ (n \in DOMAIN permanent /\ permanent'[n] = permanent[n])
    BY <2>1, ListGrows
  <2> QED BY <2>2, <2>3 DEF Guarded
<1>2. CASE \E c \in Bundles : prepareBundleHandler(c)
  <2>1. PICK c \in Bundles : prepareBundleHandler(c)
    BY <1>2
  <2>2. Raws(c) \subseteq bundler /\ bundler' = bundler \cup {Payload(c), BundleTx(c)} /\ permanent' = permanent
    BY <2>1 DEF prepareBundleHandler
  <2>3. CASE b = c
    BY <2>2, <2>3 DEF Kept
  <2>4. CASE b # c
    <3>1. BundleTx(b) \notin {Payload(c), BundleTx(c)}
      BY <2>4, KeysDiffer
    <3> QED BY <2>2, <3>1 DEF Guarded
  <2> QED BY <2>3, <2>4
<1>3. CASE \E x \in Items : newDataItemBatchInsertHandler(x)
  BY <1>3, KeysDiffer DEF newDataItemBatchInsertHandler, Guarded
<1>4. CASE bundler' \subseteq bundler /\ permanent' = permanent
  BY <1>4 DEF Guarded
<1>5. CASE \E k \in Copied : archiveCopyHandler(k) \/ copyKeyToArchive(k)
  BY <1>4, <1>5 DEF archiveCopyHandler, copyKeyToArchive
<1>6. CASE \E s \in Sweeps : getCursor(s) \/ SweepStep(s) \/ Crash(s)
  BY <1>4, <1>6 DEF storeVars, getCursor, SweepStep, fetchPage, reclaimBundleFromBundler, ReclaimRaw,
                    ReclaimBundle, Advance, setCursor, Crash
<1>7. CASE UNCHANGED vars
  BY <1>4, <1>7 DEF vars, storeVars
<1> QED BY <1>1, <1>2, <1>3, <1>5, <1>6, <1>7 DEF Next

\* A sweep takes the raw data items of a bundle once it has seen the payload archived.
LEMMA RawsAfterPayload ==
    ASSUME Types, [Next]_vars, NEW s \in Sweeps, In(s, "raws")'
    PROVE  /\ Current(s)' = Current(s) /\ Current(s) \in Bundles
           /\ In(s, "raws") \/ archive[Payload(Current(s))] # None
<1> DEFINE Quiet == \/ \E x \in Items : newDataItemBatchInsertHandler(x)
                    \/ \E b \in Bundles : prepareBundleHandler(b) \/ updateBundleAsPermanent(b)
                    \/ \E k \in Copied : archiveCopyHandler(k) \/ copyKeyToArchive(k)
                    \/ UNCHANGED vars
<1>1. sweep[s] # None /\ sweep[s].step \in {"payload", "raws"} /\ sweep'[s].scan = sweep[s].scan
      /\ (In(s, "raws") \/ archive[Payload(Current(s))] # None)
  <2>1. CASE sweep'[s] = sweep[s]
    BY <2>1 DEF In
  <2>2. CASE reclaimBundleFromBundler(s)
    <3>1. sweep[s] \in Progress /\ In(s, "payload")
      BY <2>2 DEF Types, reclaimBundleFromBundler, In
    <3>2. \/ sweep'[s] = [sweep[s] EXCEPT !.step = "next", !.missing = {Payload(Current(s))}]
          \/ /\ archive[Payload(Current(s))] # None
             /\ sweep'[s] = [sweep[s] EXCEPT !.step = "raws", !.raws = Raws(Current(s)), !.missing = {}]
      BY <2>2 DEF Types, reclaimBundleFromBundler, To
    <3>3. sweep'[s].step = "raws"
      BY DEF In
    <3> QED BY <3>1, <3>2, <3>3 DEF Progress, In
  <2>3. CASE \E k \in Copied : ReclaimRaw(s, k)
    <3>1. PICK k \in Copied : ReclaimRaw(s, k)
      BY <2>3
    <3>2. \/ sweep'[s] = [sweep[s] EXCEPT !.raws = @ \ {k}]
          \/ sweep'[s] = [sweep[s] EXCEPT !.raws = @ \ {k}, !.missing = @ \cup {k}]
      BY <3>1 DEF Types, ReclaimRaw, To
    <3>3. In(s, "raws") /\ sweep[s] \in Progress
      BY <3>1 DEF Types, ReclaimRaw, In
    <3> QED BY <3>2, <3>3 DEF Progress, In
  <2>4. CASE fetchPage(s) \/ Advance(s) \/ getCursor(s) \/ setCursor(s) \/ ReclaimBundle(s) \/ Crash(s)
    <3>1. sweep'[s] # None /\ sweep'[s].step = "raws"
      BY DEF In
    <3>2. sweep[s] # None => sweep[s] \in Progress
      BY DEF Types
    <3>3. CASE fetchPage(s)
      <4>1. \E n, m, f : sweep'[s] = PageOf(sweep[s], n, m, f)
        BY <3>1, <3>3, PageFetched
      <4>2. sweep[s] \in Progress
        BY <3>2, <3>3 DEF fetchPage, In
      <4> QED BY <3>1, <4>1, <4>2 DEF Progress, PageOf
    <3>4. CASE Advance(s)
      <4>1. sweep'[s] = Advanced(sweep[s]) /\ sweep[s] \in Progress
        BY <3>2, <3>4 DEF Types, Advance, To, In
      <4>2. Advanced(sweep[s]).step \in {"payload", "page"}
        BY <4>1 DEF Advanced, Progress
      <4> QED BY <3>1, <4>1, <4>2
    <3>5. CASE getCursor(s)
      BY <3>1, <3>5 DEF Types, getCursor, To
    <3>6. CASE setCursor(s)
      BY <3>1, <3>2, <3>6 DEF Types, setCursor, To, In, Progress
    <3>7. CASE ReclaimBundle(s)
      BY <3>1, <3>2, <3>7 DEF Types, ReclaimBundle, To, In, Progress
    <3>8. CASE Crash(s)
      BY <3>1, <3>8 DEF Types, Crash, To
    <3> QED BY <2>4, <3>3, <3>4, <3>5, <3>6, <3>7, <3>8
  <2>5. CASE \E t \in Sweeps \ {s} : getCursor(t) \/ SweepStep(t) \/ Crash(t)
    <3>1. PICK t \in Sweeps \ {s} : getCursor(t) \/ SweepStep(t) \/ Crash(t)
      BY <2>5
    <3>2. \E r : To(t, r)
      BY <3>1 DEF getCursor, SweepStep, fetchPage, reclaimBundleFromBundler, ReclaimRaw, ReclaimBundle,
                  Advance, setCursor, Crash
    <3> QED BY <2>1, <3>1, <3>2 DEF To, Types
  <2>6. CASE Quiet
    BY <2>1, <2>6 DEF newDataItemBatchInsertHandler, prepareBundleHandler, updateBundleAsPermanent,
                      archiveCopyHandler, copyKeyToArchive, vars
  <2> QED BY <2>2, <2>3, <2>4, <2>5, <2>6 DEF Next, SweepStep
<1>2. sweep[s].scan + 1 \in DOMAIN permanent /\ Current(s) \in Bundles
  BY <1>1, CurrentIsPermanent
<1>3. permanent'[sweep[s].scan + 1] = permanent[sweep[s].scan + 1]
  BY <1>2, ListKept
<1>4. Current(s)' = Current(s)
  BY <1>1, <1>3 DEF Current
<1> QED BY <1>1, <1>2, <1>4

LEMMA InitArchived == Init => Archived
BY DEF Init, Archived, Guarded, In

LEMMA StepArchived == Types /\ Archived /\ [Next]_vars => Archived'
<1> SUFFICES ASSUME Types, Archived, [Next]_vars, ~shortened' PROVE Archived'
  BY DEF Archived
<1>1. /\ ~shortened
      /\ \A k \in Copied : /\ archive'[k] \in {None, "whole"}
                           /\ archive[k] # None => archive'[k] # None
                           /\ archive[k] = "whole" => archive'[k] = "whole"
  BY CopiesStay
<1>2. ASSUME NEW b \in Bundles, Guarded(b)', NEW k \in Kept(b)
      PROVE  Somewhere(k)'
  <2>1. k \in Copied /\ \A c \in Bundles : k # BundleTx(c)
    BY KeptIsCopied
  <2>2. CASE k \in bundler'
    BY <2>2 DEF Somewhere
  <2>3. CASE k \notin bundler'
    <3>1. Somewhere(k)
      BY <1>1, <1>2, <2>3, GuardedBefore DEF Archived
    <3>2. archive[k] # None => archive[k] = "whole"
      BY <1>1, <2>1 DEF Archived
    <3>3. archive[k] = "whole"
      BY <1>1, <2>1, <2>3, <3>1, <3>2, OnlyArchivedLeaves DEF Somewhere
    <3> QED BY <1>1, <2>1, <3>3 DEF Somewhere
  <2> QED BY <2>2, <2>3
<1>3. ASSUME NEW s \in Sweeps, In(s, "raws")'
      PROVE  (archive[Payload(Current(s))] # None)'
  <2>1. /\ Current(s)' = Current(s) /\ Current(s) \in Bundles
        /\ In(s, "raws") \/ archive[Payload(Current(s))] # None
    BY <1>3, RawsAfterPayload
  <2>2. archive[Payload(Current(s))] # None
    BY <1>1, <2>1 DEF Archived
  <2>3. Payload(Current(s)) \in Copied /\ Payload(Current(s))' = Payload(Current(s))
    BY <2>1, KeysAreStored DEF Payload
  <2> QED BY <1>1, <2>2, <2>3
<1>4. \A b \in Bundles : Kept(b)' = Kept(b)
  BY DEF Kept, Raws, Raw, Payload
<1> QED BY <1>1, <1>2, <1>3, <1>4 DEF Archived

\* No sweep takes an object off the bundler's store that the archive has not whole.
THEOREM NeverTheLastCopyAlways == Spec => []NeverTheLastCopy
<1>1. Types /\ Archived => NeverTheLastCopy
  BY DEF Types, Archived, Guarded, Somewhere, NeverTheLastCopy
<1> QED BY <1>1, TypesAlways, InitArchived, StepArchived, PTL DEF Spec

(***************************************************************************)
(* Nothing left behind.  What a sweep would persist is behind it already,  *)
(* and while it has met no hole everything before its position is.         *)
(***************************************************************************)
Keys(b) == Kept(b) \cup {BundleTx(b)}
Gone(n, store, list) == Keys(list[n]) \cap store = {}
Seen(r, store, list) ==
    /\ \A n \in 1..r.keep : Gone(n, store, list)
    /\ ~r.hole => \A n \in 1..r.scan : Gone(n, store, list)
    /\ r.step = "raws" => Raws(list[r.scan + 1]) \cap store \subseteq r.raws \cup r.missing
    /\ r.step = "next" /\ r.missing = {} => Gone(r.scan + 1, store, list)

Behind ==
    /\ \A n \in 1..cursor : Gone(n, bundler, permanent)
    /\ \A s \in Sweeps : sweep[s] # None => Seen(sweep[s], bundler, permanent)

\* No object of a permanent bundle is written to the bundler's store again.
LEMMA NotWrittenAgain ==
    ASSUME Types, [Next]_vars, NEW n \in DOMAIN permanent, NEW k \in Keys(permanent[n]), k \in bundler'
    PROVE  k \in bundler
<1>1. CASE \E x \in Items : newDataItemBatchInsertHandler(x)
  <2>1. PICK x \in Items : newDataItemBatchInsertHandler(x)
    BY <1>1
  <2>2. x \notin ItemsOf[permanent[n]] /\ bundler' = bundler \cup {Raw(x)}
    BY <2>1 DEF newDataItemBatchInsertHandler
  <2>3. k # Raw(x)
    BY <2>2, KeysDiffer DEF Keys, Kept, Raws
  <2> QED BY <2>2, <2>3
<1>2. CASE \E b \in Bundles : prepareBundleHandler(b)
  <2>1. PICK b \in Bundles : prepareBundleHandler(b)
    BY <1>2
  <2>2. permanent[n] # b /\ bundler' = bundler \cup {Payload(b), BundleTx(b)}
    BY <2>1 DEF prepareBundleHandler
  <2>3. k # Payload(b) /\ k # BundleTx(b)
    BY <2>2, KeysDiffer DEF Keys, Kept, Raws
  <2> QED BY <2>2, <2>3
<1>3. CASE \E b \in Bundles : updateBundleAsPermanent(b)
  BY <1>3 DEF updateBundleAsPermanent, storeVars
<1>4. CASE \E c \in Copied : archiveCopyHandler(c) \/ copyKeyToArchive(c)
  BY <1>4 DEF archiveCopyHandler, copyKeyToArchive
<1>5. CASE \E s \in Sweeps : getCursor(s) \/ SweepStep(s) \/ Crash(s)
  BY <1>5 DEF storeVars, getCursor, SweepStep, fetchPage, reclaimBundleFromBundler, ReclaimRaw,
                    ReclaimBundle, Advance, setCursor, Crash
<1>6. CASE UNCHANGED vars
  BY <1>6 DEF vars, storeVars
<1> QED BY <1>1, <1>2, <1>3, <1>4, <1>5, <1>6 DEF Next

LEMMA GoneLater ==
    ASSUME Types, [Next]_vars, NEW n \in DOMAIN permanent, Gone(n, bundler, permanent)
    PROVE  Gone(n, bundler', permanent')
BY NotWrittenAgain, ListKept DEF Gone

LEMMA SeenLater ==
    ASSUME Types, [Next]_vars, NEW r \in Progress, Placed(r), Seen(r, bundler, permanent)
    PROVE  Seen(r, bundler', permanent')
<1>1. Len(permanent) \in Nat /\ DOMAIN permanent = 1..Len(permanent)
  BY DEF Types
<1>2. r.keep <= Len(permanent) /\ r.scan <= Len(permanent) /\ r.keep \in Nat /\ r.scan \in Nat
  BY <1>1 DEF Placed, Progress, SweepSteps
<1>3. \A n \in 1..r.keep : Gone(n, bundler', permanent')
  BY <1>1, <1>2, GoneLater DEF Seen
<1>4. ~r.hole => \A n \in 1..r.scan : Gone(n, bundler', permanent')
  BY <1>1, <1>2, GoneLater DEF Seen
<1>5. r.step \in {"raws", "next"} => r.scan + 1 \in DOMAIN permanent
  BY <1>1, <1>2 DEF Placed, Progress
<1>6. r.step = "raws" => Raws(permanent'[r.scan + 1]) \cap bundler' \subseteq r.raws \cup r.missing
  <2>1. SUFFICES ASSUME r.step = "raws", NEW k \in Raws(permanent'[r.scan + 1]) \cap bundler'
                 PROVE  k \in r.raws \cup r.missing
    OBVIOUS
  <2>2. r.scan + 1 \in DOMAIN permanent /\ permanent'[r.scan + 1] = permanent[r.scan + 1]
    BY <1>5, <2>1, ListKept
  <2>3. k \in bundler
    BY <2>2, NotWrittenAgain DEF Keys, Kept
  <2> QED BY <2>1, <2>2, <2>3 DEF Seen
<1>7. r.step = "next" /\ r.missing = {} => Gone(r.scan + 1, bundler', permanent')
  BY <1>5, GoneLater DEF Seen
<1> QED BY <1>3, <1>4, <1>6, <1>7 DEF Seen

\* A step of a sweep keeps what it says of itself.
LEMMA SweepSeen ==
    ASSUME Types, Behind, NEW s \in Sweeps, getCursor(s) \/ SweepStep(s) \/ Crash(s),
           sweep'[s] # None
    PROVE  Seen(sweep'[s], bundler', permanent')
<1> DEFINE r == sweep[s]
           q == sweep'[s]
<1> SUFFICES Seen(q, bundler', permanent')
  OBVIOUS
<1>1. [Next]_vars /\ permanent' = permanent /\ bundler' \subseteq bundler
  BY DEF Next, SweepStep, getCursor, fetchPage, reclaimBundleFromBundler, ReclaimRaw, ReclaimBundle,
         Advance, setCursor, Crash, storeVars
<1>2. r # None => r \in Progress /\ Placed(r) /\ Seen(r, bundler, permanent)
                  /\ Seen(r, bundler', permanent)
  BY <1>1, SeenLater DEF Types, Behind
<1>3. CASE getCursor(s)
  <2>1. q.step = "fetch" /\ q.keep = cursor /\ q.scan = cursor /\ bundler' = bundler
    BY <1>3 DEF Types, getCursor, To, storeVars
  <2>2. \A n \in 1..cursor : Gone(n, bundler, permanent)
    BY DEF Behind
  <2> HIDE DEF q
  <2> QED BY <1>1, <2>1, <2>2 DEF Seen
<1>4. CASE fetchPage(s)
  <2>1. r \in Progress /\ r # None /\ bundler' = bundler
    BY <1>2, <1>4 DEF fetchPage, In, storeVars
  <2>2. PICK from, last \in Nat, full \in BOOLEAN :
          from <= r.scan /\ q = PageOf(r, from, last, full)
    BY <1>4, PageFetched
  <2>3. q.step = "payload" /\ q.keep = r.keep /\ q.scan = from /\ q.hole = r.hole
    BY <2>1, <2>2 DEF PageOf, Progress
  <2>4. 1..from \subseteq 1..r.scan
    BY <2>1, <2>2 DEF Progress
  <2> HIDE DEF q, r
  <2> QED BY <1>1, <1>2, <2>1, <2>3, <2>4 DEF Seen
<1>5. CASE reclaimBundleFromBundler(s)
  <2> DEFINE absent == {Payload(Current(s))}
             raws == Raws(Current(s))
  <2>1. r \in Progress /\ r # None /\ bundler' = bundler
    BY <1>2, <1>5 DEF reclaimBundleFromBundler, In, storeVars
  <2>2. \/ q = [r EXCEPT !.step = "next", !.missing = absent]
        \/ q = [r EXCEPT !.step = "raws", !.raws = raws, !.missing = {}]
    BY <1>5 DEF Types, reclaimBundleFromBundler, To
  <2>3. absent # {} /\ raws = Raws(permanent[r.scan + 1])
    BY DEF Current
  <2> HIDE DEF q, r, absent, raws
  <2>4. CASE q = [r EXCEPT !.step = "next", !.missing = absent]
    <3>1. q.step = "next" /\ q.keep = r.keep /\ q.scan = r.scan /\ q.hole = r.hole /\ q.missing = absent
      BY <2>1, <2>4 DEF Progress
    <3> QED BY <1>1, <1>2, <2>1, <2>3, <3>1 DEF Seen
  <2>5. CASE q = [r EXCEPT !.step = "raws", !.raws = raws, !.missing = {}]
    <3>1. q.step = "raws" /\ q.keep = r.keep /\ q.scan = r.scan /\ q.hole = r.hole /\ q.raws = raws
      BY <2>1, <2>5 DEF Progress
    <3> QED BY <1>1, <1>2, <2>1, <2>3, <3>1 DEF Seen
  <2> QED BY <2>2, <2>4, <2>5
<1>6. CASE \E k \in Copied : ReclaimRaw(s, k)
  <2>1. PICK k \in Copied : ReclaimRaw(s, k)
    BY <1>6
  <2> DEFINE rest == r.raws \ {k}
             more == r.missing \cup {k}
  <2>2. r \in Progress /\ r # None /\ r.step = "raws"
    BY <1>2, <2>1 DEF ReclaimRaw, In
  <2>3. \/ q = [r EXCEPT !.raws = rest] /\ bundler' = bundler \ {k}
        \/ q = [r EXCEPT !.raws = rest, !.missing = more]
    BY <2>1 DEF Types, ReclaimRaw, To
  <2> HIDE DEF q, r
  <2>4. CASE q = [r EXCEPT !.raws = rest] /\ bundler' = bundler \ {k}
    <3>1. q.step = "raws" /\ q.keep = r.keep /\ q.scan = r.scan /\ q.hole = r.hole
          /\ q.raws = rest /\ q.missing = r.missing
      BY <2>2, <2>4 DEF Progress
    <3> QED BY <1>1, <1>2, <2>2, <2>4, <3>1 DEF Seen
  <2>5. CASE q = [r EXCEPT !.raws = rest, !.missing = more]
    <3>1. q.step = "raws" /\ q.keep = r.keep /\ q.scan = r.scan /\ q.hole = r.hole
          /\ q.raws = rest /\ q.missing = more
      BY <2>2, <2>5 DEF Progress
    <3> QED BY <1>1, <1>2, <2>2, <3>1 DEF Seen
  <2> QED BY <2>3, <2>4, <2>5
<1>7. CASE ReclaimBundle(s)
  <2>1. r \in Progress /\ r # None /\ r.step = "raws" /\ r.raws = {}
        /\ bundler' = bundler \ {Payload(permanent[r.scan + 1]), BundleTx(permanent[r.scan + 1])}
    BY <1>2, <1>7 DEF ReclaimBundle, In, Current
  <2>2. q = [r EXCEPT !.step = "next"]
    BY <1>7 DEF Types, ReclaimBundle, To
  <2> HIDE DEF q, r
  <2>3. q.step = "next" /\ q.keep = r.keep /\ q.scan = r.scan /\ q.hole = r.hole /\ q.missing = r.missing
    BY <2>1, <2>2 DEF Progress
  <2>4. q.missing = {} => Gone(r.scan + 1, bundler', permanent)
    BY <1>2, <2>1, <2>3 DEF Seen, Gone, Keys, Kept
  <2> QED BY <1>1, <1>2, <2>1, <2>3, <2>4 DEF Seen
<1>8. CASE Advance(s)
  <2>1. r \in Progress /\ r # None /\ r.step = "next" /\ bundler' = bundler
    BY <1>2, <1>8 DEF Advance, In
  <2>2. q = Advanced(r)
    BY <1>8 DEF Types, Advance, To
  <2> HIDE DEF q, r
  <2>3. /\ q.step \in {"payload", "page"} /\ q.scan = r.scan + 1 /\ r.scan \in Nat
        /\ q.keep = IF r.hole \/ r.missing # {} THEN r.keep ELSE r.scan + 1
    BY <2>1, <2>2 DEF Advanced, Progress
  <2>4. ~q.hole => ~r.hole /\ r.missing = {}
    BY <2>1, <2>2 DEF Advanced, Progress
  <2>5. ~r.hole /\ r.missing = {} => \A n \in 1..(r.scan + 1) : Gone(n, bundler, permanent)
    BY <1>2, <2>1, <2>3 DEF Seen
  <2> QED BY <1>1, <1>2, <2>1, <2>3, <2>4, <2>5 DEF Seen
<1>9. CASE setCursor(s)
  <2>1. r \in Progress /\ r # None /\ r.step = "page" /\ bundler' = bundler
    BY <1>2, <1>9 DEF setCursor, In, storeVars
  <2>2. q = [r EXCEPT !.step = "fetch", !.dirty = FALSE]
    BY <1>9 DEF Types, setCursor, To
  <2> HIDE DEF q, r
  <2>3. q.step = "fetch" /\ q.keep = r.keep /\ q.scan = r.scan /\ q.hole = r.hole
    BY <2>1, <2>2 DEF Progress
  <2> QED BY <1>1, <1>2, <2>1, <2>3 DEF Seen
<1>10. CASE Crash(s)
  BY <1>10 DEF Types, Crash, To
<1> QED BY <1>3, <1>4, <1>5, <1>6, <1>7, <1>8, <1>9, <1>10 DEF SweepStep

LEMMA InitBehind == Init => Behind
BY DEF Init, Behind

LEMMA StepBehind == Types /\ Behind /\ [Next]_vars => Behind'
<1> SUFFICES ASSUME Types, Behind, [Next]_vars PROVE Behind'
  OBVIOUS
<1>1. ASSUME NEW t \in Sweeps, sweep'[t] # None
      PROVE  Seen(sweep'[t], bundler', permanent')
  <2>1. CASE getCursor(t) \/ SweepStep(t) \/ Crash(t)
    BY <1>1, <2>1, SweepSeen
  <2>2. CASE sweep'[t] = sweep[t]
    BY <1>1, <2>2, SeenLater DEF Types, Behind
  <2>3. CASE \E s \in Sweeps \ {t} : getCursor(s) \/ SweepStep(s) \/ Crash(s)
    <3>1. PICK s \in Sweeps \ {t} : \E r : To(s, r)
      BY <2>3 DEF getCursor, SweepStep, fetchPage, reclaimBundleFromBundler, ReclaimRaw, ReclaimBundle,
                  Advance, setCursor, Crash
    <3> QED BY <2>2, <3>1 DEF To, Types
  <2>4. CASE ~\E s \in Sweeps : getCursor(s) \/ SweepStep(s) \/ Crash(s)
    BY <2>2, <2>4 DEF Next, newDataItemBatchInsertHandler, prepareBundleHandler, updateBundleAsPermanent,
                      archiveCopyHandler, copyKeyToArchive, vars
  <2> QED BY <2>1, <2>3, <2>4
<1>2. ASSUME NEW n \in 1..cursor' PROVE Gone(n, bundler', permanent')
  <2>1. DOMAIN permanent = 1..Len(permanent) /\ Len(permanent) \in Nat
    BY DEF Types
  <2>2. CASE cursor' = cursor
    <3>1. n \in DOMAIN permanent
      BY <1>2, <2>1, <2>2 DEF Types
    <3> QED BY <1>2, <2>2, <3>1, GoneLater DEF Behind
  <2>3. CASE \E s \in Sweeps : setCursor(s) /\ cursor' = sweep[s].keep
    <3>1. PICK s \in Sweeps : setCursor(s) /\ cursor' = sweep[s].keep
      BY <2>3
    <3>2. sweep[s] # None /\ sweep[s] \in Progress /\ Placed(sweep[s])
      BY <3>1 DEF setCursor, In, Types
    <3>3. n \in 1..sweep[s].keep /\ sweep[s].keep <= Len(permanent)
      BY <1>2, <2>1, <3>1, <3>2 DEF Progress, Placed, SweepSteps
    <3>4. n \in DOMAIN permanent
      BY <2>1, <3>2, <3>3 DEF Progress
    <3> QED BY <3>2, <3>3, <3>4, GoneLater DEF Behind, Seen
  <2>4. cursor' = cursor \/ \E s \in Sweeps : setCursor(s) /\ cursor' = sweep[s].keep
    BY DEF Next, newDataItemBatchInsertHandler, prepareBundleHandler, updateBundleAsPermanent,
           archiveCopyHandler, copyKeyToArchive, vars, getCursor, SweepStep, fetchPage,
           reclaimBundleFromBundler, ReclaimRaw, ReclaimBundle, Advance, setCursor, Crash
  <2> QED BY <2>2, <2>3, <2>4
<1> QED BY <1>1, <1>2 DEF Behind

\* Every bundle before the persisted cursor is off the bundler's store for good.
THEOREM NothingLeftBehindAlways == Spec => []NothingLeftBehind
<1>1. Behind => NothingLeftBehind
  BY DEF Behind, Gone, Keys, NothingLeftBehind
<1> QED BY <1>1, TypesAlways, InitBehind, StepBehind, PTL DEF Spec
=============================================================================
