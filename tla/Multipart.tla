----------------------------- MODULE Multipart -----------------------------
(***************************************************************************)
(* Uploads in parts: the chunks, posted to several processes of which each *)
(* caches the upload's row, and the finalization, by request or by job,    *)
(* which assembles, validates and places the item, pays and inserts it,    *)
(* and goes on where an earlier attempt stopped.  An item has at most one  *)
(* multipart upload, and may be posted whole (Ingest) besides.             *)
(***************************************************************************)
EXTENDS Ingest, Functions

CONSTANTS
    ChunkSizes,   \* what the client cuts an item into: full chunks, and a last one
    Attempts      \* of a finalize-upload job

ASSUME MultipartAssumption ==
    /\ ChunkSizes \in Seq(Nat \ {0}) /\ ChunkSizes # <<>> /\ Attempts \in Nat
    /\ \A i \in 1..Len(ChunkSizes) - 1 : ChunkSizes[i] = ChunkSizes[1]
    /\ ChunkSizes[Len(ChunkSizes)] <= ChunkSizes[1]
    /\ None \notin {"parts", "whole", "jumbled"}

VARIABLES
    row,      \* in_flight_multi_part_upload: None or [size, failed]
    done,     \* finished_multi_part_upload: None, "ok" or why it failed
    copies,   \* the chunk sizes in copies of the row that processes keep
    object,   \* in the object store: None, "parts", "whole" or "jumbled"
    parts,    \* <<part number, chunk>>
    sent,     \* chunks the client had an answer for
    jobs      \* attempts left of finalize-upload jobs

mpuVars == <<row, done, copies, object, parts, sent, jobs>>
allVars == <<ingestVars, mpuVars>>

Chunks == 1..Len(ChunkSizes)
Offset(i) == SumFunctionOnSet(ChunkSizes, 1..(i - 1))
Reasons == {"UNDERFUNDED", "APPROVAL_FAILED"}
Larger(m, n) == IF m > n THEN m ELSE n
Open(x) == row[x] # None /\ ~row[x].failed

(***************************************************************************)
(* Chunks.                                                                 *)
(***************************************************************************)
\* An item is posted whole before no chunk or after all of them: what the two touch
\* has nothing in common but what a finalization finds.
NotAmongChunks(x) == object[x] = "parts" => sent[x] = Chunks
createMultiPartUpload(x) ==
    /\ row[x] = None /\ done[x] = None /\ object[x] = None /\ begun[x] = 0
    /\ \E size \in {0, ChunkSizes[1]} :
          /\ row' = [row EXCEPT ![x] = [size |-> size, failed |-> FALSE]]
          /\ copies' = [copies EXCEPT ![x] = {size}]
    /\ object' = [object EXCEPT ![x] = "parts"]
    /\ UNCHANGED <<ingestVars, done, parts, sent, jobs>>

\* The chunk size a process takes the upload to have: that of a copy of the row, which
\* may be older than the row, or, where it has none any more, the row's.
Taken(x) == copies[x] \cup (IF Open(x) THEN {row[x].size} ELSE {})

\* Mutant: only a chunk size nobody gave is learnt.
SizeNotRaised(size, i) == size = 0
\* The chunk size is not known, or this chunk is larger than what it is taken to be.
Raises(size, i) == size = 0 \/ ChunkSizes[i] > size

\* The row as updateMultipartChunkSize leaves it: the larger size wins, and a row that
\* is no longer there is inserted again.
Raised(x, size) ==
    IF row[x] = None THEN [size |-> size, failed |-> FALSE]
    ELSE [row[x] EXCEPT !.size = Larger(@, size)]

\* A chunk's part number is its offset in chunks of the size expected, which a last
\* chunk that comes first may set too small; an offset that is no multiple is refused.
\* A part whose upload was completed is refused by the object store, after the rest.
postDataItemChunk(x, i) ==
    \E size \in Taken(x) :
        LET expected == IF Raises(size, i) THEN Raised(x, ChunkSizes[i]).size ELSE size
            fits == Offset(i) % expected = 0
            number == (Offset(i) \div expected) + 1
        IN  /\ IF i \in sent[x] THEN Fault("repeated chunk") ELSE NoFault
            /\ IF Raises(size, i) THEN row' = [row EXCEPT ![x] = Raised(x, ChunkSizes[i])]
                                  ELSE UNCHANGED row
            /\ copies' = [copies EXCEPT ![x] = IF fits THEN @ \cup {expected} ELSE @]
            /\ IF fits /\ object[x] = "parts"
               THEN /\ parts' = [parts EXCEPT ![x] =
                            {q \in @ : q[1] # number} \cup {<<number, i>>}]
                    /\ sent' = [sent EXCEPT ![x] = @ \cup {i}]
               ELSE UNCHANGED <<parts, sent>>
            /\ UNCHANGED <<content, inFlight, stored, quarantining, paymentVars, queue, db, run,
                           begun, done, object, jobs>>

\* The parts in the order of their numbers are the chunks in theirs.
InOrder(x) ==
    /\ {q[2] : q \in parts[x]} = Chunks
    /\ \A q, q2 \in parts[x] : q[1] < q2[1] <=> q[2] < q2[2]

(***************************************************************************)
(* Finalization: begun by a request, when the chunks were answered, or by  *)
(* the job a request for asynchronous validation leaves.                   *)
(***************************************************************************)
finalizeMultipartUploadWithHttpRequest(x) ==
    /\ sent[x] = Chunks /\ begun[x] < MaxBegun /\ begun' = [begun EXCEPT ![x] = @ + 1]
    /\ \/ Begin(x, "finalize", <<"finalize">>)
       \/ Begin(x, "finalize", <<"finalize", "async">>)
    /\ UNCHANGED <<content, inFlight, stored, quarantining, paymentVars, queue, db, mpuVars>>

\* An attempt that finds the item in the database ends the job.
finalizeUploadWorker(x) ==
    /\ jobs[x] > 0
    /\ IF x \in db THEN jobs' = [jobs EXCEPT ![x] = 0] /\ UNCHANGED <<run, faultVars>>
       ELSE jobs' = [jobs EXCEPT ![x] = @ - 1] /\ Begin(x, "finalize", <<"finalize">>)
    /\ UNCHANGED <<content, inFlight, stored, quarantining, paymentVars, queue, db, begun,
                   row, done, copies, object, parts, sent>>

\* Finished before: failed, in the database, or to be resumed.  A lookup that fails
\* counts as finding no finished upload.
finalizeMultipartUpload(r) ==
    LET x == run[r].x
        first == Do(r, IF run[r].do = <<"finalize">> THEN <<"assemble">>
                       ELSE <<"assemble", "async">>)
    IN  /\ At(r, "finalize")
        /\ \/ done[x] = None /\ first /\ NoFault
           \/ done[x] = "ok" /\ x \notin db /\ Do(r, <<"place">>) /\ NoFault
           \/ done[x] # None /\ (done[x] = "ok" => x \in db) /\ End(r) /\ NoFault
           \/ done[x] # None /\ Fault("lookup") /\ first
        /\ UNCHANGED <<content, inFlight, stored, quarantining, paymentVars, queue, db, begun,
                       mpuVars>>

\* The row, or a process's copy of it, has the object's key.
finalizeMPUWithInFlightEntity(r) ==
    LET x == run[r].x IN
        /\ At(r, "assemble")
        /\ IF Taken(x) = {} \/ object[x] = None THEN End(r) /\ UNCHANGED <<object, parts>>
           ELSE IF object[x] # "parts" THEN Do(r, <<"validate">>) /\ UNCHANGED <<object, parts>>
           ELSE /\ object' = [object EXCEPT ![x] = IF InOrder(x) THEN "whole" ELSE "jumbled"]
                /\ parts' = [parts EXCEPT ![x] = {}]
                /\ Do(r, IF Tail(run[r].do) = <<>> THEN <<"validate">> ELSE <<"enqueue job">>)
        /\ UNCHANGED <<content, inFlight, stored, quarantining, paymentVars, queue, db, begun,
                       faultVars, row, done, copies, sent, jobs>>

enqueueFinalizeUpload(r) ==
    /\ At(r, "enqueue job") /\ End(r)
    /\ \/ jobs' = [jobs EXCEPT ![run[r].x] = Attempts] /\ NoFault
       \/ Fault("step") /\ UNCHANGED jobs
    /\ UNCHANGED <<content, inFlight, stored, quarantining, paymentVars, queue, db, begun,
                   row, done, copies, object, parts, sent>>

\* An invalid item fails the upload for good; one refused only this attempt.  Bundles are
\* not read here, and an approval without an amount is left out.
validateMultipartUpload(r) ==
    LET x == run[r].x
        valid == content[x] # "invalid" /\ object[x] # "jumbled"
    IN  /\ At(r, "validate")
        /\ IF valid /\ content[x] # "refused" THEN Do(r, <<"finish">>) ELSE End(r)
        /\ IF ~valid /\ row[x] # None THEN row' = [row EXCEPT ![x].failed = TRUE]
                                      ELSE UNCHANGED row
        /\ UNCHANGED <<content, inFlight, stored, quarantining, paymentVars, queue, db, begun,
                       faultVars, done, copies, object, parts, sent, jobs>>

\* The row moves from one table to the other: for one of two finalizations.
finalizeMultiPartUpload(r) ==
    LET x == run[r].x IN
    /\ At(r, "finish")
    /\ IF row[x] = None \/ done[x] # None THEN End(r) /\ UNCHANGED <<row, done>>
       ELSE /\ row' = [row EXCEPT ![x] = None] /\ done' = [done EXCEPT ![x] = "ok"]
            /\ Do(r, <<"place">>)
    /\ UNCHANGED <<content, inFlight, stored, quarantining, paymentVars, queue, db, begun,
                   faultVars, copies, object, parts, sent, jobs>>

\* Mutant: the raw data item is not looked for.
PlaceAgain(r) ==
    LET x == run[r].x IN
    /\ At(r, "place")
    /\ IF object[x] = None THEN End(r) /\ UNCHANGED <<stored, object>>
       ELSE /\ stored' = stored \cup {x} /\ object' = [object EXCEPT ![x] = None]
            /\ Do(r, <<"pay">>)
    /\ UNCHANGED <<content, inFlight, quarantining, paymentVars, queue, db, begun, faultVars,
                   row, done, copies, parts, sent, jobs>>
\* The object is moved to where raw data items are, unless an earlier attempt, or a post,
\* put it there; an object in neither place ends every attempt.
finalizeMPUWithValidatedInfo(r) ==
    LET x == run[r].x IN
    /\ At(r, "place")
    /\ IF x \in stored THEN Do(r, <<"pay">>) /\ UNCHANGED <<stored, object>>
       ELSE IF object[x] = None THEN End(r) /\ UNCHANGED <<stored, object>>
       ELSE /\ stored' = stored \cup {x} /\ object' = [object EXCEPT ![x] = None]
            /\ Do(r, <<"pay">>)
    /\ UNCHANGED <<content, inFlight, quarantining, paymentVars, queue, db, begun, faultVars,
                   row, done, copies, parts, sent, jobs>>

\* Without credits the quarantine is left to run and the upload fails.
reserveForMultipart(r) ==
    LET x == run[r].x IN
    /\ At(r, "pay")
    /\ \/ Reserve(x) /\ Do(r, <<"approve">>) /\ NoFault /\ UNCHANGED quarantining
       \/ /\ x \notin reserved /\ Do(r, <<"UNDERFUNDED">>) /\ NoFault
          /\ quarantining' = quarantining \cup {<<x, "look">>} /\ UNCHANGED <<reserved, paid>>
       \/ Fault("no reserve answer") /\ Reserve(x) /\ End(r) /\ UNCHANGED quarantining
    /\ UNCHANGED <<content, inFlight, stored, refundJobs, queue, db, begun, mpuVars>>

approveForMultipart(r) ==
    /\ At(r, "approve")
    /\ \/ Do(r, <<"insert">>) /\ NoFault
       \/ Fault("approval") /\ Do(r, <<"refund", "APPROVAL_FAILED">>)
    /\ UNCHANGED <<content, inFlight, stored, quarantining, paymentVars, queue, db, begun, mpuVars>>

failFinishedMultiPartUpload(r) ==
    /\ run[r] # None /\ Head(run[r].do) \in Reasons /\ Rest(r)
    /\ done' = [done EXCEPT ![run[r].x] = Head(run[r].do)]
    /\ UNCHANGED <<content, inFlight, stored, quarantining, paymentVars, queue, db, begun,
                   faultVars, row, copies, object, parts, sent, jobs>>

\* Any failure is refunded, that the item is there already among them.
insertNewDataItem(r) ==
    LET x == run[r].x IN
    /\ At(r, "insert")
    /\ \/ x \notin db /\ db' = db \cup {x} /\ End(r) /\ NoFault
       \/ x \in db /\ Do(r, <<"refund">>) /\ NoFault /\ UNCHANGED db
       \/ Fault("step") /\ Do(r, <<"refund", "quarantine">>) /\ UNCHANGED db
    /\ UNCHANGED <<content, inFlight, stored, quarantining, paymentVars, queue, begun, mpuVars>>

(***************************************************************************)
(* Behaviours.                                                             *)
(***************************************************************************)
Init ==
    /\ IngestInit
    /\ row = [x \in Items |-> None] /\ done = [x \in Items |-> None]
    /\ copies = [x \in Items |-> {}] /\ object = [x \in Items |-> None]
    /\ parts = [x \in Items |-> {}] /\ sent = [x \in Items |-> {}]
    /\ jobs = [x \in Items |-> 0]

FinalizeStep(r) ==
    \/ finalizeMultipartUpload(r) \/ finalizeMPUWithInFlightEntity(r)
    \/ enqueueFinalizeUpload(r) \/ validateMultipartUpload(r) \/ finalizeMultiPartUpload(r)
    \/ finalizeMPUWithValidatedInfo(r) \/ reserveForMultipart(r) \/ approveForMultipart(r)
    \/ failFinishedMultiPartUpload(r) \/ insertNewDataItem(r)
Next ==
    \/ \E r \in Requests : (PostStep(r) \/ Crash(r)) /\ UNCHANGED mpuVars
    \/ \E r \in Requests : FinalizeStep(r)
    \/ \E x \in Items :
          \/ NotAmongChunks(x) /\ dataItemRoute(x) /\ UNCHANGED mpuVars
          \/ (Worker(x) \/ Expire(x)) /\ UNCHANGED mpuVars
          \/ finalizeMultipartUploadWithHttpRequest(x) \/ finalizeUploadWorker(x)
          \/ createMultiPartUpload(x) \/ \E i \in Chunks : postDataItemChunk(x, i)

Spec == Init /\ [][Next]_allVars
\* Requests run on, and workers take their jobs.
Fair ==
    /\ \A r \in Requests : WF_allVars((PostStep(r) /\ UNCHANGED mpuVars) \/ FinalizeStep(r))
    /\ \A x \in Items : /\ WF_allVars(Worker(x) /\ UNCHANGED mpuVars)
                        /\ SF_allVars(finalizeUploadWorker(x))
FairSpec == Spec /\ Fair

(***************************************************************************)
(* Properties.                                                             *)
(***************************************************************************)

\* Chunks posted in any order, to any process, whether or not the client gave their
\* size, are assembled in their order: also when the last one, which is smaller, came
\* first.  (Not when a chunk is posted again: a last chunk then may leave two parts.)
AssembledInOrder ==
    "repeated chunk" \notin happened => \A x \in Items : object[x] # "jumbled"

\* A job that finalizes a valid upload gets it into the database, or records why not:
\* whatever attempt dies, or loses an answer, a later one goes on from there.  (Not after
\* an attempt whose item was not paid for, or not inserted, and so is quarantined: if the
\* failure is not recorded too, later attempts find no object.)
ResumedUpload ==
    \A x \in Items :
        (jobs[x] > 0 /\ object[x] = "whole" /\ content[x] \notin {"invalid", "refused"}) ~>
            (\/ x \in db \/ done[x] \in Reasons \/ "overlap" \in happened
             \/ <<x, "look">> \in quarantining)
=============================================================================
