------------------------------ MODULE Archive ------------------------------
(***************************************************************************)
(* The two object stores when an archive is configured: objects are        *)
(* written to the bundler's store, jobs copy them to the archive, and the  *)
(* sweep over the permanent bundles takes them off the bundler's store     *)
(* once the archive answers that it has them.                              *)
(***************************************************************************)
EXTENDS Naturals, Sequences, FiniteSets, FiniteSetsExt, SequencesExt

CONSTANTS
    Bundles, Items,
    ItemsOf,      \* the items of each bundle
    Sweeps,       \* worker processes that may run the clean-up at once
    PageSize,     \* PERMANENT_BUNDLE_BATCH_SIZE
    Attempts,     \* of an archive-copy job
    None,
    MaxFaults     \* bound: calls that fail, copies that come out short, crashes

\* A page is more than the row at the cursor, which it may begin with.
ASSUME ArchiveAssumption ==
    /\ ItemsOf \in [Bundles -> SUBSET Items]
    /\ PageSize \in Nat \ {0, 1} /\ Attempts \in Nat \ {0} /\ MaxFaults \in Nat

VARIABLES
    bundler,     \* keys in the bundler's store
    archive,     \* keys in the archive: None, "whole" or "short"
    jobs,        \* attempts left of the archive-copy jobs of each key
    copying,     \* keys an archive-copy job has written and not yet checked
    permanent,   \* permanent_bundle rows, by permanent_date and bundle_id
    cursor,      \* the config row: how many of them are done with
    sweep,       \* each sweep under way, or None
    faults,
    shortened    \* whether a copy came out short

storeVars == <<bundler, archive, jobs, copying>>
faultVars == <<faults, shortened>>
vars == <<storeVars, permanent, cursor, sweep, faultVars>>

Raw(x)     == <<"raw-data-item", x>>
Payload(b) == <<"bundle-payload", b>>
BundleTx(b) == <<"bundle", b>>
Raws(b)    == {Raw(x) : x \in ItemsOf[b]}
Copied     == {Raw(x) : x \in Items} \cup {Payload(b) : b \in Bundles}
Kept(b)    == Raws(b) \cup {Payload(b)}

Fault == faults < MaxFaults /\ faults' = faults + 1 /\ UNCHANGED shortened
NoFault == UNCHANGED faultVars

\* Copies are asked for as best one can: an enqueue that fails is logged.
enqueueArchiveCopy(keys) ==
    \/ /\ jobs' = [k \in Copied |-> IF k \in keys THEN Attempts ELSE jobs[k]]
       /\ NoFault
    \/ keys # {} /\ Fault /\ UNCHANGED jobs

(***************************************************************************)
(* The bundling pipeline, as far as it writes objects.                     *)
(***************************************************************************)
newDataItemBatchInsertHandler(x) ==
    /\ Raw(x) \notin bundler /\ \A n \in DOMAIN permanent : x \notin ItemsOf[permanent[n]]
    /\ bundler' = bundler \cup {Raw(x)} /\ enqueueArchiveCopy({Raw(x)})
    /\ UNCHANGED <<archive, copying, permanent, cursor, sweep>>

prepareBundleHandler(b) ==
    /\ Raws(b) \subseteq bundler /\ BundleTx(b) \notin bundler
    /\ \A n \in DOMAIN permanent : permanent[n] # b
    /\ bundler' = bundler \cup {Payload(b), BundleTx(b)}
    /\ enqueueArchiveCopy({Payload(b)})
    /\ UNCHANGED <<archive, copying, permanent, cursor, sweep>>

updateBundleAsPermanent(b) ==
    /\ BundleTx(b) \in bundler /\ \A n \in DOMAIN permanent : permanent[n] # b
    /\ permanent' = Append(permanent, b)
    /\ UNCHANGED <<storeVars, cursor, sweep, faultVars>>

(***************************************************************************)
(* archiveCopyHandler.                                                     *)
(***************************************************************************)
\* Mutant: a failed attempt is counted by the job and by the queue.
AttemptedTwice(k) == jobs' = [jobs EXCEPT ![k] = @ - 2]
Attempted(k) == jobs' = [jobs EXCEPT ![k] = @ - 1]

\* A key the archive has is skipped, by existence only.  An error of the look there
\* counts as absence.  An object that is copied is checked, in another call.  Two jobs of
\* one key may overlap in the code: both write what the bundler's store has.  Here a key is
\* looked at again when it is checked; an overlap differs only where a copy came out short.
archiveCopyHandler(k) ==
    /\ jobs[k] > 0 /\ k \notin copying
    /\ \/ /\ archive[k] # None /\ jobs' = [jobs EXCEPT ![k] = 0]
          /\ UNCHANGED <<archive, copying>> /\ NoFault
       \/ /\ k \notin bundler /\ archive[k] = None /\ Attempted(k)
          /\ UNCHANGED <<archive, copying>> /\ NoFault
       \/ Fault /\ Attempted(k) /\ UNCHANGED <<archive, copying>>
       \/ /\ k \in bundler /\ copying' = copying \cup {k} /\ UNCHANGED jobs
          /\ \/ archive[k] = None /\ archive' = [archive EXCEPT ![k] = "whole"] /\ NoFault
             \/ archive[k] = None /\ archive' = [archive EXCEPT ![k] = "short"]
                /\ faults < MaxFaults /\ faults' = faults + 1 /\ shortened' = TRUE
             \/ archive[k] # None /\ archive' = [archive EXCEPT ![k] = "whole"] /\ Fault
    /\ UNCHANGED <<bundler, permanent, cursor, sweep>>

\* The sizes are compared: a short copy is deleted and the job fails.  Where the
\* comparison, or that deletion, fails, whatever was written stays.
copyKeyToArchive(k) ==
    /\ k \in copying /\ copying' = copying \ {k}
    /\ \/ /\ archive[k] = "whole" /\ jobs' = [jobs EXCEPT ![k] = 0]
          /\ UNCHANGED archive /\ NoFault
       \/ /\ archive[k] = "short" /\ Attempted(k)
          /\ archive' = [archive EXCEPT ![k] = None] /\ NoFault
       \/ Fault /\ Attempted(k) /\ UNCHANGED archive
    /\ UNCHANGED <<bundler, permanent, cursor, sweep>>

(***************************************************************************)
(* cleanupBundlerAfterArchive: runBundlerReclaimSweep, bundle by bundle     *)
(* reclaimBundleFromBundler.                                               *)
(***************************************************************************)
To(s, record) == sweep' = [sweep EXCEPT ![s] = record]
In(s, step) == sweep[s] # None /\ sweep[s].step = step
Current(s) == permanent[sweep[s].scan + 1]

getCursor(s) ==
    /\ sweep[s] = None
    /\ To(s, [step |-> "fetch", scan |-> cursor, last |-> cursor, full |-> TRUE,
              keep |-> cursor, hole |-> FALSE, dirty |-> FALSE, missing |-> {}, raws |-> {}])
    /\ UNCHANGED <<storeVars, permanent, cursor, faultVars>>

\* The rows after the scan's position; the one there comes again when the microseconds
\* of its date were lost with the cursor.
fetchPage(s) ==
    /\ In(s, "fetch")
    /\ \E from \in {sweep[s].scan} \cup ({sweep[s].scan - 1} \cap Nat) :
         LET last == IF from + PageSize < Len(permanent) THEN from + PageSize ELSE Len(permanent)
         IN  IF from = last THEN To(s, None)
             ELSE To(s, [sweep[s] EXCEPT !.step = "payload", !.scan = from, !.last = last,
                                         !.full = (last = from + PageSize)])
    /\ UNCHANGED <<storeVars, permanent, cursor, faultVars>>

\* Without the payload in the archive the bundle is left for another time.
reclaimBundleFromBundler(s) ==
    LET p == Payload(Current(s))
        Deferred == To(s, [sweep[s] EXCEPT !.step = "next", !.missing = {p}])
    IN
    /\ In(s, "payload")
    /\ \/ archive[p] = None /\ Deferred /\ NoFault
       \/ archive[p] # None /\ Fault /\ Deferred
       \/ /\ archive[p] # None /\ NoFault
          /\ To(s, [sweep[s] EXCEPT !.step = "raws", !.raws = Raws(Current(s)), !.missing = {}])
    /\ UNCHANGED <<storeVars, permanent, cursor>>

\* Mutant: a raw data item is deleted with its bundle, not on its own copy.
ReclaimUngated(s, k) ==
    /\ In(s, "raws") /\ k \in sweep[s].raws
    /\ To(s, [sweep[s] EXCEPT !.raws = @ \ {k}])
    /\ bundler' = bundler \ {k} /\ NoFault
    /\ UNCHANGED <<archive, jobs, copying, permanent, cursor>>
\* Each raw data item on its own copy.
ReclaimRaw(s, k) ==
    /\ In(s, "raws") /\ k \in sweep[s].raws
    /\ \/ /\ archive[k] # None /\ bundler' = bundler \ {k} /\ NoFault
          /\ To(s, [sweep[s] EXCEPT !.raws = @ \ {k}])
       \/ /\ archive[k] = None /\ UNCHANGED bundler /\ NoFault
          /\ To(s, [sweep[s] EXCEPT !.raws = @ \ {k}, !.missing = @ \cup {k}])
       \/ /\ Fault /\ UNCHANGED bundler
          /\ To(s, [sweep[s] EXCEPT !.raws = @ \ {k}, !.missing = @ \cup {k}])
    /\ UNCHANGED <<archive, jobs, copying, permanent, cursor>>

\* The payload, and the bundle transaction, which is on chain.
ReclaimBundle(s) ==
    LET b == Current(s) IN
    /\ In(s, "raws") /\ sweep[s].raws = {}
    /\ bundler' = bundler \ {Payload(b), BundleTx(b)} /\ NoFault
    /\ To(s, [sweep[s] EXCEPT !.step = "next"])
    /\ UNCHANGED <<archive, jobs, copying, permanent, cursor>>

\* On to the next row, or the end of the page; the cursor to keep stays before the
\* first bundle that has to be seen again.
Advanced(r) ==
    [r EXCEPT !.scan = @ + 1, !.missing = {},
        !.step = IF r.scan + 1 < r.last THEN "payload" ELSE "page",
        !.hole = @ \/ r.missing # {},
        !.keep = IF r.hole \/ r.missing # {} THEN @ ELSE r.scan + 1,
        !.dirty = @ \/ ~(r.hole \/ r.missing # {})]
\* Mutant: a hole is forgotten when the next bundle is done with.
AdvanceOverHole(s) ==
    /\ In(s, "next") /\ enqueueArchiveCopy(sweep[s].missing)
    /\ To(s, [Advanced([sweep[s] EXCEPT !.hole = FALSE]) EXCEPT !.hole = FALSE])
    /\ UNCHANGED <<bundler, archive, copying, permanent, cursor>>
\* Mutant: what is missing from the archive is not asked for again.
AdvanceOnly(s) ==
    /\ In(s, "next") /\ To(s, Advanced(sweep[s]))
    /\ UNCHANGED <<storeVars, permanent, cursor, faultVars>>
\* What was missing from the archive is asked for again.
Advance(s) ==
    /\ In(s, "next") /\ enqueueArchiveCopy(sweep[s].missing)
    /\ To(s, Advanced(sweep[s]))
    /\ UNCHANGED <<bundler, archive, copying, permanent, cursor>>

\* A page that is not full is the last.
setCursor(s) ==
    /\ In(s, "page")
    /\ cursor' = IF sweep[s].dirty THEN sweep[s].keep ELSE cursor
    /\ To(s, IF sweep[s].full THEN [sweep[s] EXCEPT !.step = "fetch", !.dirty = FALSE] ELSE None)
    /\ UNCHANGED <<storeVars, permanent, faultVars>>

\* A crash, or a deletion that fails, ends the sweep, perhaps between its last two.
Crash(s) ==
    /\ sweep[s] # None /\ Fault /\ To(s, None)
    /\ \/ UNCHANGED bundler
       \/ In(s, "raws") /\ sweep[s].raws = {} /\ bundler' = bundler \ {Payload(Current(s))}
    /\ UNCHANGED <<archive, jobs, copying, permanent, cursor>>

(***************************************************************************)
(* Behaviours.                                                             *)
(***************************************************************************)
Init ==
    /\ bundler = {} /\ archive = [k \in Copied |-> None] /\ jobs = [k \in Copied |-> 0]
    /\ copying = {} /\ permanent = <<>> /\ cursor = 0 /\ sweep = [s \in Sweeps |-> None]
    /\ faults = 0 /\ shortened = FALSE

SweepStep(s) ==
    \/ fetchPage(s) \/ reclaimBundleFromBundler(s) \/ \E k \in Copied : ReclaimRaw(s, k)
    \/ ReclaimBundle(s) \/ Advance(s) \/ setCursor(s)
Next ==
    \/ \E x \in Items : newDataItemBatchInsertHandler(x)
    \/ \E b \in Bundles : prepareBundleHandler(b) \/ updateBundleAsPermanent(b)
    \/ \E k \in Copied : archiveCopyHandler(k) \/ copyKeyToArchive(k)
    \/ \E s \in Sweeps : getCursor(s) \/ SweepStep(s) \/ Crash(s)

Spec == Init /\ [][Next]_vars
\* Workers take their jobs; the clean-up is scheduled daily.
FairSpec ==
    /\ Spec
    /\ \A k \in Copied : WF_vars(archiveCopyHandler(k)) /\ WF_vars(copyKeyToArchive(k))
    /\ \A s \in Sweeps : WF_vars(getCursor(s)) /\ WF_vars(SweepStep(s))

(***************************************************************************)
(* Properties.                                                             *)
(***************************************************************************)

\* Every variable has its type.
TypeOK ==
    /\ bundler \subseteq Copied \cup {BundleTx(b) : b \in Bundles}
    /\ archive \in [Copied -> {None, "whole", "short"}]
    /\ jobs \in [Copied -> 0..Attempts] /\ copying \subseteq Copied
    /\ permanent \in Seq(Bundles) /\ cursor \in 0..Len(permanent)
    /\ \A s \in Sweeps : sweep[s] # None => sweep[s].keep <= sweep[s].last
    /\ faults \in 0..MaxFaults /\ shortened \in BOOLEAN

\* The sweep takes no object off the bundler's store that the archive has not whole,
\* whichever copies failed and whichever jobs run beside it.  (Not when a copy came out
\* short: the archive has it until the sizes are compared; and as long as the archive keeps
\* what it has, which is for its owner to configure.)
NeverTheLastCopy ==
    ~shortened =>
        \A n \in DOMAIN permanent : \A k \in Kept(permanent[n]) :
            k \in bundler \/ archive[k] = "whole"

\* Every bundle before the persisted cursor is off the bundler's store for good: a hole
\* left by a copy that was late, a crash or another sweep is not passed over.
NothingLeftBehind ==
    \A n \in 1..cursor : (Kept(permanent[n]) \cup {BundleTx(permanent[n])}) \cap bundler = {}

\* Every permanent bundle is archived and off the bundler's store in the end, although
\* enqueues are lost and jobs use up their attempts: the sweep asks for the copies again.
EverythingReclaimed ==
    \A b \in Bundles :
        (\E n \in DOMAIN permanent : permanent[n] = b) ~>
            \/ shortened
            \/ /\ \A k \in Kept(b) : archive[k] = "whole"
               /\ (Kept(b) \cup {BundleTx(b)}) \cap bundler = {}
=============================================================================
