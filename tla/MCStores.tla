------------------------------ MODULE MCStores ------------------------------
(***************************************************************************)
(* TLC instances of Archive and of ChunkSeeding in one run: a behaviour is *)
(* of the one or of the other, which keep different objects in the store.  *)
(* A bundle of one item, and one whose items all failed to become          *)
(* permanent; or a bundle of two chunks that is seeded.                    *)
(***************************************************************************)
EXTENDS Archive, ChunkSeeding

CONSTANTS x1, b1, b2, c1

VARIABLE about   \* whether copies or chunks are looked at

MCItemsOf == [b \in Bundles |-> IF b = b1 THEN {x1} ELSE {}]
MCChunksOf == [b \in Posted |-> 2]

Copying(A) == about = "copies" /\ A /\ UNCHANGED <<about, seedingVars>>
Chunking(A) == about = "chunks" /\ A /\ UNCHANGED <<about, vars>>
allVars == <<about, vars, seedingVars>>

StoresInit ==
    /\ Init /\ SeedingInit
    /\ \/ about = "chunks" /\ row[c1] = "posted"
       \/ about = "copies" /\ row[c1] = "seeded" /\ gate
StoresNext == Copying(Next) \/ Chunking(SeedingNext)
\* The fairness of the two modules, for the behaviours they are of.
StoresSpec ==
    /\ StoresInit /\ [][StoresNext]_allVars
    /\ \A k \in Copied : /\ WF_allVars(Copying(archiveCopyHandler(k)))
                         /\ WF_allVars(Copying(copyKeyToArchive(k)))
    /\ \A s \in Sweeps : WF_allVars(Copying(getCursor(s))) /\ WF_allVars(Copying(SweepStep(s)))
    /\ SF_allVars(Chunking(StartSeed)) /\ WF_allVars(Chunking(SeedStep))
=============================================================================
