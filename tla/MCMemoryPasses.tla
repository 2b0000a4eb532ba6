--------------------------- MODULE MCMemoryPasses ---------------------------
(***************************************************************************)
(* An instance of MemoryStore and ConflictScan for TLC.  A behaviour has   *)
(* one of three focuses: "passes" (stores, recalls, consolidation,         *)
(* housekeeping, crashes and days), "edits" (stores and what the user does *)
(* to memories) and "conflicts" (scans, and the edits that happen          *)
(* meanwhile).                                                             *)
(***************************************************************************)
EXTENDS MCMemoryStore, ConflictScan

VARIABLE focus

PassesNext ==
    \/ \E i \in Ids, in \in PassInputs : Store(i, in) \/ StoreInterrupted(i, in)
    \/ \E i \in Ids : Recall(i)
    \/ \E c \in Consolidations : ConsolidateStart(c.scope, c.mode)
    \/ \E filter \in Housekeepings : HousekeepingStart(filter)
    \/ PassStep
    \/ Crash
    \/ NextDay

\* What is edited becomes a duplicate of another row, or no more.
EditsNext ==
    \/ \E i \in Ids, in \in EditInputs : Store(i, in)
    \/ \E i \in Ids, caller \in Callers :
        \/ Delete(i, caller) \/ Pin(i, caller) \/ Unpin(i, caller)
        \/ \E content \in {c1, c2} :
            \/ Update(i, content, caller)
            \/ \E new \in Ids : \/ Correct(i, new, content, caller)
                                \/ \E j \in Ids : UserMerge(i, j, new, content, caller)
    \/ \E i \in Ids, lifecycle \in {"working", "episodic"}, allow \in BOOLEAN :
            Restore(i, lifecycle, allow)

\* Two memories of alice, and what takes their place.  A capture whose scan
\* finds nothing is a plain store.
ConflictInputs == {Entry("user", ScopeOf(alice, None), "fact", "episodic", c, 0) : c \in {c1, c2}}

ConflictsNext ==
    \/ ScanStart(FilterOf(alice))
    \/ \E i \in Ids, in \in ConflictInputs : CaptureStore(i, in)
    \/ \E i \in Ids : DetectStart(i)
    \/ DetectNothing \/ DetectEnd
    \/ \E c \in scan.conflicts : Resolve(c)
    \/ /\ UNCHANGED scan
       /\ \E i \in Ids : \/ \E new \in Ids : Correct(i, new, c1b, alice)
                         \/ Delete(i, alice) \/ Restore(i, "episodic", FALSE)

MCInit == ScanInit /\ focus \in {"passes", "edits", "conflicts"}

MCNext ==
    /\ UNCHANGED focus
    /\ \/ focus = "passes" /\ PassesNext /\ UNCHANGED scan
       \/ focus = "edits" /\ EditsNext /\ UNCHANGED scan
       \/ focus = "conflicts" /\ ConflictsNext

MCSpec == MCInit /\ [][MCNext]_<<scanVars, focus>>

AllInputs == PassInputs \cup EditInputs \cup ConflictInputs
=============================================================================
