--------------------------- MODULE MCMemoryStore ---------------------------
(***************************************************************************)
(* Small instances of MemoryStore for TLC.  Contents c1 and c1b are        *)
(* near-duplicates of each other; c2 is unrelated.                         *)
(***************************************************************************)
EXTENDS MemoryStore, TLC

CONSTANTS m1, m2, m3, alice, bob, chat, c1, c1b, c2

MCSimilar == {<<c, d>> \in Contents \X Contents : c = d \/ {c, d} = {c1, c1b}}

ScopeOf(user, ch) == [user |-> user, chat |-> ch, global |-> FALSE]

FilterOf(user) == [user |-> user, chat |-> None, global |-> None]

Symmetry == Permutations(Ids)

Entry(actor, scope, type, lifecycle, content, importance) ==
    [actor |-> actor, scope |-> scope, type |-> type, lifecycle |-> lifecycle,
     content |-> content, importance |-> importance]

\* The passes: duplicates of both qualities, a working row, a row of another
\* user, a row of nobody in alice's chat, a row without any scope.
PassInputs ==
    {Entry("user", ScopeOf(alice, chat), "fact", "episodic", c1, 1),
     Entry("user", ScopeOf(alice, None), "fact", "episodic", c1b, 0),
     Entry("user", ScopeOf(bob, chat), "fact", "working", c1, 0),
     Entry("system", ScopeOf(None, None), "fact", "episodic", c1, 1)}

PassFilters == {FilterOf(alice)}
PassConsolidations ==
    {[scope |-> FilterOf(alice), mode |-> "light"], [scope |-> NoScope, mode |-> "deep"]}

\* Housekeeping: duplicates, and rows of a type with a limit.
HouseInputs ==
    {Entry("user", ScopeOf(alice, None), "summary", "episodic", c1, 0),
     Entry("user", ScopeOf(alice, None), "summary", "episodic", c2, 0)}

\* The edits: two of alice's memories and one of bob's.
EditInputs ==
    {Entry("user", ScopeOf(alice, None), "fact", "episodic", c1, 0),
     Entry("user", ScopeOf(bob, None), "fact", "episodic", c1, 1),
     Entry("system", ScopeOf(None, None), "fact", "episodic", c1, 0)}

MCKindLimit == [type \in Types |-> 1]

\* Three memories exceed every LIMIT but that of a deep consolidation, two none.
MCLimit == [consolidate |-> [m \in Modes |-> IF m = "deep" THEN 3 ELSE 2],
            migrate |-> [m \in Modes |-> 2],
            dedupe |-> 2, stale |-> 2, batch |-> 2, kind |-> 2, merges |-> 1]

-----------------------------------------------------------------------------
\* Housekeeping, over memories of the first day.  Live ones are read and pinned,
\* others still counted as recalled, or restored.
HouseNext ==
    \/ today = 0 /\ \E i \in Ids, in \in Inputs : Store(i, in)
    \/ \E i \in Ids : Live(mem, i) /\ (GetById(i) \/ Pin(i, None))
    \/ \E i \in Ids : Recall(i) \/ Restore(i, "episodic", TRUE)
    \/ \E filter \in Housekeepings : HousekeepingStart(filter)
    \/ MergeNext \/ MergeEnd \/ ArchiveNext \/ ArchiveEnd
    \/ ReinforceNext \/ ReinforceEnd \/ LimitNext \/ LimitEnd
    \/ NextDay

HouseSpec == Init /\ [][HouseNext]_vars
=============================================================================
