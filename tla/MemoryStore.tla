---------------------------- MODULE MemoryStore ----------------------------
(***************************************************************************)
(* The memory table of EverMemory and everything that rewrites its rows:   *)
(* storing (with the maintenance that follows every store), reading, the   *)
(* user's edits, restoring, the consolidation pass and the housekeeping    *)
(* pass.                                                                   *)
(*                                                                         *)
(* All of this code is synchronous JavaScript on one SQLite connection, so *)
(* a pass is never interleaved with another operation of the process: an   *)
(* operation needs pass = "idle".  But a pass, and the maintenance of one  *)
(* row, is many independent UPDATE statements with no transaction around   *)
(* them, so the process may die (or a statement may throw) between any two *)
(* of them: Crash, and StoreInterrupted for a store.                       *)
(*                                                                         *)
(* Every query fetches the most recently updated rows up to a LIMIT, so    *)
(* what lies beyond it is not seen by the phase that fetches.              *)
(*                                                                         *)
(* Time is counted in days; rows written on the same day are ordered in    *)
(* either way.  A scope's project behaves exactly as its chat and is left  *)
(* out.                                                                    *)
(***************************************************************************)
EXTENDS Integers, FiniteSets

CONSTANTS
    Ids,            \* memory ids, minted once each
    Users, Chats,
    None,           \* an absent id, user, chat, day, filter clause or row
    Types,          \* memory types
    Contents,       \* contents, up to what the similarity score tells apart
    Similar,        \* pairs of contents that score as near-duplicates
    Inputs,         \* what callers ask to store
    Callers,        \* users on whose behalf edits are made; None is unscoped
    Consolidations, \* scopes and modes consolidation is called with
    Housekeepings,  \* scopes housekeeping is called with
    KindLimit,      \* live rows housekeeping leaves of each limited type
    Limit,          \* the LIMITs of the queries, and of merges in one pass
    MaxImportance,  \* importance runs over 0..MaxImportance
    ImportantAt,    \* DECAY: importance of a semantic memory (0.7)
    HotAt,          \* accesses of a frequently read memory (5)
    ProtectAt,      \* retrievals that protect from archival (1)
    SemanticAt,     \* retrievals of a semantic memory (3)
    WorkingDays,    \* days after which working becomes episodic (7)
    StaleDays,      \* days after which a memory is stale (30)
    MaxDay          \* bound: the last day of the run

Lifecycles == {"working", "episodic", "semantic", "archive"}
Passes == {"idle", "consolidate", "migrate", "merge", "archive", "reinforce", "limit"}
Modes == {"light", "daily", "deep"}

Scope == [user : Users \cup {None}, chat : Chats \cup {None}, global : BOOLEAN]
Filter == [user : Users \cup {None}, chat : Chats \cup {None}, global : BOOLEAN \cup {None}]
Input == [actor : {"user", "system"}, scope : Scope, type : Types,
          lifecycle : Lifecycles, content : Contents, importance : 0..MaxImportance]

\* consolidate, migrate: rows a consolidation of each mode visits in either
\* phase; dedupe, stale: rows looked at for one row's maintenance; batch: rows
\* a phase of housekeeping visits; kind: rows counted of a limited type;
\* merges: merges of one housekeeping.
Limits == [consolidate : [Modes -> Nat], migrate : [Modes -> Nat],
           dedupe : Nat, stale : Nat, batch : Nat, kind : Nat, merges : Nat]

ASSUME IdsAssumption == None \notin Ids /\ IsFiniteSet(Ids)
ASSUME LimitAssumption == Limit \in Limits
ASSUME UsersAssumption == None \notin Users /\ None \notin Chats /\ None \notin BOOLEAN
ASSUME SimilarAssumption ==
    /\ Similar \subseteq Contents \X Contents
    /\ \A c \in Contents : <<c, c>> \in Similar
    /\ \A c, d \in Contents : <<c, d>> \in Similar => <<d, c>> \in Similar
ASSUME InputsAssumption == Inputs \subseteq Input
ASSUME RequestsAssumption ==
    /\ Consolidations \subseteq [scope : Filter, mode : Modes]
    /\ Housekeepings \subseteq Filter
    /\ Callers \subseteq Users \cup {None}
ASSUME NumbersAssumption ==
    /\ MaxImportance \in Nat /\ ImportantAt \in Nat
    /\ HotAt \in Nat /\ ProtectAt \in Nat /\ SemanticAt \in Nat
    /\ ProtectAt <= SemanticAt
    /\ WorkingDays \in Nat /\ StaleDays \in Nat \ {0} /\ MaxDay \in Nat
    /\ None \notin 0..MaxDay

\* Both access counters only meet thresholds, so they saturate there.
Row == [type : Types, lifecycle : Lifecycles, scope : Scope, content : Contents,
        importance : 0..MaxImportance,
        created : 0..MaxDay, updated : 0..MaxDay, accessed : 0..MaxDay \cup {None},
        accesses : 0..HotAt, retrievals : 0..SemanticAt,
        pinned : BOOLEAN, archived : BOOLEAN, supersededBy : Ids \cup {None}]

ASSUME NoneAssumption == None \notin Row

VARIABLES
    mem,        \* memory_items: each id's row, None before it is inserted
    today,
    pass,       \* the phase of the pass that is running
    request,    \* the scope the running pass was called with
    mode,       \* the mode of the running consolidation
    todo,       \* rows the running phase has fetched and not yet visited
    done,       \* rows the running consolidation has maintained while its
                \* scans saw all there was, or the archive phase has visited
    merged      \* merges the running housekeeping has made

vars == <<mem, today, pass, request, mode, todo, done, merged>>
passVars == <<pass, request, mode, todo, done, merged>>

NoScope == [user |-> None, chat |-> None, global |-> None]

TypeOK ==
    /\ mem \in [Ids -> Row \cup {None}]
    /\ today \in 0..MaxDay
    /\ pass \in Passes
    /\ request \in Filter
    /\ mode \in Modes
    /\ todo \subseteq Ids
    /\ done \subseteq Ids
    /\ merged \in Nat

-----------------------------------------------------------------------------
(***************************************************************************)
(* Queries on the table                                                    *)
(***************************************************************************)
AtMost(a, b) == IF a < b THEN a ELSE b
AtLeast(a, b) == IF a > b THEN a ELSE b

Stored == {i \in Ids : mem[i] # None}

\* An active, unarchived row: the two flags are always written together.
Live(m, i) == m[i] # None /\ ~m[i].archived

\* Mutant of Matches: the WHERE clause forgets the user.
MatchesAnyUser(filter, scope) ==
    /\ filter.chat \in {None, scope.chat}
    /\ filter.global \in {None, scope.global}

\* A clause of the WHERE is absent when the filter leaves the field undefined.
Matches(filter, scope) ==
    /\ filter.user \in {None, scope.user}
    /\ filter.chat \in {None, scope.chat}
    /\ filter.global \in {None, scope.global}

Found(m, filter) == {i \in Ids : Live(m, i) /\ Matches(filter, m[i].scope)}

\* Rows of S that may have been read when S is read newest first.
Prefixes(m, S) == {T \in SUBSET S : \A i \in T, j \in S \ T : m[j].updated <= m[i].updated}

\* ORDER BY updated_at DESC LIMIT n.
Fetches(m, S, n) == {T \in Prefixes(m, S) : Cardinality(T) = AtMost(n, Cardinality(S))}

\* ORDER BY updated_at DESC: any of these may come first.
Newest(m, S) == {i \in S : \A j \in S : m[j].updated <= m[i].updated}
Oldest(m, S) == {i \in S : \A j \in S : m[j].created >= m[i].created}

NearDuplicate(m, i, j) ==
    m[i].type = m[j].type /\ <<m[i].content, m[j].content>> \in Similar

\* Higher quality wins; between equals the more recently updated row does.
MayPrefer(left, right) ==
    \/ left.importance > right.importance
    \/ left.importance = right.importance /\ left.updated >= right.updated

Retire(row, by) ==
    [row EXCEPT !.lifecycle = "archive", !.updated = today,
                !.archived = TRUE, !.supersededBy = by]

LastTouched(row) == IF row.accessed # None THEN row.accessed ELSE row.updated

-----------------------------------------------------------------------------
(***************************************************************************)
(* Maintenance of one row: retire its duplicates, or retire it; then       *)
(* retire the stale episodic rows of its scope.                            *)
(***************************************************************************)

\* Mutant of Rivals: the row is not taken out of its own candidates.
RivalsWithSelf(m, i) == {j \in Found(m, m[i].scope) : NearDuplicate(m, i, j)}

Rivals(m, i) ==
    {j \in Found(m, m[i].scope) \ {i} : NearDuplicate(m, i, j)}

SameType(m, i) == {j \in Found(m, m[i].scope) : m[j].type = m[i].type}

\* The rivals among the rows that the query of mergeDuplicates returns; the row
\* itself is taken out of them, but counts towards the LIMIT.
RivalScans(m, i) == {scan \cap Rivals(m, i) : scan \in Fetches(m, SameType(m, i), Limit.dedupe)}

\* Mutant of Decides: the scan stops at the first duplicate it beats.
DecidesOnce(m, i, rivals, beaten, winner) ==
    /\ \A j \in beaten : MayPrefer(m[i], m[j])
    /\ winner = None => \E j \in Ids : beaten = rivals \cap {j}
    /\ winner # None => MayPrefer(m[winner], m[i]) /\ beaten = {}

\* The scan goes through the rivals, newest first, until i meets its better.
Decides(m, i, rivals, beaten, winner) ==
    /\ \A j \in beaten : MayPrefer(m[i], m[j])
    /\ winner = None => beaten = rivals
    /\ winner # None =>
        /\ MayPrefer(m[winner], m[i]) /\ winner \notin beaten
        /\ beaten \in Prefixes(m, rivals) /\ beaten \cup {winner} \in Prefixes(m, rivals)

MergeDuplicates(m, i, beaten, winner) ==
    [j \in Ids |-> IF j \in beaten THEN Retire(m[j], i)
                   ELSE IF j = i /\ winner # None THEN Retire(m[i], winner)
                   ELSE m[j]]

Episodic(m, filter) == {j \in Found(m, filter) : m[j].lifecycle = "episodic"}

StaleEpisodic(m, filter, excluded) ==
    {j \in Episodic(m, filter) \ {excluded} : today - m[j].updated >= StaleDays}

\* The stale ones among the rows that the query of archiveStaleEpisodic returns.
StaleScans(m, i) ==
    {scan \cap StaleEpisodic(m, m[i].scope, i) :
        scan \in Fetches(m, Episodic(m, m[i].scope), Limit.stale)}

Archive(m, S) == [j \in Ids |-> IF j \in S THEN Retire(m[j], None) ELSE m[j]]

\* Mutant of Maintain: the fetched row is not checked again.
MaintainUnchecked(m, i) ==
    \E rivals \in RivalScans(m, i) : \E beaten \in SUBSET rivals, winner \in rivals \cup {None} :
        /\ Decides(m, i, rivals, beaten, winner)
        /\ LET n == MergeDuplicates(m, i, beaten, winner) IN
           \E stale \in StaleScans(n, i) : mem' = Archive(n, stale)

\* maintainForNewMemory on table m: the row is read again first, and a row
\* that is no longer live is left alone.
Maintain(m, i) ==
    IF Live(m, i)
    THEN \E rivals \in RivalScans(m, i) :
         \E beaten \in SUBSET rivals, winner \in rivals \cup {None} :
            /\ Decides(m, i, rivals, beaten, winner)
            /\ LET n == MergeDuplicates(m, i, beaten, winner) IN
               \E stale \in StaleScans(n, i) : mem' = Archive(n, stale)
    ELSE mem' = m

\* The same, ended after some of its UPDATEs by the process dying or by one of
\* them throwing: the merges come first, then the archivals, each newest first.
MaintainInterrupted(m, i) ==
    /\ Live(m, i)
    /\ \E rivals \in RivalScans(m, i) :
       \E beaten \in SUBSET rivals, winner \in rivals \cup {None} :
        /\ Decides(m, i, rivals, beaten, winner)
        /\ \/ \E part \in Prefixes(m, beaten) : mem' = MergeDuplicates(m, i, part, None)
           \/ LET n == MergeDuplicates(m, i, beaten, winner) IN
              \E stale \in StaleScans(n, i) : \E part \in Prefixes(n, stale) :
                 mem' = Archive(n, part)

\* The scans of row i's maintenance see every row that they could.
ScansWhole(m, i) ==
    /\ Cardinality(SameType(m, i)) <= Limit.dedupe
    /\ Cardinality(Episodic(m, m[i].scope)) <= Limit.stale

-----------------------------------------------------------------------------
(***************************************************************************)
(* Storing and reading                                                     *)
(***************************************************************************)
HasIdentifier(scope) == scope.user # None \/ scope.chat # None \/ scope.global

Accepted(in) == in.actor = "system" \/ HasIdentifier(in.scope)

NewRow(in) ==
    [type |-> in.type, lifecycle |-> in.lifecycle, scope |-> in.scope,
     content |-> in.content, importance |-> in.importance,
     created |-> today, updated |-> today, accessed |-> None,
     accesses |-> 0, retrievals |-> 0,
     pinned |-> FALSE, archived |-> FALSE, supersededBy |-> None]

Inserted(i, row) == [mem EXCEPT ![i] = row]

\* MemoryService.store
Store(i, in) ==
    /\ pass = "idle" /\ i \notin Stored /\ Accepted(in)
    /\ Maintain(Inserted(i, NewRow(in)), i)
    /\ UNCHANGED <<today, passVars>>

\* The process dies, or the maintenance throws, after the INSERT.
StoreInterrupted(i, in) ==
    /\ pass = "idle" /\ i \notin Stored /\ Accepted(in)
    /\ MaintainInterrupted(Inserted(i, NewRow(in)), i)
    /\ UNCHANGED <<today, passVars>>

\* MemoryService.getById: whatever the row's state.
GetById(i) ==
    /\ pass = "idle" /\ i \in Stored
    /\ mem' = [mem EXCEPT ![i].accesses = AtMost(@ + 1, HotAt), ![i].accessed = today]
    /\ UNCHANGED <<today, passVars>>

\* Mutant of Recall: the whole row is written back as it was fetched.
RecallWritesBack(i) ==
    /\ pass = "idle" /\ i \in Stored
    /\ mem' = [mem EXCEPT ![i].retrievals = AtMost(@ + 1, SemanticAt),
                          ![i].accessed = today, ![i].archived = FALSE]
    /\ UNCHANGED <<today, passVars>>

\* incrementRetrieval on a row a recall returned.  Ranking awaits embeddings,
\* so the row, live when it was fetched, may be archived by now.
Recall(i) ==
    /\ pass = "idle" /\ i \in Stored
    /\ mem' = [mem EXCEPT ![i].retrievals = AtMost(@ + 1, SemanticAt),
                          ![i].accessed = today]
    /\ UNCHANGED <<today, passVars>>

-----------------------------------------------------------------------------
(***************************************************************************)
(* The user's edits                                                        *)
(***************************************************************************)
HasCallerAccess(row, caller) == caller = None \/ row.scope.user \in {None, caller}

MayEdit(i, caller) ==
    /\ pass = "idle" /\ i \in Stored /\ HasCallerAccess(mem[i], caller)

\* The new row is made from the more important source, which keeps its
\* lifecycle even when that is "archive"; its counters start again.
UserMerge(i, j, new, content, caller) ==
    LET primary == IF mem[i].importance >= mem[j].importance THEN mem[i] ELSE mem[j]
        row == [primary EXCEPT
            !.content = content, !.created = today, !.updated = today,
            !.accessed = None, !.accesses = 0, !.retrievals = 0,
            !.pinned = mem[i].pinned \/ mem[j].pinned,
            !.archived = FALSE, !.supersededBy = None]
    IN
    /\ new \notin Stored
    /\ i # j /\ MayEdit(i, caller) /\ MayEdit(j, caller)
    /\ mem[i].scope = mem[j].scope
    /\ mem' = [mem EXCEPT ![new] = row,
                          ![i] = Retire(@, new), ![j] = Retire(@, new)]
    /\ UNCHANGED <<today, passVars>>

Delete(i, caller) ==
    /\ MayEdit(i, caller)
    /\ mem' = [mem EXCEPT ![i] = Retire(@, @.supersededBy)]
    /\ UNCHANGED <<today, passVars>>

\* The new row copies the old one, its supersededBy and lifecycle included.
Correct(i, new, content, caller) ==
    /\ MayEdit(i, caller) /\ new \notin Stored
    /\ mem' = [mem EXCEPT
            ![new] = [mem[i] EXCEPT
                !.content = content, !.created = today, !.updated = today,
                !.accesses = 0, !.retrievals = 0, !.archived = FALSE],
            ![i] = Retire(@, new)]
    /\ UNCHANGED <<today, passVars>>

Update(i, content, caller) ==
    /\ MayEdit(i, caller)
    /\ mem' = [mem EXCEPT ![i].content = content, ![i].updated = today]
    /\ UNCHANGED <<today, passVars>>

Pin(i, caller) ==
    /\ MayEdit(i, caller)
    /\ mem' = [mem EXCEPT ![i].pinned = TRUE, ![i].updated = today,
                          ![i].importance = AtMost(@ + 1, MaxImportance)]
    /\ UNCHANGED <<today, passVars>>

Unpin(i, caller) ==
    /\ MayEdit(i, caller)
    /\ mem' = [mem EXCEPT ![i].pinned = FALSE, ![i].updated = today,
                          ![i].importance = AtLeast(@ - 1, 0)]
    /\ UNCHANGED <<today, passVars>>

\* restoreArchived for one approved id.
Restore(i, lifecycle, allowSuperseded) ==
    /\ pass = "idle"
    /\ i \in Stored /\ mem[i].archived
    /\ mem[i].supersededBy = None \/ allowSuperseded
    /\ mem' = [mem EXCEPT ![i].lifecycle = lifecycle, ![i].updated = today,
                          ![i].archived = FALSE, ![i].supersededBy = None]
    /\ UNCHANGED <<today, passVars>>

-----------------------------------------------------------------------------
(***************************************************************************)
(* Consolidation: maintain every row of the requested scope, then (unless  *)
(* the mode is light) move rows through their lifecycle.                   *)
(***************************************************************************)
ConsolidateStart(filter, m) ==
    /\ pass = "idle"
    /\ pass' = "consolidate" /\ request' = filter /\ mode' = m
    /\ todo' \in Fetches(mem, Found(mem, filter), Limit.consolidate[m]) /\ done' = {}
    /\ UNCHANGED <<mem, today, merged>>

ConsolidateRow ==
    /\ pass = "consolidate"
    /\ \E i \in Newest(mem, todo) :
        /\ Maintain(mem, i)
        /\ todo' = todo \ {i}
        /\ done' = IF ScansWhole(mem, i) THEN done \cup {i} ELSE done
    /\ UNCHANGED <<today, pass, request, mode, merged>>

\* What the pass held in its local variables is gone.
EndPass ==
    /\ pass' = "idle" /\ request' = NoScope /\ mode' = "daily"
    /\ todo' = {} /\ done' = {} /\ merged' = 0
    /\ UNCHANGED today

\* A light consolidation is over; the others fetch the rows again.
ConsolidateEnd ==
    /\ pass = "consolidate" /\ todo = {}
    /\ \/ mode = "light" /\ EndPass /\ UNCHANGED mem
       \/ /\ mode # "light"
          /\ pass' = "migrate"
          /\ todo' \in Fetches(mem, Found(mem, request), Limit.migrate[mode])
          /\ UNCHANGED <<mem, today, request, mode, done, merged>>

ShouldMigrateToEpisodic(row) ==
    row.lifecycle = "working" /\ today - row.updated > WorkingDays

ShouldMigrateToSemantic(row) ==
    /\ row.lifecycle = "episodic"
    /\ row.retrievals >= SemanticAt /\ row.importance >= ImportantAt

Migrated(row, lifecycle) == [row EXCEPT !.lifecycle = lifecycle, !.updated = today]

\* The decay score is a weighted sum of nine features: any row may score low.
MigrateRow ==
    /\ pass = "migrate"
    /\ \E i \in Newest(mem, todo) :
        /\ \/ /\ ShouldMigrateToEpisodic(mem[i])
              /\ mem' = [mem EXCEPT ![i] = Migrated(@, "episodic")]
           \/ /\ ShouldMigrateToSemantic(mem[i])
              /\ mem' = [mem EXCEPT ![i] = Migrated(@, "semantic")]
           \/ /\ ~ShouldMigrateToEpisodic(mem[i]) /\ ~ShouldMigrateToSemantic(mem[i])
              /\ \/ mem' = mem
                 \/ mode = "deep" /\ mem' = [mem EXCEPT ![i] = Retire(@, None)]
        /\ todo' = todo \ {i}
    /\ UNCHANGED <<today, pass, request, mode, done, merged>>

MigrateEnd ==
    /\ pass = "migrate" /\ todo = {}
    /\ EndPass /\ UNCHANGED mem

-----------------------------------------------------------------------------
(***************************************************************************)
(* Housekeeping: merge near-duplicates, archive stale rows, reinforce      *)
(* frequently read rows, enforce the limits.  Each phase fetches again.    *)
(***************************************************************************)
HousekeepingStart(filter) ==
    /\ pass = "idle"
    /\ pass' = "merge" /\ request' = filter
    /\ todo' \in Fetches(mem, Found(mem, filter), Limit.batch)
    /\ UNCHANGED <<mem, today, mode, done, merged>>

\* The next row of the list is compared with the rows after it; it is merged
\* with the first near-duplicate, and then the list moves on.
MergeNext ==
    /\ pass = "merge" /\ merged < Limit.merges
    /\ \E i \in Newest(mem, todo) :
        LET later == {j \in todo \ {i} : NearDuplicate(mem, i, j)} IN
        \/ later = {} /\ todo' = todo \ {i} /\ UNCHANGED <<mem, merged>>
        \/ /\ merged' = merged + 1
           /\ \E j \in Newest(mem, later) :
                IF mem[j].importance > mem[i].importance
                THEN mem' = [mem EXCEPT ![i] = Retire(@, j)] /\ todo' = todo \ {i}
                ELSE mem' = [mem EXCEPT ![j] = Retire(@, i)] /\ todo' = todo \ {i, j}
    /\ UNCHANGED <<today, pass, request, mode, done>>

\* A list is left alone once its pass has merged maxMergePerRun times.
MergeEnd ==
    /\ pass = "merge" /\ (todo = {} \/ merged >= Limit.merges)
    /\ pass' = "archive" /\ todo' \in Fetches(mem, Found(mem, request), Limit.batch)
    /\ UNCHANGED <<mem, today, request, mode, done, merged>>

\* Mutant of StaleForHousekeeping: a row is spared on the day it goes stale.
StaleForHousekeepingLate(row) ==
    ~row.pinned /\ today - LastTouched(row) > StaleDays /\ row.retrievals < ProtectAt

\* Per-grade thresholds (30, 14 and 21 days) are folded into StaleDays.
StaleForHousekeeping(row) ==
    /\ ~row.pinned
    /\ today - LastTouched(row) >= StaleDays
    /\ row.retrievals < ProtectAt

ArchiveNext ==
    /\ pass = "archive"
    /\ \E i \in Newest(mem, todo) :
        /\ mem' = IF StaleForHousekeeping(mem[i])
                  THEN [mem EXCEPT ![i] = Retire(@, None)] ELSE mem
        /\ todo' = todo \ {i} /\ done' = done \cup {i}
    /\ UNCHANGED <<today, pass, request, mode, merged>>

ArchiveEnd ==
    /\ pass = "archive" /\ todo = {}
    /\ pass' = "reinforce" /\ todo' \in Fetches(mem, Found(mem, request), Limit.batch)
    /\ UNCHANGED <<mem, today, request, mode, done, merged>>

\* Mutant of ReinforceNext: importance is not capped.
ReinforceNextUncapped ==
    /\ pass = "reinforce"
    /\ \E i \in Newest(mem, todo) :
        /\ mem' = IF mem[i].accesses >= HotAt
                  THEN [mem EXCEPT ![i].importance = @ + 1, ![i].updated = today]
                  ELSE mem
        /\ todo' = todo \ {i}
    /\ UNCHANGED <<today, pass, request, mode, done, merged>>

ReinforceNext ==
    /\ pass = "reinforce"
    /\ \E i \in Newest(mem, todo) :
        /\ mem' = IF mem[i].accesses >= HotAt /\ mem[i].importance < MaxImportance
                  THEN [mem EXCEPT ![i].importance = @ + 1, ![i].updated = today]
                  ELSE mem
        /\ todo' = todo \ {i}
    /\ UNCHANGED <<today, pass, request, mode, done, merged>>

\* The rows of a type above its limit, among those that are fetched: the ones
\* that were created first.
Excesses(m, type) ==
    UNION {{T \in SUBSET all : /\ Cardinality(T) = AtLeast(Cardinality(all) - KindLimit[type], 0)
                               /\ \A i \in T, j \in all \ T : m[i].created <= m[j].created} :
           all \in Fetches(m, {i \in Found(m, request) : m[i].type = type}, Limit.kind)}

ReinforceEnd ==
    /\ pass = "reinforce" /\ todo = {}
    /\ \E excess \in [DOMAIN KindLimit -> SUBSET Ids] :
        /\ \A type \in DOMAIN KindLimit : excess[type] \in Excesses(mem, type)
        /\ todo' = UNION {excess[type] : type \in DOMAIN KindLimit}
    /\ pass' = "limit"
    /\ UNCHANGED <<mem, today, request, mode, done, merged>>

LimitNext ==
    /\ pass = "limit"
    /\ \E i \in todo :
        /\ i \in Oldest(mem, {j \in todo : mem[j].type = mem[i].type})
        /\ mem' = [mem EXCEPT ![i] = Retire(@, None)]
        /\ todo' = todo \ {i}
    /\ UNCHANGED <<today, pass, request, mode, done, merged>>

LimitEnd ==
    /\ pass = "limit" /\ todo = {}
    /\ EndPass /\ UNCHANGED mem

-----------------------------------------------------------------------------
\* The process dies in the middle of a pass, or a statement of it throws: what
\* is written stays, the beginning of one row's maintenance included.
Crash ==
    /\ pass # "idle"
    /\ \/ UNCHANGED mem
       \/ pass = "consolidate" /\ \E i \in Newest(mem, todo) : MaintainInterrupted(mem, i)
    /\ EndPass

NextDay ==
    /\ pass = "idle" /\ today < MaxDay
    /\ today' = today + 1
    /\ UNCHANGED <<mem, passVars>>

Init ==
    /\ mem = [i \in Ids |-> None]
    /\ today = 0
    /\ pass = "idle" /\ request = NoScope /\ mode = "daily"
    /\ todo = {} /\ done = {} /\ merged = 0

PassStep ==
    \/ ConsolidateRow \/ ConsolidateEnd \/ MigrateRow \/ MigrateEnd
    \/ MergeNext \/ MergeEnd \/ ArchiveNext \/ ArchiveEnd
    \/ ReinforceNext \/ ReinforceEnd \/ LimitNext \/ LimitEnd

Edit ==
    \E i \in Ids, caller \in Callers :
        \/ Delete(i, caller) \/ Pin(i, caller) \/ Unpin(i, caller)
        \/ \E content \in Contents :
            \/ Update(i, content, caller)
            \/ \E new \in Ids : Correct(i, new, content, caller)
            \/ \E j, new \in Ids : UserMerge(i, j, new, content, caller)

Next ==
    \/ \E i \in Ids, in \in Inputs : Store(i, in) \/ StoreInterrupted(i, in)
    \/ \E i \in Ids : GetById(i) \/ Recall(i)
    \/ Edit
    \/ \E i \in Ids, lifecycle \in Lifecycles \ {"archive"}, allow \in BOOLEAN :
            Restore(i, lifecycle, allow)
    \/ \E c \in Consolidations : ConsolidateStart(c.scope, c.mode)
    \/ \E filter \in Housekeepings : HousekeepingStart(filter)
    \/ PassStep
    \/ Crash
    \/ NextDay

Spec == Init /\ [][Next]_vars

-----------------------------------------------------------------------------
(***************************************************************************)
(* Safety                                                                  *)
(***************************************************************************)

\* The archive review hides a superseded row and points at its successor
\* (archive.ts, reviewArchived): the successor exists and is another row.
SupersessionSound ==
    \A i \in Stored : LET s == mem[i].supersededBy IN
        s # None => s \in Stored /\ s # i

\* The rows that took row i's place, directly or one after the other, as long
\* as a row that was replaced belongs to a user: the least set with i in it.
Heirs(m, i) ==
    LET Closed(S) == \A k \in S \cap Ids :
            (m[k] # None /\ m[k].scope.user # None /\ m[k].supersededBy # None)
                => m[k].supersededBy \in S
    IN {h \in Ids : \A S \in SUBSET Ids : i \in S /\ Closed(S) => h \in S}

\* However long the chain of merges, corrections and passes, a user's memory is
\* succeeded only by memories of that user and, at its end, by one of nobody: no
\* chain reaches a different user as long as each memory on it has a user.  It
\* may through a memory of nobody, which belongs to every scope: a chain from
\* bob over a memory without a scope to alice is possible, and is not excluded.
\* Housekeeping merges whatever its scope selects, so its scopes must name a
\* user.
NeverAcrossUsers ==
    (\A filter \in Housekeepings : filter.user # None) =>
        \A i \in Stored : mem[i].scope.user # None =>
            \A h \in Heirs(mem, i) :
                h \in Stored /\ mem[h].scope.user \in {None, mem[i].scope.user}

\* What a consolidation has visited stays settled while it goes on, whatever
\* the rows it visits later do: a visited row that is still live has no live
\* near-duplicate, and no other stale episodic row, in its scope.  This holds
\* for the rows whose scans were not cut by a LIMIT; beyond it duplicates and
\* stale rows stay.
ConsolidationSettles ==
    pass \in {"consolidate", "migrate"} =>
        \A i \in done : Live(mem, i) =>
            /\ Rivals(mem, i) = {}
            /\ StaleEpisodic(mem, mem[i].scope, i) = {}

\* The later phases of housekeeping do not make new work for its archive
\* phase: from then on every live row that it visited is pinned, recalled often
\* enough or recently touched.  When fewer rows were fetched than the LIMIT,
\* those are all the live rows of the scope; otherwise the ones that were not
\* touched for longest are left out, however stale.
HousekeepingSettles ==
    pass \in {"reinforce", "limit"} =>
        \A i \in Found(mem, request) :
            (i \in done \/ Cardinality(done) < Limit.batch) =>
                mem[i].pinned \/ mem[i].retrievals >= ProtectAt
                    \/ today - LastTouched(mem[i]) < StaleDays

SupersedesLive ==
    \A i \in Ids : mem'[i] # None => LET s == mem'[i].supersededBy IN
        (s # None /\ mem[i] # None /\ mem[i].supersededBy # s)
            => Live(mem, s) \/ mem[s] = None

RevivesByRestore ==
    \A i \in Stored : (mem[i].archived /\ Live(mem', i))
        => \E lifecycle \in Lifecycles, allow \in BOOLEAN : Restore(i, lifecycle, allow)

\* Nothing is superseded in favour of a row that was already archived: the
\* successor a row gets was live before the step or is inserted by it.
SupersededByLive == [][SupersedesLive]_vars

\* Only an explicit restore brings an archived row back: passes over rows they
\* fetched earlier and late recall counters leave it archived.
OnlyRestoreRevives == [][RevivesByRestore]_vars

-----------------------------------------------------------------------------
(***************************************************************************)
(* What the documentation says and the code does not do                    *)
(***************************************************************************)

\* test/lifecycle-maintenance.test.ts: storing a near-duplicate leaves one
\* memory that can be recalled.
StoreKeepsContent ==
    [][\A i \in Ids \ Stored : mem'[i] # None =>
        \E j \in Ids : Live(mem', j) /\ NearDuplicate(mem', i, j)]_vars

\* docs/CHANGELOG.md: "empty scope {} no longer silently matches all-users
\* data", so a scopeless memory does not take over a user's.
EmptyScopeTakesNothing ==
    \A i \in Stored : LET s == mem[i].supersededBy IN
        (s # None /\ mem[i].scope.user # None) => HasIdentifier(mem[s].scope)
=============================================================================
