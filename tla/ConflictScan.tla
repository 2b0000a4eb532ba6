---------------------------- MODULE ConflictScan ----------------------------
(***************************************************************************)
(* Conflicts between memories (core/memory/conflict.ts): the consolidate   *)
(* tool looks for them in a scope, and a captured memory for its own.      *)
(* Unlike the passes of MemoryStore a scan awaits an embedding and a       *)
(* search for every memory, and everything else may happen meanwhile.  It  *)
(* keeps the rows it has read, and resolving a conflict writes the older   *)
(* one back whole, with a tag.                                             *)
(*                                                                         *)
(* Which memories are near each other and contradict each other, and which *)
(* are tagged already, is left open.  One scan at a time; a scan that      *)
(* resolves nothing writes nothing and is left out.                        *)
(***************************************************************************)
EXTENDS MemoryStore

VARIABLE scan   \* the scan that is under way

scanVars == <<vars, scan>>

\* left: memories not yet looked at; current: the memory whose answers are
\* awaited, with its row as it was read; conflicts: the pairs found, each with
\* the id and the row that resolving it will write.
NoCurrent == [id |-> None, row |-> None]
NoScan == [left |-> {}, current |-> NoCurrent, conflicts |-> {}]

Conflict == [pair : SUBSET Ids, id : Ids, row : Row]

ScanTypeOK ==
    /\ scan.left \subseteq Ids
    /\ scan.current \in [id : Ids, row : Row] \cup {NoCurrent}
    /\ scan.conflicts \subseteq Conflict

ScanInit == Init /\ scan = NoScan

Reads(m, i) == [id |-> i, row |-> m[i]]

-----------------------------------------------------------------------------
\* scanConflicts, after the tool's consolidation: the live rows of the scope.
ScanStart(filter) ==
    /\ pass = "idle" /\ scan = NoScan
    /\ scan' = [NoScan EXCEPT !.left = Found(mem, filter)]
    /\ UNCHANGED vars

\* storeAutoMemoryCandidates: the memory is stored and read again at once.
CaptureStore(i, in) ==
    /\ scan = NoScan
    /\ Store(i, in)
    /\ scan' = [NoScan EXCEPT !.current = Reads(mem', i)]

\* The memory is read, and its embedding asked for.
DetectStart(i) ==
    /\ pass = "idle" /\ scan.current = NoCurrent /\ i \in scan.left \cap Stored
    /\ scan' = [scan EXCEPT !.left = @ \ {i}, !.current = Reads(mem, i)]
    /\ UNCHANGED vars

\* The manager is not ready, or the embedding is null.
DetectNothing ==
    /\ pass = "idle" /\ scan.current # NoCurrent
    /\ scan' = [scan EXCEPT !.current = NoCurrent]
    /\ UNCHANGED vars

\* isConflictCandidate: the memory as it was read, and the other as it is now.
Candidates ==
    {j \in Stored \ {scan.current.id} :
        /\ ~scan.current.row.archived /\ Live(mem, j)
        /\ scan.current.row.type = mem[j].type /\ scan.current.row.scope = mem[j].scope}

\* The row that gives way: the one updated less recently.
Resolutions(j) ==
    LET both == {scan.current, Reads(mem, j)} IN
    {[pair |-> {scan.current.id, j}, id |-> older.id, row |-> older.row] :
        older \in {r \in both : \A other \in both : r.row.updated <= other.row.updated}}

\* detectConflicts goes on: some candidates conflict; a pair that was found
\* before is not listed again.
DetectEnd ==
    /\ pass = "idle" /\ scan.current # NoCurrent
    /\ \E found \in SUBSET UNION {Resolutions(j) : j \in Candidates} :
        /\ \A c \in found, d \in found \cup scan.conflicts : c.pair = d.pair => c = d
        /\ scan' = [scan EXCEPT !.current = NoCurrent, !.conflicts = @ \cup found]
    /\ UNCHANGED vars

AllRead == pass = "idle" /\ scan.left = {} /\ scan.current = NoCurrent

\* resolveConflict: the row as the scan read it, tagged.
Resolve(c) ==
    /\ AllRead
    /\ mem' = [mem EXCEPT ![c.id] = c.row]
    /\ scan' = [scan EXCEPT !.conflicts = @ \ {c}]
    /\ UNCHANGED <<today, passVars>>

ScanStep ==
    \/ \E filter \in Housekeepings : ScanStart(filter)
    \/ \E i \in Ids, in \in Inputs : CaptureStore(i, in)
    \/ \E i \in Ids : DetectStart(i)
    \/ DetectNothing \/ DetectEnd
    \/ \E c \in scan.conflicts : Resolve(c)

ScanNext == ScanStep \/ (Next /\ UNCHANGED scan)

ScanSpec == ScanInit /\ [][ScanNext]_scanVars

-----------------------------------------------------------------------------
\* Nothing a scan has read is safe from it: resolving a conflict undoes what
\* was done to the row meanwhile, and brings back what the user deleted.  That
\* is the only way to lose what MemoryStore promises: in every other step, be
\* there a scan or not, only a restore revives an archived row, and nothing is
\* superseded by a row that was archived before.
StaleResolution == \E c \in scan.conflicts : Resolve(c) /\ mem[c.id] # c.row

OnlyStaleResolutionUndoes == [][StaleResolution \/ (SupersedesLive /\ RevivesByRestore)]_scanVars
=============================================================================
