------------------------------ MODULE Migrations ------------------------------
(***************************************************************************)
(* Opening the database (storage/db.ts, storage/migrations).  Every        *)
(* process that opens it reads schema_version once and then runs each      *)
(* later phase in a transaction of its own, which ends by writing the      *)
(* number of the phase.  Processes may open the database at the same time, *)
(* be at different phases, fail between two of them and try again, and the *)
(* ones that are done write memories meanwhile.                            *)
(*                                                                         *)
(* The last phase that matters to the data creates the full-text table of  *)
(* memory_items, with the triggers that keep it up to date, and fills it   *)
(* with the rows there are.                                                *)
(***************************************************************************)
EXTENDS Naturals

CONSTANTS
    Processes,      \* processes that open the database
    Latest,         \* CURRENT_SCHEMA_VERSION
    Needs,          \* Needs[n]: the phases whose tables phase n works on
    Tolerant,       \* phases whose errors about missing tables are ignored
    Cleaning,       \* phases that delete junk rows
    SearchPhase,    \* the phase of the full-text table
    Rowids,         \* rowids of memory_items
    Contents,       \* what a row may say
    Junk,           \* the contents that the cleaning phases delete
    Absent

Phases == 1..Latest

ASSUME PhasesAssumption ==
    /\ Latest \in Nat \ {0} /\ SearchPhase \in Phases
    /\ Needs \in [Phases -> SUBSET Phases] /\ \A n \in Phases : Needs[n] \subseteq 1..(n - 1)
    /\ Tolerant \subseteq Phases /\ Cleaning \subseteq Phases \ {SearchPhase}
ASSUME ContentsAssumption == Junk \subseteq Contents /\ Absent \notin Contents

VARIABLES
    version,        \* schema_version
    applied,        \* phases whose tables, columns and triggers exist
    row,            \* row[k]: the content of memory_items, or Absent
    index,          \* index[k]: what memory_items_fts says of it, or Absent
    opener          \* opener[p]: how far a process is, and the phase it is at

migrationVars == <<version, applied, row, index, opener>>

Opener == [stage : {"closed", "migrating", "open"}, at : 0..Latest]

MigrationsTypeOK ==
    /\ version \in 0..Latest /\ applied \subseteq Phases
    /\ row \in [Rowids -> Contents \cup {Absent}] /\ index \in [Rowids -> Contents \cup {Absent}]
    /\ opener \in [Processes -> Opener]

Closed == [stage |-> "closed", at |-> 0]

\* The file was left by any earlier release, or does not exist yet (0).
MigrationsInit ==
    /\ version \in 0..Latest /\ applied = 1..version
    /\ row \in [Rowids -> Contents \cup {Absent}]
    /\ version = 0 => \A k \in Rowids : row[k] = Absent
    /\ index = IF SearchPhase \in applied THEN row ELSE [k \in Rowids |-> Absent]
    /\ opener = [p \in Processes |-> Closed]

-----------------------------------------------------------------------------
Reached(n) == [stage |-> IF n = Latest THEN "open" ELSE "migrating", at |-> n]

\* getSchemaVersion, once.  A backup of the file that fails is ignored.
Open(p) ==
    /\ opener[p].stage = "closed"
    /\ opener' = [opener EXCEPT ![p] = Reached(version)]
    /\ UNCHANGED <<version, applied, row, index>>

\* Mutant of Followed: there is no trigger on DELETE.
FollowedExceptDelete(rows) ==
    IF SearchPhase \in applied
    THEN [k \in Rowids |-> IF rows[k] = Absent THEN index[k] ELSE rows[k]]
    ELSE index

\* With the triggers in place the full-text table follows the rows.
Followed(rows) == IF SearchPhase \in applied THEN rows ELSE index

Cleaned == [k \in Rowids |-> IF row[k] \in Junk THEN Absent ELSE row[k]]

\* INSERT OR IGNORE: what is indexed already stays as it is.
Filled == [k \in Rowids |-> IF index[k] = Absent THEN row[k] ELSE index[k]]

\* A process goes on from the version it read, whatever others do.
NextPhase(p) == opener[p].at + 1

\* A statement about a table that is missing throws, except in a tolerant phase.
MayRun(n) == n \in Tolerant \/ Needs[n] \subseteq applied

\* The tables, columns and triggers there are after phase n: the statements are
\* written so that they can be run again (IF NOT EXISTS, duplicate columns are
\* ignored).  A tolerant phase is recorded without what it could not make.
Made(n) == IF Needs[n] \subseteq applied THEN applied \cup {n} ELSE applied

\* One transaction: the statements of the next phase and then the version, even
\* when another process is further ahead.
RunPhase(p) ==
    LET n == NextPhase(p) IN
    /\ opener[p].stage = "migrating" /\ n \in Phases
    /\ MayRun(n)
    /\ applied' = Made(n)
    /\ row' = IF n \in Cleaning THEN Cleaned ELSE row
    /\ index' = IF n = SearchPhase THEN Filled ELSE Followed(row')
    /\ version' = n
    /\ opener' = [opener EXCEPT ![p] = Reached(n)]

\* A statement fails (a locked database, a full disk) and the transaction is
\* rolled back, or the process ends: it opens the database anew.
Fail(p) ==
    /\ opener[p].stage # "closed"
    /\ opener' = [opener EXCEPT ![p] = Closed]
    /\ UNCHANGED <<version, applied, row, index>>

\* MemoryRepository.insert and update, by a process whose database is open.
Write(p, k, content) ==
    /\ opener[p].stage = "open"
    /\ row' = [row EXCEPT ![k] = content]
    /\ index' = Followed(row')
    /\ UNCHANGED <<version, applied, opener>>

MigrationsNext ==
    \E p \in Processes :
        \/ Open(p) \/ RunPhase(p) \/ Fail(p)
        \/ \E k \in Rowids, content \in Contents : Write(p, k, content)

MigrationsSpec == MigrationsInit /\ [][MigrationsNext]_migrationVars

-----------------------------------------------------------------------------
\* Whoever has opened the database works on the complete schema, and keyword
\* search finds exactly what the memories say, whichever processes migrate at
\* the same time, fail half-way or set the version back.
UpgradeComplete ==
    (\E p \in Processes : opener[p].stage = "open") => applied = Phases /\ index = row
=============================================================================
