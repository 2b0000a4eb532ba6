------------------------------ MODULE DataTransfer ------------------------------
(***************************************************************************)
(* Importing memories (core/memory/transfer*.ts, core/io).  A snapshot is  *)
(* a file of whole rows, exported by this or another installation and      *)
(* perhaps edited since: two may have been put together, so that an id     *)
(* occurs twice.  Notes are JSON or Markdown that only say what was        *)
(* remembered.  The ids of snapshots are the places of UserProfile.        *)
(***************************************************************************)
EXTENDS UserProfile

CONSTANT MaxItems   \* TRANSFER_MAX_IMPORT_ITEMS

\* exportSnapshot: what is live, and on demand what is archived.
Exported(archivedToo) ==
    {[id |-> m, row |-> memory[m], flaws |-> {}] :
        m \in {m \in Places : memory[m] # NoMemory /\ (archivedToo \/ memory[m].live)}}

\* validateImportMemory: an item is rejected for the first of these it fails.
Checks ==
    {"invalid_id", "invalid_content", "invalid_type", "invalid_lifecycle", "invalid_source_kind",
     "invalid_source_actor", "invalid_scores", "invalid_timestamps", "invalid_last_accessed_at",
     "invalid_stats", "invalid_tags", "invalid_related_entities", "invalid_evidence_references"}

Item == [id : Places, row : Memory, flaws : SUBSET Checks]

\* sanitizeImportMemory: the override takes the place of the owner.
Sanitized(row, override) == IF override = None THEN row ELSE [row EXCEPT !.user = override]

\* Of a file that is too long the rest is left out.
Requested(items) == {j \in DOMAIN items : j <= MaxItems}

\* An item is invalid, exists already and is not to be overwritten, or is a
\* candidate, known by its place in the file.  All items are looked up before
\* the first one is written.
Exists(item) == memory[item.id] # NoMemory
Candidates(items, overwrite) ==
    {j \in Requested(items) : items[j].flaws = {} /\ (overwrite \/ ~Exists(items[j]))}

\* A snapshot is written only on both words, a note on none to the contrary.
Applies(mode, approved) == mode = "apply" /\ approved = "yes"
NotesApply(approved) == approved # "no"

\* The candidates that cannot be inserted: an earlier one took the id.
Clashes(items, candidates) ==
    {j \in candidates :
        ~Exists(items[j]) /\ \E i \in candidates : i < j /\ items[i].id = items[j].id}

\* The rows once some candidates are written, one after the other: of those
\* with the same id the last one stays.
Written(items, candidates, override) ==
    [m \in Places |->
        LET mine == {j \in candidates : items[j].id = m}
        IN IF mine = {} THEN memory[m] ELSE Sanitized(items[Max(mine)].row, override)]

\* The owners that candidates have, and those of the rows they replace.
NewOwners(items, candidates, override) == {Sanitized(items[j].row, override).user : j \in candidates}
OldOwners(items, candidates) == {memory[items[j].id].user : j \in candidates} \cap Users

\* importSnapshot, when it applies: all candidates are written and their new
\* owners projected.
ImportSnapshot(items, overwrite, override) ==
    LET candidates == Candidates(items, overwrite)
        owners == NewOwners(items, candidates, override)
    IN
    /\ Clashes(items, candidates) = {}
    /\ memory' = Written(items, candidates, override)
    /\ profile' = Recompute(owners, memory')
    /\ behind' = (behind \cup OldOwners(items, candidates)) \ owners
    /\ UNCHANGED <<rules, drifts, capturing>>

\* An INSERT throws: what was written before it stays, nothing is projected.
ImportSnapshotFails(items, overwrite, override) ==
    LET clashes == Clashes(items, Candidates(items, overwrite))
        before == {j \in Candidates(items, overwrite) : \A i \in clashes : j < i}
    IN
    /\ clashes # {}
    /\ memory' = Written(items, before, override)
    /\ behind' = behind \cup OldOwners(items, before) \cup NewOwners(items, before, override)
    /\ UNCHANGED <<rules, profile, drifts, capturing>>

\* MemoryExportService.import: a note that says what no row of the scope says,
\* archived or not, becomes a row of its own, as explicit as if the user had
\* stated it.  Later notes of the file see the rows of earlier ones.
ImportNote(u, note, m) ==
    /\ memory[m] = NoMemory
    /\ \A n \in Places : memory[n].user = u =>
            <<memory[n].key, memory[n].value>> # <<note.key, note.value>>
    /\ memory' = Inserted(m, [user |-> u, key |-> note.key, value |-> note.value,
                              source |-> "stated", live |-> TRUE])
    /\ behind' = behind \cup {u}
    /\ UNCHANGED <<rules, profile, drifts, capturing>>

-----------------------------------------------------------------------------
\* What is written anew is live; rows of an import may be archived.
NewRows == {row \in Memory : row.live}

\* The writers, in any order.
ProfileNext ==
    \/ \E m \in Places, row \in NewRows : Store(m, row) \/ Capture(m, row) \/ InsertOnly(m, row)
    \/ \E ms \in SUBSET Places : Restore(ms) \/ RestoreFails(ms)
    \/ \E u \in Users, ms \in SUBSET Places \ {{}} : \E answers \in [ms -> NewRows] : Onboard(u, answers)
    \/ \E u \in Users : \/ Read(u) \/ OnboardWithoutAnswers(u)
                       \/ CaptureEnds(u) \/ CaptureFails(u) \/ SessionEnds(u)
    \/ Restart
    \/ \E m \in Places : ArchivedElsewhere(m) \/ \E value \in Values : Update(m, value)
    \/ \E u \in Users, statements \in BoundedSeq(Statements, MaxRules) : RulesChange(u, statements)
    \/ \E items \in Seq(Item), overwrite \in BOOLEAN, override \in Users \cup {None} :
        ImportSnapshot(items, overwrite, override) \/ ImportSnapshotFails(items, overwrite, override)
    \/ \E u \in Users, note \in [key : Keys, value : Values], m \in Places : ImportNote(u, note, m)

ProfileSpec == ProfileInit /\ [][ProfileNext]_profileVars
=============================================================================
