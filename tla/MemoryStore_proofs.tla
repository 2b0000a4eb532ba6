------------------------- MODULE MemoryStore_proofs -------------------------
(***************************************************************************)
(* Theorems about MemoryStore, for every table size, every set of users,   *)
(* chats, contents and inputs, and every threshold the assumptions allow.  *)
(***************************************************************************)
EXTENDS ConflictScan, FiniteSetTheorems, TLAPS

\* A retired row is a row.
LEMMA RetireType ==
    ASSUME NEW row \in Row, NEW by \in Ids \cup {None}, today \in 0..MaxDay
    PROVE  Retire(row, by) \in Row
BY DEF Retire, Row, Lifecycles

\* A retired row is archived.
LEMMA RetireArchives ==
    ASSUME NEW row \in Row, NEW by PROVE Retire(row, by).archived
BY DEF Retire, Row

-----------------------------------------------------------------------------
\* A query returns rows of what it asks for.
LEMMA FetchedFrom ==
    ASSUME NEW m, NEW S, NEW n, NEW T \in Fetches(m, S, n) PROVE T \subseteq S
BY DEF Fetches, Prefixes

\* When there are no more than the LIMIT, or fewer come back, they are all of it.
LEMMA FetchedWhole ==
    ASSUME NEW m, NEW S \in SUBSET Ids, NEW n \in Nat, NEW T \in Fetches(m, S, n),
           Cardinality(S) <= n \/ Cardinality(T) < n
    PROVE  T = S
<1>1. T \subseteq S /\ Cardinality(T) = AtMost(n, Cardinality(S))
  BY DEF Fetches, Prefixes
<1>2. IsFiniteSet(S)
  BY IdsAssumption, FS_Subset
<1>3. IsFiniteSet(T)
  BY <1>1, <1>2, FS_Subset
<1>4. Cardinality(S) \in Nat /\ Cardinality(T) \in Nat
  BY <1>2, <1>3, FS_CardinalityType
<1>5. Cardinality(T) = Cardinality(S)
  BY <1>1, <1>4 DEF AtMost
<1> QED BY <1>1, <1>2, <1>5, FS_Subset

\* Maintenance of a row, to its end or not.
MayMaintain(m, i) == Maintain(m, i) \/ MaintainInterrupted(m, i)

\* However far it gets, maintenance is merges and then archivals.
LEMMA MaintainParts ==
    ASSUME NEW m, NEW i \in Ids, Live(m, i), MayMaintain(m, i)
    PROVE  \E beaten \in SUBSET Rivals(m, i), winner \in Rivals(m, i) \cup {None}, stale \in SUBSET Ids :
             /\ \A j \in stale : Live(MergeDuplicates(m, i, beaten, winner), j)
             /\ mem' = Archive(MergeDuplicates(m, i, beaten, winner), stale)
<1>1. PICK rivals \in RivalScans(m, i) :
        \E beaten \in SUBSET rivals, winner \in rivals \cup {None} :
          \/ \E stale \in StaleScans(MergeDuplicates(m, i, beaten, winner), i) :
               \E part \in SUBSET stale : mem' = Archive(MergeDuplicates(m, i, beaten, winner), part)
          \/ \E part \in SUBSET beaten : mem' = MergeDuplicates(m, i, part, None)
  <2>1. CASE Maintain(m, i)
    BY <2>1 DEF Maintain
  <2>2. CASE MaintainInterrupted(m, i)
    BY <2>2 DEF MaintainInterrupted, Prefixes
  <2> QED BY <2>1, <2>2 DEF MayMaintain
<1>2. rivals \subseteq Rivals(m, i)
  BY <1>1 DEF RivalScans
<1>3. PICK beaten \in SUBSET rivals, winner \in rivals \cup {None} :
          \/ \E stale \in StaleScans(MergeDuplicates(m, i, beaten, winner), i) :
               \E part \in SUBSET stale : mem' = Archive(MergeDuplicates(m, i, beaten, winner), part)
          \/ \E part \in SUBSET beaten : mem' = MergeDuplicates(m, i, part, None)
  BY <1>1
<1>4. CASE \E stale \in StaleScans(MergeDuplicates(m, i, beaten, winner), i) :
             \E part \in SUBSET stale : mem' = Archive(MergeDuplicates(m, i, beaten, winner), part)
  <2>1. PICK stale \in StaleScans(MergeDuplicates(m, i, beaten, winner), i) :
             \E part \in SUBSET stale : mem' = Archive(MergeDuplicates(m, i, beaten, winner), part)
    BY <1>4
  <2>2. \A j \in stale : j \in Ids /\ Live(MergeDuplicates(m, i, beaten, winner), j)
    BY DEF StaleScans, StaleEpisodic, Episodic, Found
  <2> QED BY <1>2, <2>1, <2>2
<1>5. CASE \E part \in SUBSET beaten : mem' = MergeDuplicates(m, i, part, None)
  <2>1. PICK part \in SUBSET beaten : mem' = MergeDuplicates(m, i, part, None)
    BY <1>5
  <2>2. MergeDuplicates(m, i, part, None) = Archive(MergeDuplicates(m, i, part, None), {})
    BY DEF MergeDuplicates, Archive
  <2> QED BY <1>2, <2>1, <2>2
<1> QED BY <1>3, <1>4, <1>5

\* What maintenance may do to the table: every row is left alone or retired.
LEMMA MaintainShape ==
    ASSUME NEW m, m \in [Ids -> Row \cup {None}], NEW i \in Ids, MayMaintain(m, i)
    PROVE  /\ mem' = [j \in Ids |-> mem'[j]]
           /\ \A j \in Ids : \/ mem'[j] = m[j]
                             \/ /\ Live(m, j)
                                /\ \E by \in Ids \cup {None} : mem'[j] = Retire(m[j], by)
<1>1. CASE ~Live(m, i)
  BY <1>1 DEF MayMaintain, Maintain, MaintainInterrupted
<1>2. CASE Live(m, i)
  <2>1. PICK beaten \in SUBSET Rivals(m, i), winner \in Rivals(m, i) \cup {None}, stale \in SUBSET Ids :
             /\ \A j \in stale : Live(MergeDuplicates(m, i, beaten, winner), j)
             /\ mem' = Archive(MergeDuplicates(m, i, beaten, winner), stale)
    BY <1>2, MaintainParts
  <2> DEFINE n == MergeDuplicates(m, i, beaten, winner)
  <2>2. \A j \in Ids : \/ n[j] = m[j]
                       \/ /\ Live(m, j)
                          /\ \E by \in Ids \cup {None} : n[j] = Retire(m[j], by)
    BY <1>2 DEF MergeDuplicates, Rivals, Found
  <2>3. \A j \in Ids : Live(n, j) => n[j] = m[j] /\ Live(m, j)
    BY <2>2 DEF Live, Retire, Row
  <2>4. \A j \in Ids : \/ mem'[j] = n[j]
                       \/ /\ Live(n, j) /\ mem'[j] = Retire(n[j], None)
    BY <2>1 DEF Archive
  <2> QED BY <2>1, <2>2, <2>3, <2>4 DEF Archive
<1> QED BY <1>1, <1>2

\* Maintenance leaves a table of rows.
LEMMA MaintainType ==
    ASSUME NEW m, m \in [Ids -> Row \cup {None}], NEW i \in Ids, MayMaintain(m, i),
           today \in 0..MaxDay
    PROVE  mem' \in [Ids -> Row \cup {None}]
<1>1. \A j \in Ids : mem'[j] \in Row \cup {None}
  <2> SUFFICES ASSUME NEW j \in Ids PROVE mem'[j] \in Row \cup {None}
    OBVIOUS
  <2>1. CASE mem'[j] = m[j]
    BY <2>1
  <2>2. CASE Live(m, j) /\ \E by \in Ids \cup {None} : mem'[j] = Retire(m[j], by)
    BY <2>2, RetireType DEF Live
  <2> QED BY <2>1, <2>2, MaintainShape
<1> QED BY <1>1, MaintainShape

\* A store whose maintenance ends early or not.
LEMMA StoreParts ==
    ASSUME NEW i \in Ids, NEW in \in Inputs, Store(i, in) \/ StoreInterrupted(i, in)
    PROVE  /\ pass = "idle" /\ mem[i] = None /\ UNCHANGED <<today, passVars>>
           /\ MayMaintain(Inserted(i, NewRow(in)), i)
BY DEF Store, StoreInterrupted, Stored, MayMaintain

\* A crash leaves the table alone or interrupts the maintenance of a row.
LEMMA CrashParts ==
    ASSUME Crash, TypeOK
    PROVE  /\ pass # "idle" /\ EndPass
           /\ UNCHANGED mem \/ \E i \in Ids : MayMaintain(mem, i)
BY DEF Crash, Newest, TypeOK, MayMaintain

-----------------------------------------------------------------------------
\* The edits happen between passes.
LEMMA EditIdle == ASSUME Edit PROVE pass = "idle" /\ UNCHANGED <<today, passVars>>
<1>1. PICK i \in Ids, caller \in Callers :
        \/ Delete(i, caller) \/ Pin(i, caller) \/ Unpin(i, caller)
        \/ \E content \in Contents :
            \/ Update(i, content, caller)
            \/ \E new \in Ids : Correct(i, new, content, caller)
            \/ \E j, new \in Ids : UserMerge(i, j, new, content, caller)
  BY DEF Edit
<1>2. \A content, j, new : UserMerge(i, j, new, content, caller)
                            => pass = "idle" /\ UNCHANGED <<today, passVars>>
  BY DEF UserMerge, MayEdit
<1>3. \A content, new : Correct(i, new, content, caller)
                         => pass = "idle" /\ UNCHANGED <<today, passVars>>
  BY DEF Correct, MayEdit
<1> QED BY <1>1, <1>2, <1>3 DEF Delete, Pin, Unpin, Update, MayEdit

\* The row that a merge by hand makes from its primary source.
LEMMA MergedRow ==
    ASSUME NEW primary \in Row, NEW content \in Contents, NEW pinned \in BOOLEAN,
           today \in 0..MaxDay, NEW row,
           row = [primary EXCEPT
                !.content = content, !.created = today, !.updated = today,
                !.accessed = None, !.accesses = 0, !.retrievals = 0,
                !.pinned = pinned, !.archived = FALSE, !.supersededBy = None]
    PROVE  row \in Row /\ row.scope = primary.scope /\ row.supersededBy = None
<1>1. [primary EXCEPT !.content = content, !.created = today, !.updated = today,
                      !.accessed = None] \in Row
  BY DEF Row
<1>2. 0 \in 0..HotAt /\ 0 \in 0..SemanticAt
  BY NumbersAssumption
<1> QED BY <1>1, <1>2 DEF Row

\* The row that takes the place of a corrected one.
LEMMA CorrectedRow ==
    ASSUME NEW old \in Row, NEW content \in Contents, today \in 0..MaxDay, NEW row,
           row = [old EXCEPT !.content = content, !.created = today, !.updated = today,
                             !.accesses = 0, !.retrievals = 0, !.archived = FALSE]
    PROVE  row \in Row /\ row.scope = old.scope /\ row.supersededBy = old.supersededBy
<1>1. [old EXCEPT !.content = content, !.created = today, !.updated = today] \in Row
  BY DEF Row
<1>2. 0 \in 0..HotAt /\ 0 \in 0..SemanticAt
  BY NumbersAssumption
<1> QED BY <1>1, <1>2 DEF Row

\* Every edit keeps the types, and the rows.
LEMMA EditType == ASSUME TypeOK, Edit PROVE TypeOK' /\ Stored \subseteq Stored'
<1> USE DEF TypeOK
<1>1. PICK i \in Ids, caller \in Callers :
        \/ Delete(i, caller) \/ Pin(i, caller) \/ Unpin(i, caller)
        \/ \E content \in Contents :
            \/ Update(i, content, caller)
            \/ \E new \in Ids : Correct(i, new, content, caller)
            \/ \E j, new \in Ids : UserMerge(i, j, new, content, caller)
  BY DEF Edit
<1>2. mem[i] \in Row
  BY <1>1 DEF Delete, Pin, Unpin, Update, Correct, UserMerge, MayEdit, Stored
<1>3. CASE Delete(i, caller)
  <2>1. mem[i].supersededBy \in Ids \cup {None}
    BY <1>2 DEF Row
  <2>2. mem' = [mem EXCEPT ![i] = Retire(mem[i], mem[i].supersededBy)]
    BY <1>3 DEF Delete
  <2> QED BY <1>2, <1>3, <2>1, <2>2, RetireType, NoneAssumption DEF Delete, passVars, Stored
<1>4. CASE Pin(i, caller)
  <2>1. mem' = [mem EXCEPT ![i] = [mem[i] EXCEPT !.pinned = TRUE, !.updated = today,
                    !.importance = AtMost(mem[i].importance + 1, MaxImportance)]]
    BY <1>4 DEF Pin
  <2>2. AtMost(mem[i].importance + 1, MaxImportance) \in 0..MaxImportance
    BY <1>2, NumbersAssumption DEF AtMost, Row
  <2>3. mem'[i] \in Row
    BY <1>2, <2>1, <2>2 DEF Row
  <2> QED BY <1>4, <2>1, <2>3, NoneAssumption DEF Pin, passVars, Stored
<1>5. CASE Unpin(i, caller)
  <2>1. mem' = [mem EXCEPT ![i] = [mem[i] EXCEPT !.pinned = FALSE, !.updated = today,
                    !.importance = AtLeast(mem[i].importance - 1, 0)]]
    BY <1>5 DEF Unpin
  <2>2. AtLeast(mem[i].importance - 1, 0) \in 0..MaxImportance
    BY <1>2, NumbersAssumption DEF AtLeast, Row
  <2>3. mem'[i] \in Row
    BY <1>2, <2>1, <2>2 DEF Row
  <2> QED BY <1>5, <2>1, <2>3, NoneAssumption DEF Unpin, passVars, Stored
<1>6. ASSUME NEW content \in Contents, Update(i, content, caller) PROVE TypeOK' /\ Stored \subseteq Stored'
  <2>1. mem' = [mem EXCEPT ![i] = [mem[i] EXCEPT !.content = content, !.updated = today]]
    BY <1>6 DEF Update
  <2>2. mem'[i] \in Row
    BY <1>2, <2>1 DEF Row
  <2> QED BY <1>6, <2>1, <2>2, NoneAssumption DEF Update, passVars, Stored
<1>7. ASSUME NEW content \in Contents, NEW new \in Ids, Correct(i, new, content, caller)
      PROVE TypeOK' /\ Stored \subseteq Stored'
  <2> DEFINE row == [mem[i] EXCEPT !.content = content, !.created = today, !.updated = today,
                                   !.accesses = 0, !.retrievals = 0, !.archived = FALSE]
  <2>1. row \in Row
    BY <1>2, CorrectedRow
  <2>2. i # new
    BY <1>7 DEF Correct, MayEdit
  <2>3. mem' = [mem EXCEPT ![new] = row, ![i] = Retire(mem[i], new)]
    BY <1>7, <2>2 DEF Correct
  <2> QED BY <1>2, <1>7, <2>1, <2>3, RetireType, NoneAssumption DEF Correct, passVars, Stored
<1>8. ASSUME NEW content \in Contents, NEW j \in Ids, NEW new \in Ids,
             UserMerge(i, j, new, content, caller)
      PROVE TypeOK' /\ Stored \subseteq Stored'
  <2> DEFINE primary == IF mem[i].importance >= mem[j].importance THEN mem[i] ELSE mem[j]
             row == [primary EXCEPT
                !.content = content, !.created = today, !.updated = today,
                !.accessed = None, !.accesses = 0, !.retrievals = 0,
                !.pinned = mem[i].pinned \/ mem[j].pinned,
                !.archived = FALSE, !.supersededBy = None]
  <2>1. mem[j] \in Row /\ i # j /\ i # new /\ j # new
    BY <1>8 DEF UserMerge, MayEdit, Stored
  <2>2. primary \in Row
    BY <1>2, <2>1
  <2>3. row \in Row
    <3>1. (mem[i].pinned \/ mem[j].pinned) \in BOOLEAN
      OBVIOUS
    <3> HIDE DEF primary
    <3> QED BY <2>2, <3>1, MergedRow
  <2>4. mem' = [mem EXCEPT ![new] = row, ![i] = Retire(mem[i], new), ![j] = Retire(mem[j], new)]
    BY <1>8, <2>1 DEF UserMerge
  <2> HIDE DEF row
  <2>5. Retire(mem[i], new) \in Row /\ Retire(mem[j], new) \in Row
    BY <1>2, <2>1, RetireType
  <2>6. mem' \in [Ids -> Row \cup {None}]
    BY <2>3, <2>4, <2>5
  <2>7. Stored \subseteq Stored'
    BY <2>1, <2>3, <2>4, <2>5, NoneAssumption DEF Stored
  <2> QED BY <1>8, <2>6, <2>7 DEF UserMerge, passVars
<1> QED BY <1>1, <1>3, <1>4, <1>5, <1>6, <1>7, <1>8

\* What a phase has fetched and not visited is in the table; no rows are held
\* between the passes.
Fetched == todo \subseteq Stored /\ (pass = "idle" => todo = {})

\* A table in which one row was replaced by a row.
LEMMA OneRow ==
    ASSUME TypeOK, NEW i \in Ids, NEW row \in Row, mem' = [mem EXCEPT ![i] = row]
    PROVE  mem' \in [Ids -> Row \cup {None}] /\ Stored \subseteq Stored'
BY NoneAssumption DEF TypeOK, Stored

\* A row that changed its lifecycle is a row.
LEMMA MigratedType ==
    ASSUME NEW row \in Row, NEW lifecycle \in Lifecycles, today \in 0..MaxDay
    PROVE  Migrated(row, lifecycle) \in Row
BY DEF Migrated, Row

\* The rows above the limits of their types are live rows of the scope.
LEMMA ExcessFound ==
    ASSUME ReinforceEnd PROVE todo' \subseteq Found(mem, request) /\ mem' = mem
<1>1. \A type : \A T \in Excesses(mem, type) : T \subseteq Found(mem, request)
  BY FetchedFrom DEF Excesses
<1>2. PICK excess \in [DOMAIN KindLimit -> SUBSET Ids] :
        /\ \A type \in DOMAIN KindLimit : excess[type] \in Excesses(mem, type)
        /\ todo' = UNION {excess[type] : type \in DOMAIN KindLimit}
  BY DEF ReinforceEnd
<1>3. \A type \in DOMAIN KindLimit : excess[type] \subseteq Found(mem, request)
  BY <1>1, <1>2
<1> QED BY <1>2, <1>3 DEF ReinforceEnd

\* Every step of a pass keeps the types, and fetches only rows of the table.
LEMMA PassType ==
    ASSUME TypeOK, Fetched, PassStep
    PROVE  TypeOK' /\ Fetched'
<1> USE DEF TypeOK, Fetched
<1>1. CASE ConsolidateRow
  <2>1. PICK i \in Newest(mem, todo) :
            MayMaintain(mem, i) /\ todo' = todo \ {i} /\ done' \in {done, done \cup {i}}
    BY <1>1 DEF ConsolidateRow, MayMaintain
  <2>2. i \in Ids
    BY <2>1 DEF Newest
  <2>3. mem' \in [Ids -> Row \cup {None}]
    BY <2>1, <2>2, MaintainType
  <2>4. Stored \subseteq Stored'
    BY <2>1, <2>2, MaintainShape, RetireType, NoneAssumption DEF Stored, Live
  <2> QED BY <1>1, <2>1, <2>2, <2>3, <2>4 DEF ConsolidateRow
<1>2. CASE ConsolidateEnd
  <2>1. CASE mode = "light"
    BY <1>2, <2>1 DEF ConsolidateEnd, EndPass, NoScope, Filter, Modes, Passes
  <2>2. CASE mode # "light"
    <3>1. todo' \subseteq Found(mem, request) /\ mem' = mem
      BY <1>2, <2>2, FetchedFrom DEF ConsolidateEnd
    <3> QED BY <1>2, <2>2, <3>1 DEF ConsolidateEnd, Passes, Found, Stored, Live
  <2> QED BY <2>1, <2>2
<1>3. CASE MigrateRow
  <2>1. PICK i \in Newest(mem, todo) :
            /\ \/ mem' = mem
               \/ mem' = [mem EXCEPT ![i] = Migrated(mem[i], "episodic")]
               \/ mem' = [mem EXCEPT ![i] = Migrated(mem[i], "semantic")]
               \/ mem' = [mem EXCEPT ![i] = Retire(mem[i], None)]
            /\ todo' = todo \ {i}
    BY <1>3 DEF MigrateRow
  <2>2. i \in Ids /\ mem[i] \in Row
    BY <2>1 DEF Newest, Stored
  <2>3. mem' \in [Ids -> Row \cup {None}] /\ Stored \subseteq Stored'
    BY <2>1, <2>2, OneRow, MigratedType, RetireType DEF Lifecycles, Stored
  <2> QED BY <1>3, <2>1, <2>3 DEF MigrateRow
<1>4. CASE MigrateEnd
  BY <1>4 DEF MigrateEnd, EndPass, NoScope, Filter, Modes, Passes
<1>5. CASE MergeNext
  <2>1. PICK i \in todo : \E j \in todo :
            /\ \/ mem' = mem
               \/ mem' = [mem EXCEPT ![i] = Retire(mem[i], j)]
               \/ mem' = [mem EXCEPT ![j] = Retire(mem[j], i)]
            /\ todo' \subseteq todo /\ merged' \in {merged, merged + 1}
    BY <1>5 DEF MergeNext, Newest
  <2>2. mem' \in [Ids -> Row \cup {None}] /\ Stored \subseteq Stored'
    BY <2>1, OneRow, RetireType DEF Stored
  <2> QED BY <1>5, <2>1, <2>2 DEF MergeNext
<1>6. CASE MergeEnd
  <2>1. todo' \subseteq Found(mem, request) /\ mem' = mem
    BY <1>6, FetchedFrom DEF MergeEnd
  <2> QED BY <1>6, <2>1 DEF MergeEnd, Passes, Found, Stored, Live
<1>7. CASE ArchiveNext
  <2>1. PICK i \in todo :
            /\ mem' = mem \/ mem' = [mem EXCEPT ![i] = Retire(mem[i], None)]
            /\ todo' = todo \ {i} /\ done' = done \cup {i}
    BY <1>7 DEF ArchiveNext, Newest
  <2>2. mem' \in [Ids -> Row \cup {None}] /\ Stored \subseteq Stored'
    BY <2>1, OneRow, RetireType DEF Stored
  <2> QED BY <1>7, <2>1, <2>2 DEF ArchiveNext
<1>8. CASE ArchiveEnd
  <2>1. todo' \subseteq Found(mem, request) /\ mem' = mem
    BY <1>8, FetchedFrom DEF ArchiveEnd
  <2> QED BY <1>8, <2>1 DEF ArchiveEnd, Passes, Found, Stored, Live
<1>9. CASE ReinforceNext
  <2>1. PICK i \in todo :
            /\ \/ mem' = mem
               \/ /\ mem[i].importance < MaxImportance
                  /\ mem' = [mem EXCEPT ![i] = [mem[i] EXCEPT
                                !.importance = mem[i].importance + 1, !.updated = today]]
            /\ todo' = todo \ {i}
    BY <1>9 DEF ReinforceNext, Newest
  <2>2. mem[i].importance < MaxImportance =>
            [mem[i] EXCEPT !.importance = mem[i].importance + 1, !.updated = today] \in Row
    <3>1. mem[i] \in Row
      BY <2>1 DEF Stored
    <3>2. mem[i].importance < MaxImportance => mem[i].importance + 1 \in 0..MaxImportance
      BY <3>1, NumbersAssumption DEF Row
    <3> QED BY <3>1, <3>2 DEF Row
  <2>3. mem' \in [Ids -> Row \cup {None}] /\ Stored \subseteq Stored'
    BY <2>1, <2>2, OneRow DEF Stored
  <2> QED BY <1>9, <2>1, <2>3 DEF ReinforceNext
<1>10. CASE ReinforceEnd
  <2>1. todo' \subseteq Found(mem, request) /\ mem' = mem
    BY <1>10, ExcessFound
  <2> QED BY <1>10, <2>1 DEF ReinforceEnd, Passes, Found, Stored, Live
<1>11. CASE LimitNext
  <2>1. PICK i \in todo : mem' = [mem EXCEPT ![i] = Retire(mem[i], None)] /\ todo' = todo \ {i}
    BY <1>11 DEF LimitNext
  <2>2. mem' \in [Ids -> Row \cup {None}] /\ Stored \subseteq Stored'
    BY <2>1, OneRow, RetireType DEF Stored
  <2> QED BY <1>11, <2>1, <2>2 DEF LimitNext
<1>12. CASE LimitEnd
  BY <1>12 DEF LimitEnd, EndPass, NoScope, Filter, Modes, Passes
<1> QED BY <1>1, <1>2, <1>3, <1>4, <1>5, <1>6, <1>7, <1>8, <1>9, <1>10, <1>11, <1>12 DEF PassStep

\* So does every other step.
LEMMA TypeStep ==
    ASSUME TypeOK, Fetched, [Next]_vars
    PROVE  TypeOK' /\ Fetched'
<1> USE DEF TypeOK
<1>1. ASSUME NEW i \in Ids, NEW in \in Inputs, Store(i, in) \/ StoreInterrupted(i, in)
      PROVE TypeOK' /\ Fetched'
  <2>1. NewRow(in) \in Row
    BY InputsAssumption, NumbersAssumption DEF NewRow, Row, Input, Scope
  <2>2. mem' \in [Ids -> Row \cup {None}]
    BY <1>1, <2>1, StoreParts, MaintainType DEF Inserted
  <2> QED BY <1>1, <2>2, StoreParts DEF passVars, Fetched
<1>3. ASSUME NEW i \in Ids, GetById(i) PROVE TypeOK' /\ Fetched'
  <2>1. mem[i] \in Row
    BY <1>3 DEF GetById, Stored
  <2>2. mem' = [mem EXCEPT ![i] = [mem[i] EXCEPT
                    !.accesses = AtMost(mem[i].accesses + 1, HotAt), !.accessed = today]]
    BY <1>3 DEF GetById
  <2>3. AtMost(mem[i].accesses + 1, HotAt) \in 0..HotAt
    BY <2>1, NumbersAssumption DEF AtMost, Row
  <2>4. mem'[i] \in Row
    BY <2>1, <2>2, <2>3 DEF Row
  <2> QED BY <1>3, <2>2, <2>4 DEF GetById, passVars, Fetched
<1>4. ASSUME NEW i \in Ids, Recall(i) PROVE TypeOK' /\ Fetched'
  <2>1. mem[i] \in Row
    BY <1>4 DEF Recall, Stored
  <2>2. mem' = [mem EXCEPT ![i] = [mem[i] EXCEPT
                    !.retrievals = AtMost(mem[i].retrievals + 1, SemanticAt),
                    !.accessed = today]]
    BY <1>4 DEF Recall
  <2>3. AtMost(mem[i].retrievals + 1, SemanticAt) \in 0..SemanticAt
    BY <2>1, NumbersAssumption DEF AtMost, Row
  <2>4. mem'[i] \in Row
    BY <2>1, <2>2, <2>3 DEF Row
  <2> QED BY <1>4, <2>2, <2>4 DEF Recall, passVars, Fetched
<1>5. CASE Edit
  BY <1>5, EditIdle, EditType DEF passVars, Fetched
<1>6. ASSUME NEW i \in Ids, NEW lifecycle \in Lifecycles \ {"archive"}, NEW allow \in BOOLEAN,
             Restore(i, lifecycle, allow)
      PROVE TypeOK' /\ Fetched'
  <2>1. mem[i] \in Row
    BY <1>6 DEF Restore, Stored
  <2>2. mem' = [mem EXCEPT ![i] = [mem[i] EXCEPT !.lifecycle = lifecycle,
                    !.updated = today, !.archived = FALSE, !.supersededBy = None]]
    BY <1>6 DEF Restore
  <2>3. mem'[i] \in Row
    BY <2>1, <2>2 DEF Row
  <2> QED BY <1>6, <2>2, <2>3 DEF Restore, passVars, Fetched
<1>7. ASSUME NEW c \in Consolidations, ConsolidateStart(c.scope, c.mode)
      PROVE TypeOK' /\ Fetched'
  <2>1. todo' \subseteq Found(mem, c.scope)
    BY <1>7, FetchedFrom DEF ConsolidateStart
  <2> QED BY <1>7, <2>1, RequestsAssumption DEF ConsolidateStart, Passes, Found, Live, Stored, Fetched
<1>8. ASSUME NEW filter \in Housekeepings, HousekeepingStart(filter) PROVE TypeOK' /\ Fetched'
  <2>1. todo' \subseteq Found(mem, filter)
    BY <1>8, FetchedFrom DEF HousekeepingStart
  <2> QED BY <1>8, <2>1, RequestsAssumption DEF HousekeepingStart, Passes, Found, Live, Stored, Fetched
<1>9. CASE PassStep
  BY <1>9, PassType
<1>10. CASE Crash
  <2>1. mem' \in [Ids -> Row \cup {None}]
    BY <1>10, CrashParts, MaintainType
  <2> QED BY <1>10, <2>1, CrashParts DEF EndPass, NoScope, Filter, Modes, Passes, Fetched
<1>11. CASE NextDay
  BY <1>11, NumbersAssumption DEF NextDay, passVars, Fetched
<1>12. CASE UNCHANGED vars
  BY <1>12 DEF vars, Fetched, Stored
<1> QED BY <1>1, <1>3, <1>4, <1>5, <1>6, <1>7, <1>8, <1>9, <1>10, <1>11, <1>12 DEF Next

-----------------------------------------------------------------------------
\* The types hold throughout, and with them what the passes have fetched.
LEMMA TypeInvariance == Spec => [](TypeOK /\ Fetched)
<1>1. Init => TypeOK /\ Fetched
  BY NumbersAssumption DEF Init, TypeOK, Passes, Modes, NoScope, Filter, Fetched
<1>2. TypeOK /\ Fetched /\ [Next]_vars => TypeOK' /\ Fetched'
  BY TypeStep
<1> QED BY <1>1, <1>2, PTL DEF Spec

\* Every variable keeps its type: in particular counters, importance and days
\* stay in range through every edit and every pass.
THEOREM TypeCorrect == Spec => []TypeOK
<1>1. TypeOK /\ Fetched => TypeOK
  OBVIOUS
<1> QED BY <1>1, TypeInvariance, PTL

-----------------------------------------------------------------------------
(***************************************************************************)
(* Consolidation settles what it has visited.  The argument: maintenance   *)
(* leaves a live row without rivals and without stale neighbours, and      *)
(* nothing a consolidation does afterwards can give it new ones, because   *)
(* every write retires a row or moves it to another lifecycle as of today. *)
(***************************************************************************)
Settled(m, i) == Rivals(m, i) = {} /\ StaleEpisodic(m, m[i].scope, i) = {}

\* Retiring rows gives no row a rival or a stale neighbour.
LEMMA RetiringSettles ==
    ASSUME UNCHANGED today, NEW i \in Ids, Live(mem, i) => Settled(mem, i),
           \A j \in Ids : Live(mem', j) => Live(mem, j) /\ mem'[j] = mem[j]
    PROVE  Live(mem', i) => Settled(mem, i)'
BY DEF Settled, Rivals, StaleEpisodic, Episodic, Found, NearDuplicate, Live

\* Neither does moving one row to another lifecycle.
LEMMA MigratingSettles ==
    ASSUME TypeOK, UNCHANGED today, NEW i \in Ids, Live(mem, i) => Settled(mem, i),
           NEW k \in Ids, mem[k] # None, NEW lifecycle,
           mem' = [mem EXCEPT ![k] = Migrated(mem[k], lifecycle)]
    PROVE  Live(mem', i) => Settled(mem, i)'
<1>1. mem[k] \in Row
  BY DEF TypeOK
<1>2. /\ mem'[k].scope = mem[k].scope /\ mem'[k].type = mem[k].type
      /\ mem'[k].content = mem[k].content /\ mem'[k].archived = mem[k].archived
      /\ mem'[k].updated = today
  BY <1>1 DEF Migrated, Row, TypeOK
<1>3. \A j \in Ids \ {k} : mem'[j] = mem[j]
  BY DEF TypeOK
<1>4. \A j \in Ids : Live(mem', j) => Live(mem, j)
  BY <1>2, <1>3 DEF Live
<1>5. ASSUME Live(mem', i) PROVE Rivals(mem, i)' = {}
  <2> SUFFICES ASSUME NEW j \in Rivals(mem, i)' PROVE FALSE
    OBVIOUS
  <2>1. /\ j \in Ids /\ j # i /\ Live(mem, j) /\ Live(mem, i)
        /\ Matches(mem'[i].scope, mem'[j].scope)
        /\ mem'[i].type = mem'[j].type /\ <<mem'[i].content, mem'[j].content>> \in Similar
    BY <1>4, <1>5 DEF Rivals, Found, NearDuplicate
  <2>2. \A l \in {i, j} : /\ mem'[l].scope = mem[l].scope /\ mem'[l].type = mem[l].type
                          /\ mem'[l].content = mem[l].content
    BY <1>2, <1>3, <2>1
  <2>3. j \in Rivals(mem, i)
    BY <2>1, <2>2 DEF Rivals, Found, NearDuplicate
  <2> QED BY <2>1, <2>3 DEF Settled
<1>6. ASSUME Live(mem', i) PROVE StaleEpisodic(mem, mem[i].scope, i)' = {}
  <2>1. ~(today - mem'[k].updated >= StaleDays)
    BY <1>2, NumbersAssumption DEF TypeOK
  <2> QED BY <1>2, <1>3, <1>4, <1>6, <2>1 DEF Settled, StaleEpisodic, Episodic, Found
<1> QED BY <1>5, <1>6 DEF Settled

\* What maintenance of a row that stays live does when its scans see everything.
LEMMA MaintainWhole ==
    ASSUME TypeOK, NEW i \in Ids, Live(mem, i), Maintain(mem, i), ScansWhole(mem, i)
    PROVE  \E beaten \in SUBSET Rivals(mem, i), winner \in Rivals(mem, i) \cup {None} :
             /\ winner = None => beaten = Rivals(mem, i)
             /\ LET n == MergeDuplicates(mem, i, beaten, winner) IN
                /\ winner = None => mem' = Archive(n, StaleEpisodic(n, n[i].scope, i))
                /\ \E stale : mem' = Archive(n, stale)
<1>1. PICK rivals \in RivalScans(mem, i) :
        \E beaten \in SUBSET rivals, winner \in rivals \cup {None} :
          /\ Decides(mem, i, rivals, beaten, winner)
          /\ \E stale \in StaleScans(MergeDuplicates(mem, i, beaten, winner), i) :
               mem' = Archive(MergeDuplicates(mem, i, beaten, winner), stale)
  BY DEF Maintain
<1>2. rivals = Rivals(mem, i)
  <2>1. PICK fetch \in Fetches(mem, SameType(mem, i), Limit.dedupe) : rivals = fetch \cap Rivals(mem, i)
    BY <1>1 DEF RivalScans
  <2>2. SameType(mem, i) \in SUBSET Ids /\ Limit.dedupe \in Nat
    BY LimitAssumption DEF SameType, Found, Limits
  <2>3. fetch = SameType(mem, i)
    BY <2>1, <2>2, FetchedWhole DEF ScansWhole
  <2>4. Rivals(mem, i) \subseteq SameType(mem, i)
    BY DEF Rivals, SameType, NearDuplicate
  <2> QED BY <2>1, <2>3, <2>4
<1>3. PICK beaten \in SUBSET rivals, winner \in rivals \cup {None} :
          /\ Decides(mem, i, rivals, beaten, winner)
          /\ \E stale \in StaleScans(MergeDuplicates(mem, i, beaten, winner), i) :
               mem' = Archive(MergeDuplicates(mem, i, beaten, winner), stale)
  BY <1>1
<1> DEFINE n == MergeDuplicates(mem, i, beaten, winner)
<1>4. PICK stale \in StaleScans(n, i) : mem' = Archive(n, stale)
  BY <1>3
<1>5. ASSUME winner = None PROVE stale = StaleEpisodic(n, n[i].scope, i)
  <2>1. PICK fetch \in Fetches(n, Episodic(n, n[i].scope), Limit.stale) :
            stale = fetch \cap StaleEpisodic(n, n[i].scope, i)
    BY <1>4 DEF StaleScans
  <2>2. n[i] = mem[i]
    BY <1>2, <1>5 DEF MergeDuplicates, Rivals
  <2>3. \A j \in Ids : Live(n, j) => Live(mem, j) /\ n[j] = mem[j]
    <3>1. \A j \in Rivals(mem, i) : mem[j] \in Row
      BY DEF Rivals, Found, Live, TypeOK
    <3>2. \A j \in beaten : n[j] = Retire(mem[j], i)
      BY <1>2 DEF MergeDuplicates, Rivals, Found
    <3>3. \A j \in Ids \ beaten : n[j] = mem[j]
      BY <1>5 DEF MergeDuplicates
    <3> HIDE DEF n
    <3>4. \A j \in beaten : ~Live(n, j)
      BY <1>2, <3>1, <3>2, RetireArchives DEF Live
    <3> QED BY <3>3, <3>4 DEF Live
  <2> HIDE DEF n
  <2>4. Episodic(n, n[i].scope) \subseteq Episodic(mem, mem[i].scope)
    BY <2>2, <2>3 DEF Episodic, Found
  <2>5. Episodic(mem, mem[i].scope) \in SUBSET Ids /\ Limit.stale \in Nat
    BY LimitAssumption DEF Episodic, Found, Limits
  <2>6. IsFiniteSet(Episodic(mem, mem[i].scope))
    BY <2>5, IdsAssumption, FS_Subset
  <2>7. /\ Cardinality(Episodic(n, n[i].scope)) <= Cardinality(Episodic(mem, mem[i].scope))
        /\ Cardinality(Episodic(n, n[i].scope)) \in Nat
        /\ Cardinality(Episodic(mem, mem[i].scope)) \in Nat
    BY <2>4, <2>6, FS_Subset, FS_CardinalityType
  <2>8. Cardinality(Episodic(n, n[i].scope)) <= Limit.stale
    BY <2>5, <2>7 DEF ScansWhole
  <2>9. Episodic(n, n[i].scope) \in SUBSET Ids
    BY <2>4, <2>5
  <2>10. fetch = Episodic(n, n[i].scope)
    BY <2>1, <2>5, <2>8, <2>9, FetchedWhole
  <2>11. StaleEpisodic(n, n[i].scope, i) \subseteq Episodic(n, n[i].scope)
    BY DEF StaleEpisodic
  <2> QED BY <2>1, <2>10, <2>11
<1>6. winner = None => beaten = Rivals(mem, i)
  BY <1>2, <1>3 DEF Decides
<1>7. beaten \in SUBSET Rivals(mem, i) /\ winner \in Rivals(mem, i) \cup {None}
  BY <1>2
<1> QED BY <1>4, <1>5, <1>6, <1>7

\* Maintenance settles the row it is about when its scans see everything.
LEMMA MaintainSettles ==
    ASSUME TypeOK, UNCHANGED today, NEW i \in Ids, Maintain(mem, i), ScansWhole(mem, i)
    PROVE  Live(mem', i) => Settled(mem, i)'
<1> SUFFICES ASSUME Live(mem', i) PROVE Settled(mem, i)'
  OBVIOUS
<1>1. \A j \in Ids : Live(mem', j) => Live(mem, j) /\ mem'[j] = mem[j]
  BY MaintainShape, RetireArchives DEF TypeOK, Live, MayMaintain
<1>2. PICK beaten \in SUBSET Rivals(mem, i), winner \in Rivals(mem, i) \cup {None} :
        /\ winner = None => beaten = Rivals(mem, i)
        /\ LET n == MergeDuplicates(mem, i, beaten, winner) IN
           /\ winner = None => mem' = Archive(n, StaleEpisodic(n, n[i].scope, i))
           /\ \E stale : mem' = Archive(n, stale)
  BY <1>1, MaintainWhole
<1> DEFINE n == MergeDuplicates(mem, i, beaten, winner)
<1>3. \A j \in Ids : Live(mem', j) => Live(n, j) /\ n[j] = mem[j]
  <2> SUFFICES ASSUME NEW j \in Ids, Live(mem', j) PROVE mem'[j] = n[j]
    BY <1>1 DEF Live
  <2>1. Live(mem, j) /\ mem[j] \in Row
    BY <1>1 DEF Live, TypeOK
  <2>2. n[j] \in Row
    BY <2>1, RetireType DEF MergeDuplicates, Rivals, Found, TypeOK
  <2>3. mem'[j] = n[j] \/ mem'[j] = Retire(n[j], None)
    BY <1>2 DEF Archive
  <2> QED BY <2>2, <2>3, RetireArchives DEF Live
<1>4. i \notin Rivals(mem, i)
  BY DEF Rivals
<1>5. winner = None
  <2> SUFFICES ASSUME winner # None PROVE FALSE
    OBVIOUS
  <2>1. n[i] = Retire(mem[i], winner)
    BY <1>4, <1>2 DEF MergeDuplicates
  <2> QED BY ZenonT(30), <1>1, <1>3, <2>1 DEF Retire, Live, TypeOK, Row
<1>6. beaten = Rivals(mem, i) /\ mem' = Archive(n, StaleEpisodic(n, mem[i].scope, i))
  BY <1>1, <1>2, <1>3, <1>5
<1>7. Rivals(mem, i)' = {}
  <2> SUFFICES ASSUME NEW j \in Rivals(mem, i)' PROVE FALSE
    OBVIOUS
  <2>1. j \in Ids /\ Live(mem', j) /\ j \in Rivals(mem, i)
    BY <1>1 DEF Rivals, Found, NearDuplicate
  <2>2. n[j] = Retire(mem[j], i)
    BY <1>6, <2>1 DEF MergeDuplicates
  <2> QED BY ZenonT(30), <1>1, <1>3, <2>1, <2>2 DEF Retire, Live, TypeOK, Row
<1>8. StaleEpisodic(mem, mem[i].scope, i)' = {}
  <2> SUFFICES ASSUME NEW j \in StaleEpisodic(mem, mem[i].scope, i)' PROVE FALSE
    OBVIOUS
  <2>1. j \in Ids /\ Live(mem', j)
    BY DEF StaleEpisodic, Episodic, Found
  <2>2. j \in StaleEpisodic(n, mem[i].scope, i)
    BY <1>1, <1>3, <2>1 DEF StaleEpisodic, Episodic, Found
  <2>3. mem'[j] = Retire(n[j], None)
    BY <1>6, <2>1, <2>2 DEF Archive
  <2> QED BY <1>1, <1>3, <2>1, <2>3 DEF Retire, Live, TypeOK, Row
<1> QED BY <1>7, <1>8 DEF Settled

\* Every step keeps what a consolidation has visited settled.
LEMMA SettlesStep ==
    ASSUME TypeOK, Fetched, ConsolidationSettles, [Next]_vars
    PROVE  ConsolidationSettles'
<1> SUFFICES ASSUME pass' \in {"consolidate", "migrate"}, NEW i \in done', Live(mem', i)
             PROVE  Settled(mem, i)'
  BY DEF ConsolidationSettles, Settled
<1>1. CASE ConsolidateRow
  <2>1. PICK k \in todo : /\ Maintain(mem, k)
                          /\ done' = IF ScansWhole(mem, k) THEN done \cup {k} ELSE done
    BY <1>1 DEF ConsolidateRow, Newest
  <2>2. k \in Ids /\ UNCHANGED today
    BY <1>1, <2>1 DEF ConsolidateRow, TypeOK
  <2>3. CASE i = k /\ ScansWhole(mem, k)
    BY <2>1, <2>2, <2>3, MaintainSettles
  <2>4. CASE i \in done
    <3>1. \A j \in Ids : Live(mem', j) => Live(mem, j) /\ mem'[j] = mem[j]
      BY <2>1, <2>2, MaintainShape, RetireArchives DEF TypeOK, Live, MayMaintain
    <3>2. i \in Ids /\ (Live(mem, i) => Settled(mem, i))
      BY <1>1, <2>4 DEF ConsolidationSettles, Settled, ConsolidateRow, TypeOK
    <3> QED BY <2>2, <3>1, <3>2, RetiringSettles
  <2> QED BY <2>1, <2>3, <2>4
<1>2. CASE ConsolidateEnd
  <2>1. UNCHANGED <<mem, today>> /\ i \in done /\ pass = "consolidate"
    BY <1>2 DEF ConsolidateEnd, EndPass
  <2> QED BY <2>1 DEF ConsolidationSettles, Settled, Rivals, StaleEpisodic, Episodic, Found, NearDuplicate, Live
<1>3. CASE MigrateRow
  <2>1. PICK k \in todo :
            \/ mem' = mem
            \/ mem' = [mem EXCEPT ![k] = Migrated(mem[k], "episodic")]
            \/ mem' = [mem EXCEPT ![k] = Migrated(mem[k], "semantic")]
            \/ mem' = [mem EXCEPT ![k] = Retire(mem[k], None)]
    BY <1>3 DEF MigrateRow, Newest
  <2>2. k \in Ids /\ mem[k] # None /\ mem[k] \in Row
    BY <2>1 DEF Fetched, Stored, TypeOK
  <2>3. /\ i \in Ids /\ UNCHANGED today
        /\ Live(mem, i) => Settled(mem, i)
    BY <1>3 DEF ConsolidationSettles, Settled, MigrateRow, TypeOK
  <2>4. CASE \E lifecycle : mem' = [mem EXCEPT ![k] = Migrated(mem[k], lifecycle)]
    BY <2>2, <2>3, <2>4, MigratingSettles
  <2>5. CASE mem' = mem \/ mem' = [mem EXCEPT ![k] = Retire(mem[k], None)]
    <3>1. \A j \in Ids : Live(mem', j) => Live(mem, j) /\ mem'[j] = mem[j]
      BY <2>2, <2>5, RetireArchives DEF TypeOK, Live
    <3> QED BY <2>3, <3>1, RetiringSettles
  <2> QED BY <2>1, <2>4, <2>5
<1>4. CASE \E c \in Consolidations : ConsolidateStart(c.scope, c.mode)
  BY <1>4 DEF ConsolidateStart
<1>5. CASE UNCHANGED vars
  BY <1>5 DEF vars, ConsolidationSettles, Settled, Rivals, StaleEpisodic, Episodic, Found, NearDuplicate, Live
<1>6. ASSUME [Next]_vars, ~ConsolidateRow, ~ConsolidateEnd, ~MigrateRow, ~UNCHANGED vars,
             ~\E c \in Consolidations : ConsolidateStart(c.scope, c.mode)
      PROVE  pass' \notin {"consolidate", "migrate"}
  <2>1. Edit => pass' = "idle"
    BY EditIdle DEF passVars
  <2>2. \A j \in Ids, in \in Inputs : Store(j, in) \/ StoreInterrupted(j, in) => pass' = "idle"
    BY DEF Store, StoreInterrupted, passVars
  <2>3. \A j, l, allow : GetById(j) \/ Recall(j) \/ Restore(j, l, allow) => pass' = "idle"
    BY DEF GetById, Recall, Restore, passVars
  <2>4. \A filter : HousekeepingStart(filter) => pass' = "merge"
    BY DEF HousekeepingStart
  <2>5. MigrateEnd \/ LimitEnd \/ Crash => pass' = "idle"
    BY DEF MigrateEnd, LimitEnd, Crash, EndPass
  <2>6. PassStep => \/ ConsolidateRow \/ ConsolidateEnd \/ MigrateRow
                    \/ pass' \notin {"consolidate", "migrate"}
    BY <2>5 DEF PassStep, MergeNext, MergeEnd, ArchiveNext, ArchiveEnd, ReinforceNext,
                ReinforceEnd, LimitNext, passVars
  <2>7. NextDay => pass' = "idle"
    BY DEF NextDay, passVars
  <2> QED BY <1>6, <2>1, <2>2, <2>3, <2>4, <2>5, <2>6, <2>7 DEF Next
<1> QED BY <1>1, <1>2, <1>3, <1>4, <1>5, <1>6

\* What a consolidation has visited within the LIMITs of its scans stays free of
\* live near-duplicates and of stale episodic neighbours until it is over, for
\* every size of the table and every choice of limits (lifecycle.ts, consolidate).
THEOREM ConsolidationSettling == Spec => []ConsolidationSettles
<1>1. Init => ConsolidationSettles
  BY DEF Init, ConsolidationSettles
<1>2. TypeOK /\ Fetched /\ ConsolidationSettles /\ [Next]_vars => ConsolidationSettles'
  BY SettlesStep
<1>3. Spec => [](TypeOK /\ Fetched)
  BY TypeInvariance
<1> QED BY <1>1, <1>2, <1>3, PTL DEF Spec

-----------------------------------------------------------------------------
(***************************************************************************)
(* Housekeeping settles what its archive phase has visited: that is spared *)
(* from then on.  A fetch that was not cut returned the whole scope, so    *)
(* that afterwards every live row of the scope has been visited.           *)
(***************************************************************************)
Spared(row) ==
    row.pinned \/ row.retrievals >= ProtectAt \/ today - LastTouched(row) < StaleDays

Archived == {"archive", "reinforce", "limit"}

\* What the archive phase was to visit: it has visited all of it when it ends.
Visits == IF pass = "archive" THEN done \cup todo ELSE done

HousekeepingInv ==
    /\ pass \in {"idle", "merge"} => done = {}
    /\ pass \in Archived => \A i \in done : Live(mem, i) => Spared(mem[i])
    /\ (pass \in Archived /\ Cardinality(Visits) < Limit.batch) => Found(mem, request) \subseteq Visits

\* A step that retires rows, or reinforces them as of today, spares what was.
LEMMA SparingStep ==
    ASSUME TypeOK, HousekeepingInv, UNCHANGED today, pass \in Archived, NEW i \in done, Live(mem', i),
           \/ mem'[i] = mem[i]
           \/ /\ mem'[i].pinned = mem[i].pinned /\ mem'[i].retrievals = mem[i].retrievals
              /\ mem'[i].accessed = mem[i].accessed /\ mem'[i].updated = today
              /\ Live(mem, i)
    PROVE  Spared(mem[i])'
<1>1. today - today < StaleDays
  BY NumbersAssumption DEF TypeOK
<1>2. Spared(mem[i])
  BY DEF HousekeepingInv, Live
<1> QED BY <1>1, <1>2 DEF Spared, LastTouched

\* A step that revives nothing finds no more rows than the step before it.
LEMMA VisitsKept ==
    ASSUME HousekeepingInv, pass \in Archived, UNCHANGED request, Visits' = Visits,
           \A j \in Ids : Live(mem', j) => Live(mem, j) /\ mem'[j].scope = mem[j].scope
    PROVE  Cardinality(Visits') < Limit.batch => Found(mem, request)' \subseteq Visits'
<1>1. Found(mem, request)' \subseteq Found(mem, request)
  BY DEF Found
<1> QED BY <1>1 DEF HousekeepingInv

\* Every step keeps what housekeeping has spared spared.
LEMMA HousekeepingStep ==
    ASSUME TypeOK, Fetched, HousekeepingInv, [Next]_vars
    PROVE  HousekeepingInv'
<1>1. CASE ArchiveNext
  <2>1. PICK k \in todo :
            /\ mem' = IF StaleForHousekeeping(mem[k])
                      THEN [mem EXCEPT ![k] = Retire(mem[k], None)] ELSE mem
            /\ todo' = todo \ {k} /\ done' = done \cup {k}
    BY <1>1 DEF ArchiveNext, Newest
  <2>2. k \in Ids /\ mem[k] \in Row
    BY <2>1 DEF Fetched, Stored, TypeOK
  <2>3. pass = "archive" /\ pass' = "archive" /\ UNCHANGED <<today, request>>
    BY <1>1 DEF ArchiveNext
  <2>4. \A j \in Ids : Live(mem', j) => Live(mem, j) /\ mem'[j] = mem[j]
    BY <2>1, <2>2, RetireArchives DEF TypeOK, Live
  <2>5. Visits' = Visits
    BY <2>1, <2>3 DEF Visits
  <2>6. ASSUME NEW i \in done', Live(mem', i) PROVE Spared(mem[i])'
    <3>1. i \in Ids /\ mem'[i] = mem[i]
      BY <2>1, <2>2, <2>4, <2>6 DEF TypeOK
    <3>2. CASE i = k
      <4>1. ~StaleForHousekeeping(mem[k])
        BY <2>1, <2>2, <2>6, <3>2, RetireArchives DEF TypeOK, Live
      <4>2. mem[k].pinned \/ mem[k].retrievals >= ProtectAt
              \/ today - LastTouched(mem[k]) < StaleDays
        <5>1. LastTouched(mem[k]) \in 0..MaxDay /\ mem[k].retrievals \in Nat
          BY <2>2, NumbersAssumption DEF LastTouched, Row
        <5> QED BY <4>1, <5>1, NumbersAssumption DEF StaleForHousekeeping, TypeOK
      <4> QED BY <2>3, <3>1, <3>2, <4>2 DEF Spared, LastTouched
    <3>3. CASE i \in done
      BY <2>3, <2>6, <3>1, <3>3, SparingStep DEF Archived
    <3> QED BY <2>1, <2>6, <3>2, <3>3
  <2>7. pass \in Archived /\ pass' \in Archived
    BY <2>3 DEF Archived
  <2> QED BY <2>3, <2>4, <2>5, <2>6, <2>7, VisitsKept DEF HousekeepingInv
<1>2. CASE ArchiveEnd \/ ReinforceEnd
  <2>1. UNCHANGED <<mem, today, request, done>> /\ pass \in Archived /\ pass' \in {"reinforce", "limit"}
    BY <1>2 DEF ArchiveEnd, ReinforceEnd, Archived
  <2>2. Visits = done /\ Visits' = done
    BY <1>2, <2>1 DEF ArchiveEnd, ReinforceEnd, Visits
  <2>3. \A i \in done : Live(mem', i) => Spared(mem[i])'
    BY <2>1, SparingStep
  <2>4. Cardinality(Visits') < Limit.batch => Found(mem, request)' \subseteq Visits'
    BY <2>1, <2>2, VisitsKept
  <2> QED BY <2>1, <2>3, <2>4 DEF HousekeepingInv
<1>3. CASE ReinforceNext
  <2>1. PICK k \in todo :
            \/ mem' = mem
            \/ mem' = [mem EXCEPT ![k] = [mem[k] EXCEPT
                            !.importance = mem[k].importance + 1, !.updated = today]]
    BY ZenonT(30), <1>3 DEF ReinforceNext, Newest
  <2>2. k \in Ids /\ mem[k] \in Row /\ mem[k] # None
    BY <2>1 DEF Fetched, Stored, TypeOK
  <2>3. pass = "reinforce" /\ pass' = "reinforce" /\ UNCHANGED <<today, request, done>>
    BY <1>3 DEF ReinforceNext
  <2>4. \A j \in Ids : \/ mem'[j] = mem[j]
                       \/ /\ mem'[j].pinned = mem[j].pinned /\ mem'[j].retrievals = mem[j].retrievals
                          /\ mem'[j].accessed = mem[j].accessed /\ mem'[j].updated = today
                          /\ mem'[j].scope = mem[j].scope /\ mem'[j].archived = mem[j].archived
                          /\ mem[j] # None
    <3>1. CASE mem' = mem
      BY <3>1
    <3>2. CASE mem' # mem
      <4> DEFINE kept == [mem[k] EXCEPT !.importance = mem[k].importance + 1, !.updated = today]
      <4>1. /\ kept.pinned = mem[k].pinned /\ kept.retrievals = mem[k].retrievals
            /\ kept.accessed = mem[k].accessed /\ kept.updated = today
            /\ kept.scope = mem[k].scope /\ kept.archived = mem[k].archived
        BY <2>2 DEF Row
      <4>2. mem' = [mem EXCEPT ![k] = kept]
        BY <2>1, <3>2
      <4> HIDE DEF kept
      <4>3. \A j \in Ids : mem'[j] = IF j = k THEN kept ELSE mem[j]
        BY <4>2 DEF TypeOK
      <4> QED BY <2>2, <4>1, <4>3
    <3> QED BY <3>1, <3>2
  <2>5. \A j \in Ids : Live(mem', j) => Live(mem, j) /\ mem'[j].scope = mem[j].scope
    BY <2>4 DEF Live
  <2>6. pass \in Archived /\ pass' \in Archived /\ Visits' = Visits
    BY <2>3 DEF Archived, Visits
  <2>7. ASSUME NEW i \in done', Live(mem', i) PROVE Spared(mem[i])'
    BY <2>3, <2>4, <2>5, <2>6, <2>7, SparingStep DEF TypeOK
  <2> QED BY <2>3, <2>5, <2>6, <2>7, VisitsKept DEF HousekeepingInv
<1>4. CASE LimitNext
  <2>1. PICK k \in todo : mem' = [mem EXCEPT ![k] = Retire(mem[k], None)]
    BY <1>4 DEF LimitNext
  <2>2. k \in Ids /\ mem[k] \in Row
    BY <2>1 DEF Fetched, Stored, TypeOK
  <2>3. \A j \in Ids : Live(mem', j) => Live(mem, j) /\ mem'[j] = mem[j]
    BY <2>1, <2>2, RetireArchives DEF TypeOK, Live
  <2>4. pass = "limit" /\ pass' = "limit" /\ UNCHANGED <<today, request, done>>
    BY <1>4 DEF LimitNext
  <2>5. pass \in Archived /\ pass' \in Archived /\ Visits' = Visits
    BY <2>4 DEF Archived, Visits
  <2>6. ASSUME NEW i \in done', Live(mem', i) PROVE Spared(mem[i])'
    BY <2>3, <2>4, <2>5, <2>6, SparingStep DEF TypeOK
  <2> QED BY <2>3, <2>4, <2>5, <2>6, VisitsKept DEF HousekeepingInv
<1>5. CASE MergeEnd
  <2>1. /\ pass = "merge" /\ pass' = "archive" /\ UNCHANGED <<mem, request, done>>
        /\ todo' \in Fetches(mem, Found(mem, request), Limit.batch)
    BY <1>5 DEF MergeEnd
  <2>2. done' = {} /\ Visits' = todo'
    BY <2>1 DEF HousekeepingInv, Visits
  <2>3. Found(mem, request) \in SUBSET Ids /\ Limit.batch \in Nat
    BY LimitAssumption DEF Found, Limits
  <2>4. Cardinality(todo') < Limit.batch => todo' = Found(mem, request)
    BY <2>1, <2>3, FetchedWhole
  <2> QED BY <2>1, <2>2, <2>4 DEF HousekeepingInv
<1>6. CASE UNCHANGED vars
  <2>1. Visits' = Visits
    BY <1>6 DEF vars, Visits
  <2> QED BY <1>6, <2>1 DEF vars, HousekeepingInv, Archived, Found, Live, Spared, LastTouched
<1>7. ASSUME [Next]_vars, ~ArchiveNext, ~ArchiveEnd, ~ReinforceNext, ~ReinforceEnd,
             ~LimitNext, ~MergeEnd, ~UNCHANGED vars
      PROVE  pass' \notin Archived /\ (pass' \in {"idle", "merge"} => done' = {})
  <2> USE DEF Archived, HousekeepingInv
  <2>1. Edit => pass' = "idle" /\ pass = "idle" /\ done' = done
    BY EditIdle DEF passVars
  <2>2. \A j \in Ids, in \in Inputs : Store(j, in) \/ StoreInterrupted(j, in)
                                        => pass' = "idle" /\ pass = "idle" /\ done' = done
    BY DEF Store, StoreInterrupted, passVars
  <2>3. \A j, l, allow : GetById(j) \/ Recall(j) \/ Restore(j, l, allow)
                           => pass' = "idle" /\ pass = "idle" /\ done' = done
    BY DEF GetById, Recall, Restore, passVars
  <2>4. /\ \A filter : HousekeepingStart(filter) => pass' = "merge" /\ pass = "idle" /\ done' = done
        /\ \A filter, m : ConsolidateStart(filter, m) => pass' = "consolidate"
    BY DEF HousekeepingStart, ConsolidateStart
  <2>5. MigrateEnd \/ LimitEnd \/ Crash => pass' = "idle" /\ done' = {}
    BY DEF MigrateEnd, LimitEnd, Crash, EndPass
  <2>6. /\ ConsolidateRow \/ MigrateRow => pass' \in {"consolidate", "migrate"}
        /\ MergeNext => pass' = "merge" /\ pass = "merge" /\ done' = done
        /\ ConsolidateEnd => pass' = "migrate" \/ (pass' = "idle" /\ done' = {})
    BY DEF ConsolidateRow, ConsolidateEnd, EndPass, MigrateRow, MergeNext
  <2>7. NextDay => pass' = "idle" /\ pass = "idle" /\ done' = done
    BY DEF NextDay, passVars
  <2> QED BY <1>7, <2>1, <2>2, <2>3, <2>4, <2>5, <2>6, <2>7 DEF Next, PassStep
<1> QED BY <1>1, <1>2, <1>3, <1>4, <1>5, <1>6, <1>7 DEF HousekeepingInv

\* Once the archive phase of housekeeping is over, no later phase makes a row
\* that it visited stale again, and when fewer rows came back than the batch
\* limit it has visited every live row of the scope (housekeeping.ts, run).
THEOREM HousekeepingSettling == Spec => []HousekeepingSettles
<1>1. Init => HousekeepingInv
  BY DEF Init, HousekeepingInv, Archived
<1>2. TypeOK /\ Fetched /\ HousekeepingInv /\ [Next]_vars => HousekeepingInv'
  BY HousekeepingStep
<1>3. Spec => [](TypeOK /\ Fetched)
  BY TypeInvariance
<1>4. HousekeepingInv => HousekeepingSettles
  BY DEF HousekeepingInv, HousekeepingSettles, Spared, Archived, Visits, Found
<1> QED BY <1>1, <1>2, <1>3, <1>4, PTL DEF Spec

-----------------------------------------------------------------------------
(***************************************************************************)
(* Supersession.  A row may follow row i when it is another row of the     *)
(* table and, as long as no housekeeping runs over several users, does not *)
(* take a user's row to a different user.  Rows are never removed and keep *)
(* their scope, so an edge that was sound stays sound, and each writer's   *)
(* new edges are: maintenance only looks within the scope of the row,      *)
(* housekeeping within the user it was called for, a merge by hand within  *)
(* one scope, and a correction within the scope of the row it corrects.    *)
(***************************************************************************)
OneUserEach == \A filter \in Housekeepings : filter.user # None

Follows(m, i, s) ==
    /\ s \in Ids /\ s # i /\ m[s] # None
    /\ OneUserEach => \/ m[i].scope.user = None
                      \/ m[s].scope.user \in {None, m[i].scope.user}

EdgesSound(m) ==
    \A i \in Ids : (m[i] # None /\ m[i].supersededBy # None) => Follows(m, i, m[i].supersededBy)

\* Table n has the rows of table m, in the same scopes.
Extends(m, n) == \A i \in Ids : m[i] # None => n[i] # None /\ n[i].scope = m[i].scope

\* What the merge phase of housekeeping has fetched is in its scope.
MergeInScope ==
    pass = "merge" => /\ request \in Housekeepings
                      /\ \A i \in todo : Matches(request, mem[i].scope)

SupersessionInv == EdgesSound(mem) /\ MergeInScope

\* An edge stays sound when the table grows.
LEMMA FollowsKept ==
    ASSUME NEW m, NEW n, Extends(m, n), NEW i \in Ids, m[i] # None, NEW s, Follows(m, i, s)
    PROVE  Follows(n, i, s)
BY DEF Extends, Follows

\* A table is sound when each of its edges was there before or is sound.
LEMMA EdgesKept ==
    ASSUME NEW m, NEW n, Extends(m, n), EdgesSound(m),
           \A i \in Ids : (n[i] # None /\ n[i].supersededBy # None) =>
                \/ m[i] # None /\ n[i].supersededBy = m[i].supersededBy
                \/ Follows(n, i, n[i].supersededBy)
    PROVE  EdgesSound(n)
BY FollowsKept DEF EdgesSound

\* Writing one row whose edge was there before or is sound.
LEMMA OneRowEdges ==
    ASSUME NEW m \in [Ids -> Row \cup {None}], EdgesSound(m),
           NEW i \in Ids, NEW row \in Row, m[i] # None => row.scope = m[i].scope,
           \/ row.supersededBy = None
           \/ m[i] # None /\ row.supersededBy = m[i].supersededBy
           \/ m[i] # None /\ Follows(m, i, row.supersededBy),
           NEW n, n = [m EXCEPT ![i] = row]
    PROVE  EdgesSound(n) /\ Extends(m, n)
<1>1. n[i] = row /\ \A j \in Ids \ {i} : n[j] = m[j]
  OBVIOUS
<1>2. Extends(m, n)
  BY <1>1, NoneAssumption DEF Extends
<1>3. \A j \in Ids : (n[j] # None /\ n[j].supersededBy # None) =>
            \/ m[j] # None /\ n[j].supersededBy = m[j].supersededBy
            \/ Follows(n, j, n[j].supersededBy)
  BY <1>1, <1>2, FollowsKept
<1> QED BY <1>2, <1>3, EdgesKept

\* Retiring one row, in favour of a row that may follow it or of none.
LEMMA RetireEdges ==
    ASSUME NEW m \in [Ids -> Row \cup {None}], EdgesSound(m), today \in 0..MaxDay,
           NEW i \in Ids, m[i] # None, NEW s, s = None \/ Follows(m, i, s),
           NEW n, n = [m EXCEPT ![i] = Retire(m[i], s)]
    PROVE  EdgesSound(n) /\ Extends(m, n)
<1>1. m[i] \in Row /\ s \in Ids \cup {None}
  BY DEF Follows
<1>2. Retire(m[i], s) \in Row
  BY <1>1, RetireType
<1>3. Retire(m[i], s).scope = m[i].scope /\ Retire(m[i], s).supersededBy = s
  BY <1>1 DEF Retire, Row
<1> QED BY <1>2, <1>3, OneRowEdges

\* Maintenance retires rows only in favour of rows of the same scope.
LEMMA MaintainEdges ==
    ASSUME NEW m \in [Ids -> Row \cup {None}], EdgesSound(m), today \in 0..MaxDay,
           NEW i \in Ids, MayMaintain(m, i)
    PROVE  EdgesSound(mem') /\ Extends(m, mem')
<1>1. CASE ~Live(m, i)
  BY <1>1 DEF MayMaintain, Maintain, MaintainInterrupted, Extends
<1>2. CASE Live(m, i)
  <2>1. PICK beaten \in SUBSET Rivals(m, i), winner \in Rivals(m, i) \cup {None}, stale \in SUBSET Ids :
             /\ \A j \in stale : Live(MergeDuplicates(m, i, beaten, winner), j)
             /\ mem' = Archive(MergeDuplicates(m, i, beaten, winner), stale)
    BY <1>2, MaintainParts
  <2> DEFINE n == MergeDuplicates(m, i, beaten, winner)
  <2>2. \A j \in Rivals(m, i) : Follows(m, j, i) /\ Follows(m, i, j)
    BY <1>2 DEF Rivals, Found, Live, Matches, Follows
  <2>3. \A j \in Ids : m[j] # None => m[j] \in Row
    OBVIOUS
  <2>4. \A j \in Ids, s \in Ids \cup {None} : m[j] \in Row =>
            /\ Retire(m[j], s).scope = m[j].scope
            /\ Retire(m[j], s).supersededBy = s
            /\ Retire(m[j], s) # None
    <3>1. \A j \in Ids, s \in Ids \cup {None} : m[j] \in Row => Retire(m[j], s) # None
      BY RetireType, NoneAssumption
    <3>2. \A j \in Ids, s \in Ids \cup {None} : m[j] \in Row =>
              Retire(m[j], s).scope = m[j].scope /\ Retire(m[j], s).supersededBy = s
      BY DEF Retire, Row
    <3> QED BY <3>1, <3>2
  <2>5. \A j \in Ids : \/ n[j] = m[j]
                       \/ /\ m[j] # None
                          /\ \E s \in Ids : Follows(m, j, s) /\ n[j] = Retire(m[j], s)
    BY <1>2, <2>2 DEF MergeDuplicates, Rivals, Found, Live
  <2>6. \A j \in Ids : \/ mem'[j] = n[j]
                       \/ /\ n[j] = m[j] /\ m[j] # None
                          /\ mem'[j] = Retire(m[j], None)
    <3>1. \A j \in Ids : Live(n, j) => n[j] = m[j] /\ m[j] # None
      BY <2>5, RetireArchives DEF Live
    <3>2. \A j \in Ids : mem'[j] = n[j] \/ (Live(n, j) /\ mem'[j] = Retire(n[j], None))
      BY <2>1 DEF Archive
    <3> QED BY <3>1, <3>2
  <2> HIDE DEF n
  <2>7. Extends(m, mem')
    BY <2>3, <2>4, <2>5, <2>6 DEF Extends
  <2>8. \A j \in Ids : (mem'[j] # None /\ mem'[j].supersededBy # None) =>
            \/ m[j] # None /\ mem'[j].supersededBy = m[j].supersededBy
            \/ Follows(mem', j, mem'[j].supersededBy)
    BY <2>3, <2>4, <2>5, <2>6, <2>7, FollowsKept
  <2> QED BY <2>7, <2>8, EdgesKept
<1> QED BY <1>1, <1>2

\* Every edit keeps the edges: a correction copies the edge of the row that it
\* retires into a row of the same scope.
LEMMA EditEdges == ASSUME TypeOK, EdgesSound(mem), Edit PROVE EdgesSound(mem')
<1> USE DEF TypeOK
<1>1. PICK i \in Ids, caller \in Callers :
        \/ Delete(i, caller) \/ Pin(i, caller) \/ Unpin(i, caller)
        \/ \E content \in Contents :
            \/ Update(i, content, caller)
            \/ \E new \in Ids : Correct(i, new, content, caller)
            \/ \E j, new \in Ids : UserMerge(i, j, new, content, caller)
  BY DEF Edit
<1>2. mem[i] \in Row /\ mem[i] # None
  BY <1>1 DEF Delete, Pin, Unpin, Update, Correct, UserMerge, MayEdit, Stored
<1>3. mem' \in [Ids -> Row \cup {None}] /\ mem'[i] # None
  BY <1>1, EditType DEF Delete, Pin, Unpin, Update, Correct, UserMerge, MayEdit, Stored
<1>4. CASE \/ Delete(i, caller) \/ Pin(i, caller) \/ Unpin(i, caller)
           \/ \E content \in Contents : Update(i, content, caller)
  <2>1. /\ mem' = [mem EXCEPT ![i] = mem'[i]]
        /\ mem'[i].scope = mem[i].scope
        /\ mem'[i].supersededBy = mem[i].supersededBy
    <3>1. CASE Delete(i, caller)
      BY <1>2, <3>1 DEF Delete, Retire, Row
    <3>2. CASE Pin(i, caller)
      BY <1>2, <3>2 DEF Pin, Row
    <3>3. CASE Unpin(i, caller)
      BY <1>2, <3>3 DEF Unpin, Row
    <3>4. CASE \E content \in Contents : Update(i, content, caller)
      BY <1>2, <3>4 DEF Update, Row
    <3> QED BY <1>4, <3>1, <3>2, <3>3, <3>4
  <2>2. mem'[i] \in Row
    BY <1>3
  <2> QED BY <1>2, <2>1, <2>2, OneRowEdges
<1>5. ASSUME NEW content \in Contents, NEW new \in Ids, Correct(i, new, content, caller)
      PROVE  EdgesSound(mem')
  <2> DEFINE row == [mem[i] EXCEPT !.content = content, !.created = today, !.updated = today,
                                   !.accesses = 0, !.retrievals = 0, !.archived = FALSE]
             n == [mem EXCEPT ![new] = row]
  <2>1. new # i /\ mem[new] = None
    BY <1>2, <1>5 DEF Correct, Stored
  <2>2. mem' = [n EXCEPT ![i] = Retire(n[i], new)] /\ n[i] = mem[i]
    BY <1>5, <2>1 DEF Correct
  <2>3. row.scope = mem[i].scope /\ row.supersededBy = mem[i].supersededBy
    BY <1>2 DEF Row
  <2>4. mem'[new] = row
    BY <2>1, <2>2
  <2>5. row \in Row
    BY <1>2, CorrectedRow
  <2>6. n \in [Ids -> Row \cup {None}] /\ n[new] = row /\ row # None
    BY <2>5, NoneAssumption
  <2> HIDE DEF row
  <2>7. Extends(mem, n)
    BY <2>1 DEF Extends
  <2>8. EdgesSound(n)
    <3>1. mem[i].supersededBy # None => Follows(n, new, mem[i].supersededBy)
      BY <1>2, <2>1, <2>3, <2>6, <2>7, FollowsKept DEF EdgesSound, Follows
    <3> QED BY <2>1, <2>3, <2>6, <2>7, <3>1, EdgesKept
  <2>9. Follows(n, i, new)
    BY <2>1, <2>2, <2>3, <2>6 DEF Follows
  <2> HIDE DEF n
  <2> QED BY <1>2, <2>2, <2>6, <2>8, <2>9, RetireEdges
<1>6. ASSUME NEW content \in Contents, NEW j \in Ids, NEW new \in Ids,
             UserMerge(i, j, new, content, caller)
      PROVE  EdgesSound(mem')
  <2>1. /\ mem[j] \in Row /\ mem[j] # None /\ mem[i].scope = mem[j].scope
        /\ i # j /\ new # i /\ new # j /\ mem[new] = None
    BY <1>6 DEF UserMerge, MayEdit, Stored
  <2> DEFINE primary == IF mem[i].importance >= mem[j].importance THEN mem[i] ELSE mem[j]
             row == [primary EXCEPT
                !.content = content, !.created = today, !.updated = today,
                !.accessed = None, !.accesses = 0, !.retrievals = 0,
                !.pinned = mem[i].pinned \/ mem[j].pinned,
                !.archived = FALSE, !.supersededBy = None]
             n == [mem EXCEPT ![new] = row]
             o == [n EXCEPT ![i] = Retire(n[i], new)]
  <2>2. mem' = [mem EXCEPT ![new] = row, ![i] = Retire(mem[i], new),
                           ![j] = Retire(mem[j], new)]
    BY <1>6, <2>1 DEF UserMerge
  <2>3. row \in Row /\ row # None /\ row.scope = mem[i].scope /\ row.supersededBy = None
    <3>1. (mem[i].pinned \/ mem[j].pinned) \in BOOLEAN
      OBVIOUS
    <3>2. primary \in Row /\ primary.scope = mem[i].scope
      BY <1>2, <2>1
    <3> HIDE DEF primary
    <3>3. row \in Row
      BY <3>1, <3>2, MergedRow
    <3>4. row.scope = primary.scope /\ row.supersededBy = None
      BY <3>2 DEF Row
    <3> HIDE DEF row
    <3> QED BY <3>2, <3>3, <3>4, NoneAssumption
  <2> HIDE DEF row
  <2>4. n \in [Ids -> Row \cup {None}] /\ n[i] = mem[i] /\ n[j] = mem[j] /\ n[new] = row
    BY <2>1, <2>3
  <2>5. EdgesSound(n)
    BY <2>1, <2>2, <2>3, OneRowEdges
  <2>6. Follows(n, i, new)
    BY <2>1, <2>2, <2>3, <2>4 DEF Follows
  <2> HIDE DEF n
  <2>7. EdgesSound(o) /\ Extends(n, o)
    BY <1>2, <2>4, <2>5, <2>6, RetireEdges
  <2>8. o \in [Ids -> Row \cup {None}] /\ o[j] = mem[j] /\ o[new] = row
    BY <1>2, <2>1, <2>4, RetireType
  <2>9. Follows(o, j, new)
    BY <2>1, <2>2, <2>3, <2>8 DEF Follows
  <2>10. mem' = [o EXCEPT ![j] = Retire(o[j], new)]
    BY <2>1, <2>2, <2>4, <2>8 DEF n
  <2> HIDE DEF o
  <2> QED BY <2>1, <2>7, <2>8, <2>9, <2>10, RetireEdges
<1> QED BY <1>1, <1>4, <1>5, <1>6

\* Every step of a pass keeps the edges, and with them the scopes.
LEMMA PassEdges ==
    ASSUME TypeOK, Fetched, SupersessionInv, PassStep
    PROVE  EdgesSound(mem') /\ Extends(mem, mem')
<1> USE DEF TypeOK, Fetched, SupersessionInv
<1>1. CASE UNCHANGED mem
  BY <1>1 DEF Extends
<1>2. CASE ConsolidateRow
  <2>1. PICK i \in Ids : MayMaintain(mem, i)
    BY <1>2 DEF ConsolidateRow, Newest, MayMaintain
  <2> QED BY <2>1, MaintainEdges
<1>3. ASSUME NEW i \in todo, mem' = [mem EXCEPT ![i] = Retire(mem[i], None)]
      PROVE  EdgesSound(mem') /\ Extends(mem, mem')
  BY <1>3, RetireEdges DEF Stored
<1>4. CASE MigrateRow
  <2>1. PICK i \in todo :
            \/ mem' = mem
            \/ mem' = [mem EXCEPT ![i] = Migrated(mem[i], "episodic")]
            \/ mem' = [mem EXCEPT ![i] = Migrated(mem[i], "semantic")]
            \/ mem' = [mem EXCEPT ![i] = Retire(mem[i], None)]
    BY <1>4 DEF MigrateRow, Newest
  <2>2. i \in Ids /\ mem[i] # None /\ mem[i] \in Row
    BY DEF Stored
  <2>3. ASSUME NEW lifecycle \in Lifecycles, mem' = [mem EXCEPT ![i] = Migrated(mem[i], lifecycle)]
        PROVE  EdgesSound(mem') /\ Extends(mem, mem')
    <3>1. Migrated(mem[i], lifecycle) \in Row
      BY <2>2, MigratedType
    <3>2. /\ Migrated(mem[i], lifecycle).scope = mem[i].scope
          /\ Migrated(mem[i], lifecycle).supersededBy = mem[i].supersededBy
      BY <2>2 DEF Migrated, Row
    <3> QED BY <2>2, <2>3, <3>1, <3>2, OneRowEdges
  <2> QED BY <1>1, <1>3, <2>1, <2>3 DEF Lifecycles
<1>5. CASE MergeNext
  <2> SUFFICES ASSUME mem' # mem PROVE EdgesSound(mem') /\ Extends(mem, mem')
    BY <1>1
  <2>1. PICK i \in todo, j \in todo :
            /\ i # j
            /\ \/ mem' = [mem EXCEPT ![i] = Retire(mem[i], j)]
               \/ mem' = [mem EXCEPT ![j] = Retire(mem[j], i)]
    BY <1>5 DEF MergeNext, Newest
  <2>2. /\ i \in Ids /\ j \in Ids /\ mem[i] # None /\ mem[j] # None
        /\ request \in Housekeepings
        /\ Matches(request, mem[i].scope) /\ Matches(request, mem[j].scope)
    BY <1>5 DEF MergeNext, MergeInScope, Stored
  <2>3. Follows(mem, i, j) /\ Follows(mem, j, i)
    BY <2>1, <2>2 DEF Follows, OneUserEach, Matches
  <2> QED BY <2>1, <2>2, <2>3, RetireEdges
<1>6. CASE ArchiveNext
  <2>1. PICK i \in todo : mem' = mem \/ mem' = [mem EXCEPT ![i] = Retire(mem[i], None)]
    BY <1>6 DEF ArchiveNext, Newest
  <2> QED BY <1>1, <1>3, <2>1
<1>7. CASE ReinforceNext
  <2>1. PICK i \in todo :
            \/ mem' = mem
            \/ /\ mem[i].importance < MaxImportance
               /\ mem' = [mem EXCEPT ![i] = [mem[i] EXCEPT
                                !.importance = mem[i].importance + 1, !.updated = today]]
    BY <1>7 DEF ReinforceNext, Newest
  <2> DEFINE row == [mem[i] EXCEPT !.importance = mem[i].importance + 1, !.updated = today]
  <2>2. i \in Ids /\ mem[i] \in Row /\ mem[i] # None
    BY DEF Stored
  <2>3. CASE mem[i].importance < MaxImportance /\ mem' = [mem EXCEPT ![i] = row]
    <3>1. mem[i].importance + 1 \in 0..MaxImportance
      BY <2>2, <2>3, NumbersAssumption DEF Row
    <3>2. row \in Row /\ row.scope = mem[i].scope /\ row.supersededBy = mem[i].supersededBy
      BY <2>2, <3>1 DEF Row
    <3> HIDE DEF row
    <3> QED BY <2>2, <2>3, <3>2, OneRowEdges
  <2> QED BY <1>1, <2>1, <2>3
<1>8. CASE LimitNext
  BY <1>3, <1>8 DEF LimitNext
<1> QED BY <1>1, <1>2, <1>4, <1>5, <1>6, <1>7, <1>8
        DEF PassStep, ConsolidateEnd, MigrateEnd, MergeEnd, ArchiveEnd, ReinforceEnd, LimitEnd,
            EndPass

\* Every step keeps the edges.
LEMMA EdgesStep ==
    ASSUME TypeOK, Fetched, SupersessionInv, [Next]_vars PROVE EdgesSound(mem')
<1> USE DEF TypeOK, SupersessionInv
<1>1. ASSUME NEW i \in Ids, NEW in \in Inputs, Store(i, in) \/ StoreInterrupted(i, in)
      PROVE  EdgesSound(mem')
  <2> DEFINE n == Inserted(i, NewRow(in))
  <2>1. NewRow(in) \in Row
    BY InputsAssumption, NumbersAssumption DEF NewRow, Row, Input, Scope
  <2>2. mem[i] = None /\ NewRow(in).supersededBy = None
    BY <1>1, StoreParts DEF NewRow
  <2>3. n = [mem EXCEPT ![i] = NewRow(in)]
    BY DEF Inserted
  <2>4. n \in [Ids -> Row \cup {None}] /\ EdgesSound(n)
    BY <2>1, <2>2, <2>3, OneRowEdges
  <2>5. MayMaintain(n, i)
    BY <1>1, StoreParts
  <2> HIDE DEF n
  <2> QED BY <2>4, <2>5, MaintainEdges
<1>2. ASSUME NEW i \in Ids, GetById(i) \/ Recall(i) PROVE EdgesSound(mem')
  <2>1. mem[i] \in Row /\ mem[i] # None
    BY <1>2 DEF GetById, Recall, Stored
  <2>2. /\ mem' = [mem EXCEPT ![i] = mem'[i]]
        /\ mem'[i].scope = mem[i].scope /\ mem'[i].supersededBy = mem[i].supersededBy
    BY <1>2, <2>1 DEF GetById, Recall, Row
  <2>3. mem'[i] \in Row
    <3>1. AtMost(mem[i].accesses + 1, HotAt) \in 0..HotAt
      BY <2>1, NumbersAssumption DEF AtMost, Row
    <3>2. AtMost(mem[i].retrievals + 1, SemanticAt) \in 0..SemanticAt
      BY <2>1, NumbersAssumption DEF AtMost, Row
    <3>3. CASE GetById(i)
      BY <2>1, <3>1, <3>3 DEF GetById, Row
    <3>4. CASE Recall(i)
      BY <2>1, <3>2, <3>4 DEF Recall, Row
    <3> QED BY <1>2, <3>3, <3>4
  <2> QED BY <2>1, <2>2, <2>3, OneRowEdges
<1>3. ASSUME NEW i \in Ids, NEW lifecycle \in Lifecycles \ {"archive"}, NEW allow \in BOOLEAN,
             Restore(i, lifecycle, allow)
      PROVE  EdgesSound(mem')
  <2>1. mem[i] \in Row /\ mem[i] # None
    BY <1>3 DEF Restore, Stored
  <2>2. mem' = [mem EXCEPT ![i] = [mem[i] EXCEPT !.lifecycle = lifecycle,
                    !.updated = today, !.archived = FALSE, !.supersededBy = None]]
    BY <1>3 DEF Restore
  <2>3. mem'[i] \in Row /\ mem'[i].scope = mem[i].scope /\ mem'[i].supersededBy = None
    BY <2>1, <2>2 DEF Row
  <2>4. mem' = [mem EXCEPT ![i] = mem'[i]]
    BY <2>2
  <2> QED BY <2>1, <2>3, <2>4, OneRowEdges
<1>4. CASE UNCHANGED mem
  BY <1>4
<1>5. CASE Edit
  BY <1>5, EditEdges
<1>6. CASE PassStep
  BY <1>6, PassEdges
<1>7. CASE Crash
  BY <1>4, <1>7, CrashParts, MaintainEdges
<1> QED BY <1>1, <1>2, <1>3, <1>4, <1>5, <1>6, <1>7
        DEF Next, vars, ConsolidateStart, HousekeepingStart, NextDay

\* The merge phase is entered by the start of housekeeping alone.
LEMMA OnlyHousekeepingMerges ==
    ASSUME [Next]_vars, ~MergeNext, ~UNCHANGED vars,
           ~\E filter \in Housekeepings : HousekeepingStart(filter)
    PROVE  pass' # "merge"
<1>1. Edit => pass' = "idle"
  BY EditIdle DEF passVars
<1>2. \A j \in Ids, in \in Inputs : Store(j, in) \/ StoreInterrupted(j, in) => pass' = "idle"
  BY DEF Store, StoreInterrupted, passVars
<1>3. \A j, l, allow : GetById(j) \/ Recall(j) \/ Restore(j, l, allow) => pass' = "idle"
  BY DEF GetById, Recall, Restore, passVars
<1>4. \A filter, m : ConsolidateStart(filter, m) => pass' = "consolidate"
  BY DEF ConsolidateStart
<1>5. NextDay \/ Crash => pass' = "idle"
  BY DEF NextDay, passVars, Crash, EndPass
<1>6. PassStep => pass' # "merge"
  BY DEF PassStep, ConsolidateRow, ConsolidateEnd, MigrateRow, MigrateEnd, MergeEnd,
              ArchiveNext, ArchiveEnd, ReinforceNext, ReinforceEnd, LimitNext, LimitEnd,
              EndPass, passVars
<1> QED BY <1>1, <1>2, <1>3, <1>4, <1>5, <1>6 DEF Next

\* What the merge phase compares stays in the scope it was called with.
LEMMA MergeScopeStep ==
    ASSUME TypeOK, Fetched, SupersessionInv, [Next]_vars PROVE MergeInScope'
<1>1. CASE MergeNext
  <2>1. Extends(mem, mem')
    BY <1>1, PassEdges DEF PassStep
  <2>2. pass = "merge" /\ request' = request /\ todo' \subseteq todo
    BY <1>1 DEF MergeNext, Newest
  <2>3. \A i \in todo : i \in Ids /\ mem[i] # None
    BY DEF TypeOK, Fetched, Stored
  <2> QED BY <2>1, <2>2, <2>3 DEF SupersessionInv, MergeInScope, Extends
<1>2. CASE \E filter \in Housekeepings : HousekeepingStart(filter)
  <2>1. PICK filter \in Housekeepings : HousekeepingStart(filter)
    BY <1>2
  <2>2. todo' \subseteq Found(mem, filter)
    BY <2>1, FetchedFrom DEF HousekeepingStart
  <2> QED BY <2>1, <2>2 DEF HousekeepingStart, MergeInScope, Found
<1>3. CASE UNCHANGED vars
  BY <1>3 DEF vars, SupersessionInv, MergeInScope
<1>4. ASSUME ~MergeNext, ~\E filter \in Housekeepings : HousekeepingStart(filter), ~UNCHANGED vars
      PROVE  pass' # "merge"
  BY <1>4, OnlyHousekeepingMerges
<1> QED BY <1>1, <1>2, <1>3, <1>4 DEF MergeInScope

\* The edges are sound throughout.
LEMMA SupersessionInvariance == Spec => []SupersessionInv
<1>1. Init => SupersessionInv
  BY DEF Init, SupersessionInv, EdgesSound, MergeInScope
<1>2. TypeOK /\ Fetched /\ SupersessionInv /\ [Next]_vars => SupersessionInv'
  BY EdgesStep, MergeScopeStep DEF SupersessionInv
<1>3. Spec => [](TypeOK /\ Fetched)
  BY TypeInvariance
<1> QED BY <1>1, <1>2, <1>3, PTL DEF Spec

\* A superseded row always points at another row of the table, whichever
\* stores, merges, corrections, restores, passes and crashes led there.
THEOREM SupersessionIsSound == Spec => []SupersessionSound
<1>1. SupersessionInv => SupersessionSound
  BY DEF SupersessionInv, EdgesSound, Follows, SupersessionSound, Stored
<1> QED BY SupersessionInvariance, <1>1, PTL

\* Whatever is closed under the succession of i is where its heirs are.
LEMMA HeirsWithin ==
    ASSUME NEW m, NEW i \in Ids, NEW S \in SUBSET Ids, i \in S,
           \A k \in S : (m[k] # None /\ m[k].scope.user # None /\ m[k].supersededBy # None)
                          => m[k].supersededBy \in S
    PROVE  Heirs(m, i) \subseteq S
BY DEF Heirs

\* However long the chain, a user's memory is succeeded by that user's memories
\* and by one of nobody, as long as housekeeping is called for one user at a
\* time; a chain that goes on from a memory of nobody is not spoken of.
THEOREM UsersKeptApart == Spec => []NeverAcrossUsers
<1>1. SupersessionInv => NeverAcrossUsers
  <2> SUFFICES ASSUME SupersessionInv, OneUserEach, NEW i \in Stored, mem[i].scope.user # None
               PROVE  \A h \in Heirs(mem, i) : h \in Stored /\ mem[h].scope.user \in {None, mem[i].scope.user}
    BY DEF NeverAcrossUsers, OneUserEach
  <2> DEFINE S == {k \in Stored : mem[k].scope.user \in {None, mem[i].scope.user}}
  <2>1. i \in Ids /\ i \in S /\ S \in SUBSET Ids
    BY DEF Stored
  <2>2. \A k \in S : (mem[k] # None /\ mem[k].scope.user # None /\ mem[k].supersededBy # None)
                        => mem[k].supersededBy \in S
    BY DEF SupersessionInv, EdgesSound, Follows, Stored
  <2>3. Heirs(mem, i) \subseteq S
    <3> HIDE DEF S
    <3> QED BY <2>1, <2>2, HeirsWithin
  <2> QED BY <2>3
<1> QED BY SupersessionInvariance, <1>1, PTL

-----------------------------------------------------------------------------
(***************************************************************************)
(* What a step does to archived rows and to successors.  Table n may come  *)
(* after table m when no row of m is revived, and a row gets a successor   *)
(* only among the live rows of m and those that are not in m yet.          *)
(***************************************************************************)
KeepsArchived(m, n) == \A i \in Ids : (m[i] # None /\ Live(n, i)) => Live(m, i)

NewEdgesLive(m, n) ==
    \A i \in Ids : (m[i] # None /\ n[i] # None) =>
        \/ n[i].supersededBy \in {None, m[i].supersededBy}
        \/ Live(m, n[i].supersededBy)
        \/ m[n[i].supersededBy] = None

MayCome(m, n) == KeepsArchived(m, n) /\ NewEdgesLive(m, n)

\* What the merge phase of housekeeping has still to compare is live.
MergeLive == pass = "merge" => \A i \in todo : Live(mem, i)

\* Writing one row that was not revived and whose successor is live.
LEMMA OneRowMayCome ==
    ASSUME NEW m \in [Ids -> Row \cup {None}], NEW i \in Ids, NEW row \in Row,
           m[i] # None => (~row.archived => ~m[i].archived),
           m[i] # None => \/ row.supersededBy \in {None, m[i].supersededBy}
                          \/ Live(m, row.supersededBy),
           NEW n, n = [m EXCEPT ![i] = row]
    PROVE  MayCome(m, n)
<1>1. n[i] = row /\ \A j \in Ids \ {i} : n[j] = m[j]
  OBVIOUS
<1> QED BY <1>1 DEF MayCome, KeepsArchived, NewEdgesLive, Live

\* Retiring one row in favour of a live row or of none.
LEMMA RetireMayCome ==
    ASSUME NEW m \in [Ids -> Row \cup {None}], today \in 0..MaxDay,
           NEW i \in Ids, m[i] # None, NEW s \in Ids \cup {None}, s = None \/ Live(m, s),
           NEW n, n = [m EXCEPT ![i] = Retire(m[i], s)]
    PROVE  MayCome(m, n)
<1>1. Retire(m[i], s) \in Row
  BY RetireType
<1>2. Retire(m[i], s).archived /\ Retire(m[i], s).supersededBy = s
  BY DEF Retire, Row
<1> QED BY <1>1, <1>2, OneRowMayCome

\* Maintenance retires a row only in favour of a live one.
LEMMA MaintainMayCome ==
    ASSUME NEW m \in [Ids -> Row \cup {None}], today \in 0..MaxDay, NEW i \in Ids, MayMaintain(m, i)
    PROVE  MayCome(m, mem')
<1>1. CASE ~Live(m, i)
  BY <1>1 DEF MayMaintain, Maintain, MaintainInterrupted, MayCome, KeepsArchived, NewEdgesLive
<1>2. CASE Live(m, i)
  <2>1. PICK beaten \in SUBSET Rivals(m, i), winner \in Rivals(m, i) \cup {None}, stale \in SUBSET Ids :
             /\ \A j \in stale : Live(MergeDuplicates(m, i, beaten, winner), j)
             /\ mem' = Archive(MergeDuplicates(m, i, beaten, winner), stale)
    BY <1>2, MaintainParts
  <2> DEFINE n == MergeDuplicates(m, i, beaten, winner)
  <2>2. \A j \in Rivals(m, i) : j \in Ids /\ Live(m, j)
    BY DEF Rivals, Found
  <2>3. \A j \in Ids : \/ n[j] = m[j]
                       \/ \E s \in Ids : Live(m, s) /\ Live(m, j) /\ n[j] = Retire(m[j], s)
    BY <1>2, <2>2 DEF MergeDuplicates
  <2>4. \A j \in Ids : Live(n, j) => n[j] = m[j]
    BY <2>3, RetireArchives DEF Live
  <2>5. \A j \in Ids : mem'[j] = n[j] \/ (Live(n, j) /\ mem'[j] = Retire(n[j], None))
    BY <2>1 DEF Archive
  <2> HIDE DEF n
  <2>6. \A j \in Ids : \/ mem'[j] = m[j]
                       \/ /\ Live(m, j)
                          /\ \E s \in Ids \cup {None} : (s = None \/ Live(m, s))
                                                        /\ mem'[j] = Retire(m[j], s)
    BY <2>3, <2>4, <2>5 DEF Live
  <2>7. \A j \in Ids, s \in Ids \cup {None} : Live(m, j) =>
            Retire(m[j], s).archived /\ Retire(m[j], s).supersededBy = s
    BY DEF Retire, Row, Live
  <2>8. KeepsArchived(m, mem')
    BY <2>6, <2>7 DEF KeepsArchived, Live
  <2>9. NewEdgesLive(m, mem')
    BY <2>6, <2>7 DEF NewEdgesLive
  <2> QED BY <2>8, <2>9 DEF MayCome
<1> QED BY <1>1, <1>2

\* No edit revives a row, or supersedes one by an archived row.
LEMMA EditMayCome == ASSUME TypeOK, Edit PROVE MayCome(mem, mem')
<1> USE DEF TypeOK
<1>1. PICK i \in Ids, caller \in Callers :
        \/ Delete(i, caller) \/ Pin(i, caller) \/ Unpin(i, caller)
        \/ \E content \in Contents :
            \/ Update(i, content, caller)
            \/ \E new \in Ids : Correct(i, new, content, caller)
            \/ \E j, new \in Ids : UserMerge(i, j, new, content, caller)
  BY DEF Edit
<1>2. mem[i] \in Row /\ mem[i] # None
  BY <1>1 DEF Delete, Pin, Unpin, Update, Correct, UserMerge, MayEdit, Stored
<1>3. mem' \in [Ids -> Row \cup {None}] /\ mem'[i] # None
  BY <1>1, EditType DEF Delete, Pin, Unpin, Update, Correct, UserMerge, MayEdit, Stored
<1>4. CASE \/ Delete(i, caller) \/ Pin(i, caller) \/ Unpin(i, caller)
           \/ \E content \in Contents : Update(i, content, caller)
  <2>1. /\ mem' = [mem EXCEPT ![i] = mem'[i]]
        /\ ~mem'[i].archived => ~mem[i].archived
        /\ mem'[i].supersededBy = mem[i].supersededBy
    <3>1. CASE Delete(i, caller)
      BY <1>2, <3>1 DEF Delete, Retire, Row
    <3>2. CASE Pin(i, caller)
      BY <1>2, <3>2 DEF Pin, Row
    <3>3. CASE Unpin(i, caller)
      BY <1>2, <3>3 DEF Unpin, Row
    <3>4. CASE \E content \in Contents : Update(i, content, caller)
      BY <1>2, <3>4 DEF Update, Row
    <3> QED BY <1>4, <3>1, <3>2, <3>3, <3>4
  <2>2. mem'[i] \in Row
    BY <1>3
  <2> QED BY <1>2, <2>1, <2>2, OneRowMayCome
<1>5. ASSUME NEW content \in Contents, NEW new \in Ids, Correct(i, new, content, caller)
      PROVE  MayCome(mem, mem')
  <2>1. new # i /\ mem[new] = None
    BY <1>2, <1>5 DEF Correct, Stored
  <2>2. mem'[i] = Retire(mem[i], new) /\ \A k \in Ids \ {i, new} : mem'[k] = mem[k]
    BY <1>5, <2>1 DEF Correct
  <2>3. mem'[i].archived /\ mem'[i].supersededBy = new
    BY <1>2, <2>2 DEF Retire, Row
  <2> QED BY <2>1, <2>2, <2>3 DEF MayCome, KeepsArchived, NewEdgesLive, Live
<1>6. ASSUME NEW content \in Contents, NEW j \in Ids, NEW new \in Ids,
             UserMerge(i, j, new, content, caller)
      PROVE  MayCome(mem, mem')
  <2>1. mem[j] \in Row /\ i # j /\ new # i /\ new # j /\ mem[new] = None
    BY <1>6 DEF UserMerge, MayEdit, Stored
  <2>2. /\ mem'[i] = Retire(mem[i], new) /\ mem'[j] = Retire(mem[j], new)
        /\ \A k \in Ids \ {i, j, new} : mem'[k] = mem[k]
    BY <1>6, <2>1 DEF UserMerge
  <2>3. \A row \in Row : Retire(row, new).archived /\ Retire(row, new).supersededBy = new
    BY DEF Retire, Row
  <2>4. \A k \in {i, j} : mem'[k].archived /\ mem'[k].supersededBy = new
    BY <1>2, <2>1, <2>2, <2>3
  <2> QED BY <2>1, <2>2, <2>4 DEF MayCome, KeepsArchived, NewEdgesLive, Live
<1> QED BY <1>1, <1>4, <1>5, <1>6


\* No step of a pass revives a row, or supersedes one by an archived row.
LEMMA PassMayCome ==
    ASSUME TypeOK, Fetched, MergeLive, PassStep PROVE MayCome(mem, mem')
<1> USE DEF TypeOK, Fetched
<1>1. CASE UNCHANGED mem
  BY <1>1 DEF MayCome, KeepsArchived, NewEdgesLive
<1>2. CASE ConsolidateRow
  <2>1. PICK i \in Ids : MayMaintain(mem, i)
    BY <1>2 DEF ConsolidateRow, Newest, MayMaintain
  <2> QED BY <2>1, MaintainMayCome
<1>3. ASSUME NEW i \in todo, mem' = [mem EXCEPT ![i] = Retire(mem[i], None)]
      PROVE  MayCome(mem, mem')
  BY <1>3, RetireMayCome DEF Stored
<1>4. CASE MigrateRow
  <2>1. PICK i \in todo :
            \/ mem' = mem
            \/ mem' = [mem EXCEPT ![i] = Migrated(mem[i], "episodic")]
            \/ mem' = [mem EXCEPT ![i] = Migrated(mem[i], "semantic")]
            \/ mem' = [mem EXCEPT ![i] = Retire(mem[i], None)]
    BY <1>4 DEF MigrateRow, Newest
  <2>2. i \in Ids /\ mem[i] # None /\ mem[i] \in Row
    BY DEF Stored
  <2>3. ASSUME NEW lifecycle \in Lifecycles, mem' = [mem EXCEPT ![i] = Migrated(mem[i], lifecycle)]
        PROVE  MayCome(mem, mem')
    <3>1. Migrated(mem[i], lifecycle) \in Row
      BY <2>2, MigratedType
    <3>2. /\ Migrated(mem[i], lifecycle).archived = mem[i].archived
          /\ Migrated(mem[i], lifecycle).supersededBy = mem[i].supersededBy
      BY <2>2 DEF Migrated, Row
    <3> QED BY <2>2, <2>3, <3>1, <3>2, OneRowMayCome
  <2> QED BY <1>1, <1>3, <2>1, <2>3 DEF Lifecycles
<1>5. CASE MergeNext
  <2> SUFFICES ASSUME mem' # mem PROVE MayCome(mem, mem')
    BY <1>1
  <2>1. PICK i \in todo, j \in todo :
            \/ mem' = [mem EXCEPT ![i] = Retire(mem[i], j)]
            \/ mem' = [mem EXCEPT ![j] = Retire(mem[j], i)]
    BY <1>5 DEF MergeNext, Newest
  <2>2. i \in Ids /\ j \in Ids /\ Live(mem, i) /\ Live(mem, j)
    BY <1>5 DEF MergeNext, MergeLive, Stored
  <2> QED BY <2>1, <2>2, RetireMayCome DEF Live
<1>6. CASE ArchiveNext
  <2>1. PICK i \in todo : mem' = mem \/ mem' = [mem EXCEPT ![i] = Retire(mem[i], None)]
    BY <1>6 DEF ArchiveNext, Newest
  <2> QED BY <1>1, <1>3, <2>1
<1>7. CASE ReinforceNext
  <2>1. PICK i \in todo :
            \/ mem' = mem
            \/ /\ mem[i].importance < MaxImportance
               /\ mem' = [mem EXCEPT ![i] = [mem[i] EXCEPT
                                !.importance = mem[i].importance + 1, !.updated = today]]
    BY <1>7 DEF ReinforceNext, Newest
  <2> DEFINE row == [mem[i] EXCEPT !.importance = mem[i].importance + 1, !.updated = today]
  <2>2. i \in Ids /\ mem[i] \in Row /\ mem[i] # None
    BY DEF Stored
  <2>3. CASE mem[i].importance < MaxImportance /\ mem' = [mem EXCEPT ![i] = row]
    <3>1. mem[i].importance + 1 \in 0..MaxImportance
      BY <2>2, <2>3, NumbersAssumption DEF Row
    <3>2. row \in Row /\ row.archived = mem[i].archived /\ row.supersededBy = mem[i].supersededBy
      BY <2>2, <3>1 DEF Row
    <3> HIDE DEF row
    <3> QED BY <2>2, <2>3, <3>2, OneRowMayCome
  <2> QED BY <1>1, <2>1, <2>3
<1>8. CASE LimitNext
  BY <1>3, <1>8 DEF LimitNext
<1> QED BY <1>1, <1>2, <1>4, <1>5, <1>6, <1>7, <1>8
        DEF PassStep, ConsolidateEnd, MigrateEnd, MergeEnd, ArchiveEnd, ReinforceEnd, LimitEnd,
            EndPass

\* No step gives a row an archived successor, and only a restore revives one.
LEMMA StepMayCome ==
    ASSUME TypeOK, Fetched, MergeLive, [Next]_vars
    PROVE  /\ NewEdgesLive(mem, mem')
           /\ \/ KeepsArchived(mem, mem')
              \/ \E i \in Ids, lifecycle \in Lifecycles \ {"archive"}, allow \in BOOLEAN :
                    Restore(i, lifecycle, allow)
<1> USE DEF TypeOK
<1>1. ASSUME NEW i \in Ids, NEW in \in Inputs, Store(i, in) \/ StoreInterrupted(i, in)
      PROVE  MayCome(mem, mem')
  <2> DEFINE n == Inserted(i, NewRow(in))
  <2>1. NewRow(in) \in Row
    BY InputsAssumption, NumbersAssumption DEF NewRow, Row, Input, Scope
  <2>2. mem[i] = None
    BY <1>1, StoreParts
  <2>3. n = [mem EXCEPT ![i] = NewRow(in)] /\ n \in [Ids -> Row \cup {None}]
    BY <2>1 DEF Inserted
  <2>4. \A j \in Ids : mem[j] # None => n[j] = mem[j]
    BY <2>2, <2>3
  <2>5. MayMaintain(n, i)
    BY <1>1, StoreParts
  <2> HIDE DEF n
  <2>6. MayCome(n, mem')
    BY <2>3, <2>5, MaintainMayCome DEF MayCome, KeepsArchived, NewEdgesLive
  <2>7. KeepsArchived(mem, mem')
    BY <2>4, <2>6 DEF MayCome, KeepsArchived, Live
  <2>8. \A s : (s \in Ids /\ Live(n, s)) => Live(mem, s) \/ mem[s] = None
    BY <2>4 DEF Live
  <2>9. NewEdgesLive(mem, mem')
    <3> SUFFICES ASSUME NEW j \in Ids, mem[j] # None, mem'[j] # None,
                        mem'[j].supersededBy \notin {None, mem[j].supersededBy}
                 PROVE  \/ Live(mem, mem'[j].supersededBy)
                        \/ mem[mem'[j].supersededBy] = None
      BY DEF NewEdgesLive
    <3>1. mem' \in [Ids -> Row \cup {None}]
      BY <2>3, <2>5, MaintainType
    <3>2. mem'[j].supersededBy \in Ids
      BY <3>1 DEF Row
    <3>3. \/ Live(n, mem'[j].supersededBy)
          \/ n[mem'[j].supersededBy] = None
      BY <2>4, <2>6 DEF MayCome, NewEdgesLive
    <3> QED BY <2>4, <2>8, <3>2, <3>3
  <2> QED BY <2>7, <2>9 DEF MayCome
<1>2. ASSUME NEW i \in Ids, GetById(i) \/ Recall(i) PROVE MayCome(mem, mem')
  <2>1. mem[i] \in Row /\ mem[i] # None
    BY <1>2 DEF GetById, Recall, Stored
  <2>2. /\ \A j \in Ids \ {i} : mem'[j] = mem[j]
        /\ mem'[i].archived = mem[i].archived /\ mem'[i].supersededBy = mem[i].supersededBy
    BY <1>2, <2>1 DEF GetById, Recall, Row
  <2> QED BY <2>1, <2>2 DEF MayCome, KeepsArchived, NewEdgesLive, Live
<1>3. ASSUME NEW i \in Ids, NEW lifecycle \in Lifecycles \ {"archive"}, NEW allow \in BOOLEAN,
             Restore(i, lifecycle, allow)
      PROVE  NewEdgesLive(mem, mem')
  <2>1. mem[i] \in Row
    BY <1>3 DEF Restore, Stored
  <2>2. mem' = [mem EXCEPT ![i] = [mem[i] EXCEPT !.lifecycle = lifecycle,
                    !.updated = today, !.archived = FALSE, !.supersededBy = None]]
    BY <1>3 DEF Restore
  <2>3. mem'[i].supersededBy = None /\ \A j \in Ids \ {i} : mem'[j] = mem[j]
    BY <2>1, <2>2 DEF Row
  <2> QED BY <2>3 DEF NewEdgesLive
<1>4. CASE UNCHANGED mem
  BY <1>4 DEF KeepsArchived, NewEdgesLive
<1>5. CASE Edit
  BY <1>5, EditMayCome DEF MayCome
<1>6. CASE PassStep
  BY <1>6, PassMayCome DEF MayCome
<1>7. CASE Crash
  BY <1>4, <1>7, CrashParts, MaintainMayCome DEF MayCome
<1> QED BY <1>1, <1>2, <1>3, <1>4, <1>5, <1>6, <1>7
        DEF Next, vars, MayCome, ConsolidateStart, HousekeepingStart, NextDay

\* The merge phase retires a row only as it takes it off its list.
LEMMA MergeLiveStep == ASSUME TypeOK, Fetched, MergeLive, [Next]_vars PROVE MergeLive'
<1>1. CASE MergeNext
  <2>1. PICK i \in todo :
            \/ todo' = todo \ {i} /\ (mem' = mem \/ \E s : mem' = [mem EXCEPT ![i] = Retire(mem[i], s)])
            \/ \E j \in todo : todo' = todo \ {i, j}
                               /\ \E s : mem' = [mem EXCEPT ![j] = Retire(mem[j], s)]
    BY <1>1 DEF MergeNext, Newest
  <2>2. \A j \in todo' : j \in todo /\ mem'[j] = mem[j]
    BY <2>1 DEF TypeOK
  <2>3. pass = "merge"
    BY <1>1 DEF MergeNext
  <2> QED BY <2>2, <2>3 DEF MergeLive, Live
<1>2. CASE \E filter \in Housekeepings : HousekeepingStart(filter)
  <2>1. PICK filter \in Housekeepings : HousekeepingStart(filter)
    BY <1>2
  <2>2. todo' \subseteq Found(mem, filter)
    BY <2>1, FetchedFrom DEF HousekeepingStart
  <2> QED BY <2>1, <2>2 DEF HousekeepingStart, MergeLive, Found, Live
<1>3. CASE UNCHANGED vars
  BY <1>3 DEF vars, MergeLive, Live
<1>4. ASSUME ~MergeNext, ~\E filter \in Housekeepings : HousekeepingStart(filter), ~UNCHANGED vars
      PROVE  pass' # "merge"
  BY <1>4, OnlyHousekeepingMerges
<1> QED BY <1>1, <1>2, <1>3, <1>4 DEF MergeLive

\* What the merge phase has still to compare is live throughout.
LEMMA MergeLiveInvariance == Spec => [](TypeOK /\ Fetched /\ MergeLive)
<1>1. Init => MergeLive
  BY DEF Init, MergeLive
<1>2. TypeOK /\ Fetched /\ MergeLive /\ [Next]_vars => MergeLive'
  BY MergeLiveStep
<1> QED BY <1>1, <1>2, TypeInvariance, PTL DEF Spec

\* Whatever the step, it supersedes by live rows and revives by a restore.
LEMMA PromisesStep ==
    ASSUME TypeOK, Fetched, MergeLive, [Next]_vars
    PROVE  SupersedesLive /\ RevivesByRestore
<1>1. SupersedesLive
  BY StepMayCome DEF NewEdgesLive, SupersedesLive
<1>2. ASSUME NEW i \in Stored, mem[i].archived, Live(mem', i)
      PROVE  \E lifecycle \in Lifecycles, allow \in BOOLEAN : Restore(i, lifecycle, allow)
  <2>1. i \in Ids /\ mem[i] # None /\ ~KeepsArchived(mem, mem')
    BY <1>2 DEF Stored, KeepsArchived, Live
  <2>2. PICK j \in Ids, lifecycle \in Lifecycles \ {"archive"}, allow \in BOOLEAN :
            Restore(j, lifecycle, allow)
    BY <2>1, StepMayCome
  <2>3. j = i
    BY <1>2, <2>1, <2>2 DEF Restore, Live, TypeOK
  <2> QED BY <2>2, <2>3
<1> QED BY <1>1, <1>2 DEF RevivesByRestore

\* No store, pass or edit supersedes a row by one that was archived before.
THEOREM SuccessorsAreLive == Spec => SupersededByLive
<1>1. TypeOK /\ Fetched /\ MergeLive /\ [Next]_vars => [SupersedesLive]_vars
  BY PromisesStep
<1> QED BY <1>1, MergeLiveInvariance, PTL DEF Spec, SupersededByLive

\* Whatever is archived stays so until it is restored, whichever passes and
\* late recall counters still hold it.
THEOREM RestoreAloneRevives == Spec => OnlyRestoreRevives
<1>1. TypeOK /\ Fetched /\ MergeLive /\ [Next]_vars => [RevivesByRestore]_vars
  BY PromisesStep
<1> QED BY <1>1, MergeLiveInvariance, PTL DEF Spec, OnlyRestoreRevives

-----------------------------------------------------------------------------
(***************************************************************************)
(* What MemoryStore promises, while a scan for conflicts is interleaved    *)
(* with everything that writes the table: it is lost to nothing but the    *)
(* resolution of a conflict whose row was written meanwhile.               *)
(***************************************************************************)
\* A scan keeps ids and rows, whatever becomes of the rows.
ScanInv == TypeOK /\ Fetched /\ MergeLive /\ ScanTypeOK

\* What is read of a stored memory is its row.
LEMMA ReadsRow ==
    ASSUME NEW m, m \in [Ids -> Row \cup {None}], NEW i \in Ids, m[i] # None
    PROVE  Reads(m, i) \in [id : Ids, row : Row]
BY DEF Reads

\* A captured memory is stored, and is what the scan holds.
LEMMA CaptureReads ==
    ASSUME TypeOK, TypeOK', NEW i \in Ids, NEW in \in Inputs, CaptureStore(i, in)
    PROVE  ScanTypeOK'
<1>1. Inserted(i, NewRow(in)) \in [Ids -> Row \cup {None}] /\ Inserted(i, NewRow(in))[i] \in Row
  BY InputsAssumption, NumbersAssumption DEF NewRow, Row, Input, Scope, Inserted, TypeOK
<1>2. MayMaintain(Inserted(i, NewRow(in)), i)
  BY DEF CaptureStore, Store, MayMaintain
<1>3. \/ mem'[i] = Inserted(i, NewRow(in))[i]
      \/ \E by \in Ids \cup {None} : mem'[i] = Retire(Inserted(i, NewRow(in))[i], by)
  BY <1>1, <1>2, MaintainShape
<1>4. today \in 0..MaxDay
  BY DEF TypeOK
<1>5. mem'[i] \in Row
  BY <1>1, <1>3, <1>4, RetireType
<1>6. Reads(mem', i) \in [id : Ids, row : Row]
  BY <1>5 DEF Reads
<1>7. scan' = [left |-> {}, current |-> Reads(mem', i), conflicts |-> {}]
  BY DEF CaptureStore, NoScan
<1> QED BY <1>6, <1>7 DEF ScanTypeOK

\* Each row of a pair that conflicts is one the scan has read.
LEMMA ResolutionsType ==
    ASSUME TypeOK, ScanTypeOK, scan.current # NoCurrent, NEW j \in Candidates
    PROVE  Resolutions(j) \subseteq Conflict
<1>1. j \in Ids /\ mem[j] # None
  BY DEF Candidates, Stored
<1>2. Reads(mem, j) \in [id : Ids, row : Row]
  BY <1>1, ReadsRow DEF TypeOK
<1>3. scan.current \in [id : Ids, row : Row]
  BY DEF ScanTypeOK
<1>4. {scan.current.id, j} \in SUBSET Ids
  BY <1>1, <1>3
<1> QED BY <1>2, <1>3, <1>4 DEF Resolutions, Conflict

\* Between its readings a scan writes no row, and resolving writes one.
LEMMA ScanStepType ==
    ASSUME ScanInv, ScanStep, ~\E i \in Ids, in \in Inputs : CaptureStore(i, in)
    PROVE  ScanInv'
<1> USE DEF ScanInv
<1>0. ASSUME UNCHANGED vars PROVE TypeOK' /\ Fetched' /\ MergeLive'
  <2>1. [Next]_vars
    BY <1>0
  <2> QED BY <2>1, TypeStep, MergeLiveStep
<1>1. ASSUME NEW filter \in Housekeepings, ScanStart(filter) PROVE ScanInv'
  <2>1. scan' = [left |-> Found(mem, filter), current |-> NoCurrent, conflicts |-> {}]
    BY <1>1 DEF ScanStart, NoScan
  <2>2. ScanTypeOK'
    BY <2>1 DEF ScanTypeOK, Found
  <2> QED BY <1>0, <1>1, <2>2 DEF ScanStart
<1>2. ASSUME NEW i \in Ids, DetectStart(i) PROVE ScanInv'
  <2>1. mem[i] # None
    BY <1>2 DEF DetectStart, Stored
  <2>2. Reads(mem, i) \in [id : Ids, row : Row]
    BY <2>1, ReadsRow DEF TypeOK
  <2>3. scan' = [scan EXCEPT !.left = scan.left \ {i}, !.current = Reads(mem, i)]
    BY <1>2 DEF DetectStart
  <2>4. ScanTypeOK'
    BY <2>2, <2>3 DEF ScanTypeOK
  <2> QED BY <1>0, <1>2, <2>4 DEF DetectStart
<1>3. CASE DetectNothing
  <2>1. ScanTypeOK'
    BY <1>3 DEF DetectNothing, ScanTypeOK
  <2> QED BY <1>0, <1>3, <2>1 DEF DetectNothing
<1>4. CASE DetectEnd
  <2>1. PICK found \in SUBSET UNION {Resolutions(j) : j \in Candidates} :
            scan' = [scan EXCEPT !.current = NoCurrent, !.conflicts = scan.conflicts \cup found]
    BY <1>4 DEF DetectEnd
  <2>2. found \subseteq Conflict
    BY <1>4, ResolutionsType DEF DetectEnd
  <2>3. ScanTypeOK'
    BY <2>1, <2>2 DEF ScanTypeOK
  <2> QED BY <1>0, <1>4, <2>3 DEF DetectEnd
<1>5. ASSUME NEW c \in scan.conflicts, Resolve(c) PROVE ScanInv'
  <2>1. c.id \in Ids /\ c.row \in Row
    BY DEF ScanTypeOK, Conflict
  <2>2. mem' = [mem EXCEPT ![c.id] = c.row] /\ pass = "idle" /\ UNCHANGED <<today, passVars>>
    BY <1>5 DEF Resolve, AllRead
  <2>3. mem' \in [Ids -> Row \cup {None}] /\ Stored \subseteq Stored'
    BY <2>1, <2>2, OneRow
  <2>4. TypeOK' /\ Fetched' /\ MergeLive'
    BY <2>2, <2>3 DEF TypeOK, Fetched, MergeLive, passVars
  <2>5. ScanTypeOK'
    BY <1>5 DEF Resolve, ScanTypeOK
  <2> QED BY <2>4, <2>5
<1> QED BY <1>1, <1>2, <1>3, <1>4, <1>5 DEF ScanStep

\* A capture, or any step beside the scan, is a step of MemoryStore.
LEMMA ScanInvariance == ScanSpec => []ScanInv
<1>1. ScanInit => ScanInv
  BY NumbersAssumption
     DEF ScanInit, ScanInv, Init, TypeOK, Passes, Modes, NoScope, Filter, Fetched, MergeLive,
         ScanTypeOK, NoScan
<1>2. ASSUME ScanInv, [ScanNext]_scanVars PROVE ScanInv'
  <2>1. ASSUME [Next]_vars PROVE TypeOK' /\ Fetched' /\ MergeLive'
    BY <1>2, <2>1, TypeStep, MergeLiveStep DEF ScanInv
  <2>2. ASSUME NEW i \in Ids, NEW in \in Inputs, CaptureStore(i, in) PROVE ScanInv'
    <3>1. TypeOK' /\ Fetched' /\ MergeLive'
      BY <2>1, <2>2 DEF CaptureStore, Next
    <3> QED BY <1>2, <2>2, <3>1, CaptureReads DEF ScanInv
  <2>3. CASE UNCHANGED scan /\ [Next]_vars
    BY <1>2, <2>1, <2>3 DEF ScanInv, ScanTypeOK
  <2> QED BY <1>2, <2>2, <2>3, ScanStepType DEF ScanNext, scanVars, vars
<1> QED BY <1>1, <1>2, PTL DEF ScanSpec

\* Whatever happens while a scan waits, the only step that revives a row
\* without a restore, or supersedes a row by an archived one, is the
\* resolution of a conflict whose row is no longer what the scan has read.
THEOREM ResolutionAloneUndoes == ScanSpec => OnlyStaleResolutionUndoes
<1> DEFINE A == StaleResolution \/ (SupersedesLive /\ RevivesByRestore)
<1>1. ASSUME ScanInv, [ScanNext]_scanVars PROVE A
  <2>1. ASSUME [Next]_vars PROVE A
    BY <1>1, <2>1, PromisesStep DEF ScanInv
  <2>2. ASSUME NEW c \in scan.conflicts, Resolve(c) PROVE A
    <3>1. CASE mem[c.id] # c.row
      BY <2>2, <3>1 DEF StaleResolution
    <3>2. CASE mem[c.id] = c.row
      <4>1. mem' = mem
        BY <1>1, <2>2, <3>2 DEF Resolve, ScanInv, TypeOK
      <4>2. [Next]_vars
        BY <2>2, <4>1 DEF Resolve, vars, passVars
      <4> QED BY <2>1, <4>2
    <3> QED BY <3>1, <3>2
  <2>3. ASSUME NEW i \in Ids, NEW in \in Inputs, CaptureStore(i, in) PROVE A
    BY <2>1, <2>3 DEF CaptureStore, Next
  <2>4. CASE UNCHANGED vars
    BY <2>1, <2>4
  <2> QED
    BY <1>1, <2>1, <2>2, <2>3, <2>4
       DEF ScanNext, ScanStep, scanVars, vars, ScanStart, DetectStart, DetectNothing, DetectEnd
<1>2. ScanInv /\ [ScanNext]_scanVars => [A]_scanVars
  BY <1>1
<1> HIDE DEF A
<1>3. ScanSpec => [][A]_scanVars
  BY <1>2, ScanInvariance, PTL DEF ScanSpec
<1> QED BY <1>3 DEF A, OnlyStaleResolutionUndoes
=============================================================================
