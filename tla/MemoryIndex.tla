---------------------------- MODULE MemoryIndex ----------------------------
(***************************************************************************)
(* What is kept beside the memories: an embedding of each                  *)
(* (src/core/memory/service.ts, src/tools/edit.ts), the relations          *)
(* between them, and recall over both (src/retrieval).  A memory here      *)
(* is its text, its owner, whether it is live, and its vector; the rules   *)
(* by which memories supersede one another are those of MemoryStore.       *)
(*                                                                         *)
(* Every handler awaits the embedding of a text: what it does afterwards   *)
(* is Resume, with what it had read before.                                *)
(***************************************************************************)
EXTENDS EmbeddingManager, RelationGraph

CONSTANTS
    Users,
    Near(_, _),     \* texts whose vectors are close enough to be candidates
    Class(_, _),    \* classifyRelation of a text and a candidate's, or "none"
    Overlaps(_, _), \* texts that share enough keywords to be compressed together
    AddedTypes,     \* bound: relation types that users add
    MinCluster,     \* minClusterSize
    RecallLimit     \* the limit of a recall

ASSUME IndexAssumption ==
    /\ "none" \notin Users
    /\ \A x, y \in Texts : Class(x, y) \in RelationTypes \cup {"none"}
    /\ AddedTypes \subseteq RelationTypes
    /\ MinCluster \in Nat /\ RecallLimit \in Nat

VARIABLES
    row,            \* row[m]: memory m, or NoRow
    task,           \* task[c]: what the call c of embed is made for
    recalled        \* the last recall: for whom, and what it returned

indexVars == <<row, task, recalled, relations>>
allVars == <<managerVars, indexVars>>

NoVector == [of |-> "null", kind |-> "none"]
NoRow == [text |-> "none", user |-> "none", live |-> FALSE, succ |-> "none", vec |-> NoVector]
Idle == [for |-> "none", id |-> "none", user |-> "none", had |-> {}]
Nothing == [user |-> "none", ids |-> {}]

RowType == [text : Texts, user : Users, live : BOOLEAN, succ : Ids \cup {"none"},
            vec : Vector \cup {NoVector}] \cup {NoRow}
Task == [for : {"none", "warmup", "index", "detect", "recall"}, id : Ids \cup {"none"},
         user : Users \cup {"none"}, had : SUBSET Ids]

TypeOK ==
    /\ ManagerTypeOK /\ GraphTypeOK
    /\ row \in [Ids -> RowType]
    /\ task \in [Calls -> Task]
    /\ recalled \in [user : Users \cup {"none"}, ids : SUBSET Ids]

IndexInit ==
    /\ row = [m \in Ids |-> NoRow]
    /\ task = [c \in Calls |-> Idle]
    /\ recalled = Nothing
    /\ relations = {}

-----------------------------------------------------------------------------
Stored == {m \in Ids : row[m] # NoRow}
Live == {m \in Ids : row[m].live}
\* Mutant of OwnedBy: rows of everyone.
OwnedByAnyone(user) == Live

OwnedBy(user) == {m \in Live : row[m].user = user}

Fresh(m) == m \notin Stored
NewRow(text, user) == [text |-> text, user |-> user, live |-> TRUE, succ |-> "none", vec |-> NoVector]

\* Rows gone as their successor is stored.
Retired(rows, gone, by) ==
    [m \in Ids |-> IF m \in gone THEN [rows[m] EXCEPT !.live = FALSE, !.succ = by] ELSE rows[m]]

IdleCalls == {c \in Calls : task[c] = Idle}

\* The calls of embed that a handler makes, each for a purpose: only a ready
\* manager is asked.  A warm-up asks in any case.
NthIdle(i) == CHOOSE c \in IdleCalls : Cardinality({d \in IdleCalls : d < c}) = i - 1

Asks(reasons) ==
    /\ Len(reasons) <= Cardinality(IdleCalls)
    /\ Enqueue([i \in DOMAIN reasons |-> [call |-> NthIdle(i), text |-> reasons[i].text]])
    /\ task' = [c \in Calls |-> IF \E i \in DOMAIN reasons : NthIdle(i) = c
                                THEN reasons[CHOOSE i \in DOMAIN reasons : NthIdle(i) = c].task
                                ELSE task[c]]

Reason(for, m, text) == [text |-> text, task |-> [Idle EXCEPT !.for = for, !.id = m]]

AsksIfReady(reasons) ==
    IF IsReady /\ reasons # <<>> THEN Asks(reasons) ELSE UNCHANGED <<managerVars, task>>

Quiet == recalled' = Nothing

-----------------------------------------------------------------------------
\* warmup, at the start of the process.
WarmUp(text) ==
    /\ Asks(<<Reason("warmup", "none", text)>>)
    /\ Quiet /\ UNCHANGED <<row, relations>>

\* MemoryService.store: the row is inserted, its embedding asked for, memories
\* of the same user give way to it, and its relations are looked for.
Store(m, text, user) ==
    /\ Fresh(m)
    /\ \E gone \in SUBSET {g \in OwnedBy(user) : Overlaps(row[g].text, text)} :
         row' = [Retired(row, gone, m) EXCEPT ![m] = NewRow(text, user)]
    /\ AsksIfReady(<<Reason("index", m, text), Reason("detect", m, text)>>)
    /\ Quiet /\ UNCHANGED relations

\* evermemoryEdit update: the row keeps the vector of its old text meanwhile.
Update(m, text) ==
    /\ m \in Live
    /\ row' = [row EXCEPT ![m].text = text]
    /\ AsksIfReady(<<Reason("index", m, text)>>)
    /\ Quiet /\ UNCHANGED relations

\* correct and merge: rows of one user are replaced by a new one.
Replace(gone, m, text) ==
    /\ Fresh(m) /\ gone \subseteq Live /\ Cardinality(gone) \in 1..2
    /\ \E user \in Users :
         /\ gone \subseteq OwnedBy(user)
         /\ row' = [Retired(row, gone, m) EXCEPT ![m] = NewRow(text, user)]
    /\ AsksIfReady(<<Reason("index", m, text)>>)
    /\ Quiet /\ UNCHANGED relations

\* delete.
Delete(m) ==
    /\ m \in Live
    /\ row' = [row EXCEPT ![m].live = FALSE]
    /\ Quiet /\ UNCHANGED <<managerVars, task, relations>>

\* The end of a session looks again for the relations of its recent memories.
DetectAgain(m) ==
    /\ m \in Live /\ IsReady /\ CountByMemory(relations, m) < MaxRelations
    /\ Asks(<<Reason("detect", m, row[m].text)>>)
    /\ Quiet /\ UNCHANGED <<row, relations>>

\* Rows whose vectors are near this one, of whatever user.
SearchByCosine(vec) ==
    {m \in Stored : row[m].vec.kind = vec.kind /\ Near(row[m].vec.of, vec.of)}

\* detectRelationsCore after its await: live candidates, most similar first, are
\* classified by the text that m had and the text they have.
Detect(m, vec) ==
    LET type == [x \in Ids |-> IF x \in Live THEN Class(vec.of, row[x].text) ELSE "none"]
        candidates == {x \in SearchByCosine(vec) \ {m} : type[x] # "none"}
    IN \E order \in [1..Cardinality(candidates) -> candidates] :
         /\ {order[i] : i \in DOMAIN order} = candidates
         /\ relations' \in Inferred(Detected(relations, m, order, type), m)

\* Of the candidates the policies may demote or drop any, and the scores rank
\* the rest.
Ranked(candidates) == SUBSET candidates

\* The rest of a recall: what was ranked, what its relations add, cut to the
\* limit.
Returns(user, ranked) ==
    \E scanned \in Scanned(ranked) :
    \E added \in IF ranked = {} THEN {{}} ELSE Injections(relations, ranked, scanned) :
    \E ids \in SUBSET (ranked \cup (added \cap Stored)) :
        /\ Cardinality(ids) = Min({RecallLimit, Cardinality(ranked \cup (added \cap Stored))})
        /\ recalled' = [user |-> user, ids |-> ids]

\* storeEmbedding: in its row, over whatever vector it had; never of no rows.
Embedded(m, vec) == IF m \in Stored THEN [row EXCEPT ![m].vec = vec] ELSE row

\* A handler goes on with the answer to its call.
Resume(c) ==
    /\ call[c].answer \notin {Waiting, Unasked}
    /\ call' = [call EXCEPT ![c] = [text |-> "none", answer |-> Unasked]]
    /\ task' = [task EXCEPT ![c] = Idle]
    /\ LET t == task[c]
           vec == call[c].answer
       IN /\ row' = IF t.for = "index" /\ vec # Null THEN Embedded(t.id, vec) ELSE row
          /\ IF t.for = "detect" /\ vec # Null THEN Detect(t.id, vec) ELSE UNCHANGED relations
          /\ IF t.for = "recall" THEN \E ranked \in Ranked(t.had) : Returns(t.user, ranked) ELSE Quiet
    /\ UNCHANGED <<config, disturbed, provider, initialized, initializing, objects,
                   queueTexts, queueResolvers, timer, batches>>

\* A recall by keywords ranks the live rows of its user at once.
RecallByKeyword(user) ==
    /\ \E ranked \in Ranked(OwnedBy(user)) : Returns(user, ranked)
    /\ UNCHANGED <<managerVars, task, row, relations>>

\* One by vectors loads them, and awaits the vector of the query.
RecallByVector(user, query) ==
    /\ IsReady
    /\ Asks(<<[text |-> query, task |-> [Idle EXCEPT !.for = "recall", !.user = user,
                                                     !.had = OwnedBy(user)]]>>)
    /\ Quiet /\ UNCHANGED <<row, relations>>

-----------------------------------------------------------------------------
\* The relations tool.
AddRelation(source, target, type) ==
    /\ {source, target} \subseteq Stored
    /\ relations' = Upserted(relations, source, target, type, "user_explicit")
    /\ Quiet /\ UNCHANGED <<managerVars, task, row>>

RemoveRelation(r) ==
    /\ r.active
    /\ relations' = Deactivated(relations, r)
    /\ Quiet /\ UNCHANGED <<managerVars, task, row>>

\* Mutant of TakenOver: relations that end in m are not moved.
TakenOverFrom(r, m, s) == [r EXCEPT !.source = IF r.source = m THEN s ELSE r.source]

\* A relation of the original m, as its summary s takes it over.
TakenOver(r, m, s) ==
    [r EXCEPT !.source = IF r.source = m THEN s ELSE r.source,
              !.target = IF r.target = m THEN s ELSE r.target]

\* The relations of m, one at a time; those between m and s would be loops.
TakeOver(rels, m, s) ==
    LET moved == {TakenOver(r, m, s) : r \in FindByMemory(rels, m)}
        kept == {r \in moved : r.source # r.target}
    IN {r \in rels : \A k \in kept : ~SameKey(r, k.source, k.target, k.type)} \cup
       {[k EXCEPT !.by = "consolidation"] : k \in kept}

\* Live rows of any user that share enough words with a seed.
Cluster(seed) == {m \in Live : m = seed \/ Overlaps(row[seed].text, row[m].text)}

\* A summary takes its text and its scope from one of the rows it replaces.
Summary(base) == NewRow(row[base].text, row[base].user)

\* compress as ProgressiveConsolidationService calls it: one cluster becomes one
\* summary.
Compress(s, seed) ==
    LET cluster == Cluster(seed)
    IN /\ Fresh(s) /\ seed \in Live /\ Cardinality(cluster) >= MinCluster
       /\ \E base \in cluster : row' = [Retired(row, cluster, s) EXCEPT ![s] = Summary(base)]
       /\ relations' = FoldSet(LAMBDA m, rels : TakeOver(rels, m, s), relations, cluster)
       /\ Quiet /\ UNCHANGED <<managerVars, task>>

ManagerWorks == ManagerStep /\ Quiet /\ UNCHANGED <<row, task, relations>>

IndexNext ==
    \/ \E text \in Texts : WarmUp(text)
    \/ \E m \in Ids, text \in Texts :
         \/ \E user \in Users : Store(m, text, user)
         \/ Update(m, text)
         \/ \E gone \in SUBSET Ids : Replace(gone, m, text)
    \/ \E m \in Ids : Delete(m) \/ DetectAgain(m)
    \/ \E user \in Users : RecallByKeyword(user) \/ \E query \in Texts : RecallByVector(user, query)
    \/ \E c \in Calls : Resume(c)
    \/ \E source, target \in Ids, type \in AddedTypes : AddRelation(source, target, type)
    \/ \E r \in relations : RemoveRelation(r)
    \/ \E s, seed \in Ids : Compress(s, seed)
    \/ ManagerWorks

\* The process from its start, with no memories.
IndexSpec == ManagerInit /\ IndexInit /\ [][IndexNext]_allVars

-----------------------------------------------------------------------------
\* Relations are detected between memories of any two users, and a recall injects
\* what they lead to without looking at its owner or whether it was deleted.  No
\* other row reaches a recall that is not its user's: one that does is at most
\* two relations away from a memory of the user.
OnlyGraphCrossesScopes ==
    \A m \in recalled.ids : row[m].user # recalled.user =>
        \E own \in Ids : /\ row[own].user = recalled.user
                         /\ \E c \in FindConnected(relations, own, RelationTypes, ScanDepth, GraphLimit) : c.id = m

\* Automatic relations do not crowd out a memory: those detected or inferred from
\* it never exceed the limit, however often detection runs and whatever relations
\* of others are added, removed or moved to a summary in between.
AutomaticRelationsBounded ==
    \A m \in Ids :
        Cardinality({r \in relations : /\ r.active /\ r.source = m
                                       /\ r.by \in {"auto_detection", "inference"}}) <= MaxRelations

\* A compression loses no relation: whatever one of the originals was related to
\* outside the cluster, its summary is afterwards, by the same type and in the
\* same direction.
CompressionKeepsRelations ==
    [][LET gone == {m \in Ids : row[m].live /\ ~row'[m].live}
       IN relations' # relations =>
            \A r \in relations : r.active =>
              /\ r.source \in gone /\ r.target \notin gone =>
                   \E k \in relations' : /\ k.active /\ k.source = row'[r.source].succ
                                         /\ k.target = r.target /\ k.type = r.type
              /\ r.target \in gone /\ r.source \notin gone =>
                   \E k \in relations' : /\ k.active /\ k.target = row'[r.target].succ
                                         /\ k.source = r.source /\ k.type = r.type
      ]_<<row, relations>>
=============================================================================
