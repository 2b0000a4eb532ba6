--------------------------- MODULE MCMemoryIndex ---------------------------
(***************************************************************************)
(* Instances of MemoryIndex and RecallSelection for TLC.  A behaviour has  *)
(* one of four focuses: "embedding", a memory of one user with a manager   *)
(* that is reconfigured, disposed of and whose providers fail, and at most *)
(* two of the three calls at once; "batches", three calls, which the queue *)
(* cannot hold, and a provider that stays ready; "graph", up to four       *)
(* memories of two users; or "recall", one recall of every kind over six   *)
(* memories.                                                               *)
(***************************************************************************)
EXTENDS MemoryIndex, RecallSelection

VARIABLE focus

\* Two texts: a text and itself are versions of one statement, two different
\* texts support each other.
MCNear(x, y) == TRUE
MCClass(x, y) == IF x = y THEN "evolves_from" ELSE "supports"
MCOverlaps(x, y) == x = y
MCPrecedes(m, n) ==
    \E i, j \in 1..4 : i < j /\ <<m, n>> = <<<<"m1", "m2", "m3", "m4">>[i], <<"m1", "m2", "m3", "m4">>[j]>>

MostRelations == 2
FewIds == {"m1"}

\* Two memories of u and one of v, indexed, with no relations yet.
Indexed(text, user) ==
    [NewRow(text, user) EXCEPT !.vec = [of |-> text, kind |-> "openai", after |-> FALSE]]
ThreeRows ==
    \E text \in Texts :
        row = [m \in Ids |-> CASE m = "m1" -> Indexed("a", "u") [] m = "m2" -> Indexed("b", "u")
                               [] m = "m3" -> Indexed(text, "v") [] OTHER -> NoRow]
InOrder(m) == \A n \in Stored : m # n => MCPrecedes(n, m)

\* Set up, and not disturbed from now on.
ReadyManager ==
    /\ config = "openai" /\ disturbed = MaxDisturbed
    /\ provider = 1 /\ initialized = TRUE /\ initializing = 0
    /\ objects = <<[kind |-> "openai", stage |-> "live"]>>
    /\ queueTexts = <<>> /\ queueResolvers = <<>> /\ timer = FALSE /\ batches = {}
    /\ call = [c \in Calls |-> [text |-> "none", answer |-> Unasked]]

\* Two versions of one decision, a fact, noise, a test sample and a memory whose
\* contradiction is pending.
Memory(type, class, key, words) ==
    [type |-> type, class |-> class, key |-> key, words |-> words, valued |-> type # "fact",
     lifecycle |-> IF type \in {"decision", "fact"} THEN "semantic" ELSE "episodic"]

MCTraits ==
    <<Memory("summary", "primary", "x", {"p"}), Memory("decision", "primary", "x", {"p", "q"}),
      Memory("fact", "primary", "y", {"q"}), Memory("fact", "low", "z", {"p", "q"}),
      Memory("decision", "test", "t", {"p"}), Memory("commitment", "pending", "c", {"p", "q"})>>

\* A model that makes more of a question, one that asks for nothing, and one
\* that says what the engine does not know.
Enrichments ==
    {Unused, Failed, Answered([need |-> "deep", types |-> {}]), Answered([need |-> "none"]),
     Answered([type |-> "status_update", need |-> "some"])}

Intents ==
    UNION {Analyzed(signs, Unused, TRUE) : signs \in
              {{}, {"cue"}, {"correction", "planning"}, {"preference"}, {"planning", "cue"},
               {"planning", "question"}, {"status_update"}, {"instruction"}}}
    \cup UNION {Analyzed({"question"}, enrichment, fallback) :
                  enrichment \in Enrichments, fallback \in BOOLEAN}

MCInit ==
    /\ SelectionInit
    /\ task = [c \in Calls |-> Idle] /\ recalled = Nothing /\ relations = {}
    /\ \/ focus = "embedding" /\ ManagerInit /\ row = [m \in Ids |-> NoRow]
       \/ focus = "batches" /\ ReadyManager /\ row = [m \in Ids |-> NoRow]
       \/ focus = "graph" /\ ReadyManager /\ ThreeRows
       \/ focus = "recall" /\ ReadyManager /\ row = [m \in Ids |-> NoRow]

EmbeddingNext ==
    \/ WarmUp("a")
    \/ \E m \in FewIds, text \in Texts : InOrder(m) /\ Store(m, text, "u")
    \/ \E m \in FewIds, text \in Texts : Update(m, text)
    \/ \E c \in Calls : Resume(c)
    \/ RecallByKeyword("u") \/ RecallByVector("u", "b")
    \/ ManagerWorks

\* A memory is stored, which asks twice, changed, and recalled by another text.
BatchesNext ==
    \/ Store("m1", "a", "u")
    \/ Update("m1", "b")
    \/ \E c \in Calls : Resume(c)
    \/ RecallByVector("u", "b")
    \/ ManagerWorks

\* One handler at a time, few relations, one added by a user and one removed.
GraphNext ==
    \/ /\ IdleCalls = Calls
       /\ \/ \E m \in Ids, user \in Users : InOrder(m) /\ Store(m, "a", user)
          \/ \E m \in Ids, gone \in {{"m1"}, {"m1", "m2"}} : InOrder(m) /\ Replace(gone, m, "b")
          \/ Delete("m1")
          \/ \E m \in Ids : Cardinality(relations) < MostRelations /\ DetectAgain(m)
          \/ \E user \in Users : RecallByKeyword(user)
          \/ \E source \in {"m1", "m2"}, type \in AddedTypes :
               /\ \A r \in relations : r.by # "user_explicit"
               /\ AddRelation(source, "m3", type)
          \/ \E r \in relations : /\ \A k \in relations : k.active
                                   /\ r.by # "user_explicit" /\ RemoveRelation(r)
          \/ \E s, seed \in Ids : InOrder(s) /\ Compress(s, seed)
    \/ \E c \in Calls : Resume(c)
    \/ ManagerWorks

\* A recall leaves nothing that the next one depends on.
RecallNext ==
    /\ selection = NoSelection
    /\ \E query \in {<<>>, <<"p">>, <<"q", "p">>}, scoped, oriented \in BOOLEAN,
         scores \in {<<>>, [next_step |-> 1, last_decision |-> 1], [current_stage |-> 1]} :
         \/ \E mode \in {"structured", "keyword", "hybrid"}, semantic \in BOOLEAN, asked \in 1..3 :
              /\ semantic \/ mode = "hybrid"
              /\ Recall(mode, semantic, query, asked, scores, scoped, oriented)
         \/ \E intent \in Intents, long \in BOOLEAN :
              RecallForIntent(TRUE, intent, query, long, 3, scores, scoped, oriented)

MCNext ==
    /\ \/ focus = "embedding" /\ EmbeddingNext /\ IdleCalls' # {} /\ UNCHANGED selection
       \/ focus = "batches" /\ BatchesNext /\ UNCHANGED selection
       \/ focus = "graph" /\ GraphNext /\ UNCHANGED selection
       \/ focus = "recall" /\ RecallNext /\ UNCHANGED allVars
    /\ UNCHANGED focus

mcVars == <<allVars, selection, focus>>
Alone == Quiet /\ UNCHANGED <<row, task, relations, selection, focus>>
MCSpec == /\ MCInit /\ [][MCNext]_mcVars
          /\ WF_mcVars(Flush /\ Alone) /\ \A c \in Calls : WF_mcVars(MovesOn(c) /\ Alone)
=============================================================================
