-------------------------- MODULE RecallSelection --------------------------
(***************************************************************************)
(* How a recall chooses among the live memories of a scope                 *)
(* (src/retrieval): a question is routed, its candidates are loaded        *)
(* and thinned out, ranked by one of three strategies, joined by what      *)
(* their relations lead to, and the foremost of them are taken.            *)
(*                                                                         *)
(* A memory is known by its traits: the words in it, what it is after its  *)
(* leading label is taken off (key: one of its own where nothing is left), *)
(* its type and lifecycle, whether its project priority is high (valued),  *)
(* and what it is taken for (class): "primary", "low" (noise), "test", or  *)
(* "pending" (a contradiction).  Scores are left out: a ranking may be in  *)
(* any order.  The pool is smaller than every limit on candidates.         *)
(***************************************************************************)
EXTENDS IntentAnalysis, Naturals, FiniteSets

CONSTANTS
    Pool,           \* the live memories of the scope
    Traits,         \* what is known of each
    Related,        \* those that relations of others lead to
    RouteWord,      \* what the query of a routed question is extended by
    MostRecalled,   \* maxRecall
    MostJoined      \* MAX_GRAPH_INJECTIONS

ASSUME SelectionAssumption ==
    /\ IsFiniteSet(Pool) /\ Related \subseteq Pool
    /\ {MostRecalled, MostJoined} \subseteq Nat \ {0}

VARIABLE
    selection       \* what the last recall ranked, was joined by, and returned

-----------------------------------------------------------------------------
\* A query is routed to a kind of question about a project.
RouteKinds == {"project_progress", "current_stage", "next_step", "last_decision"}
RoutePriority == [last_decision |-> 4, next_step |-> 3, current_stage |-> 2, project_progress |-> 1]

\* detectProjectRoute: of the kinds whose patterns match, each so often, the
\* most frequent, and then the foremost; none without a sign of a project.
Route(scores, scoped, oriented) ==
    IF DOMAIN scores = {} \/ ~(scoped \/ oriented) THEN "none"
    ELSE CHOOSE k \in DOMAIN scores : \A o \in DOMAIN scores :
           \/ scores[o] < scores[k]
           \/ scores[o] = scores[k] /\ RoutePriority[o] <= RoutePriority[k]

RouteLimit(route) == IF route \in {"project_progress", "current_stage"} THEN 4 ELSE 3

\* The types of which one memory each is taken first.
AnchorTypes(route) ==
    CASE route = "none" -> <<>>
      [] route = "next_step" -> <<"commitment", "decision", "summary">>
      [] route = "last_decision" -> <<"decision", "summary", "project">>
      [] OTHER -> <<"summary", "project", "decision">>

\* The types that a recall for a message is confined to; none is all.
RouteTypes(route) ==
    CASE route = "none" -> {}
      [] route = "last_decision" -> {"decision", "summary", "project", "constraint", "commitment"}
      [] OTHER -> {"summary", "project", "decision", "commitment", "constraint", "task"}

\* resolveIntentLifecycles.
Lifecycles(need, project) ==
    IF project \/ need = "deep" THEN {"semantic", "episodic"}
    ELSE IF need = "targeted" THEN {"semantic"} ELSE {"working", "semantic", "episodic"}

Filtered(types, lifecycles) ==
    {m \in Pool : /\ types = {} \/ Traits[m].type \in types
                  /\ Traits[m].lifecycle \in lifecycles}

\* prepareIntentRecall: the limit that the need for memory leaves of the one asked for.
LeastOf(x, y) == IF x <= y THEN x ELSE y
MostOf(x, y) == IF x >= y THEN x ELSE y

NeededLimit(need, asked) ==
    CASE need = "light" -> LeastOf(asked, 4)
      [] need = "targeted" -> MostOf(4, LeastOf(asked, 8))
      [] need = "deep" -> MostOf(8, LeastOf(asked, 12))

IntentLimit(need, asked, route) ==
    LET needed == NeededLimit(need, asked)
        routed == IF route = "none" THEN needed ELSE LeastOf(needed, RouteLimit(route))
    IN LeastOf(routed, MostRecalled)

\* pickIntentQuery: a deep question is asked by one term of it, a long text by
\* none, another as it is.
IntentQueries(need, query, long) ==
    IF need = "deep" /\ query # <<>> THEN {<<query[i]>> : i \in DOMAIN query}
    ELSE IF long THEN {<<>>} ELSE {query}

\* resolveMode and canUseEmbedding: what is done for want of embeddings.
Strategy(mode, semantic) == IF mode = "hybrid" /\ ~semantic THEN "keyword" ELSE mode

-----------------------------------------------------------------------------
Has(m, word) == word \in Traits[m].words
OfClass(ms, class) == {m \in ms : Traits[m].class = class}

\* loadCandidates: those with the first word of the query, or else, about a
\* project, all; only keywords narrow the search.
Loaded(pool, strategy, query, project) ==
    IF strategy # "keyword" \/ query = <<>> THEN pool
    ELSE LET found == {m \in pool : Has(m, query[1])}
         IN IF found = {} /\ project THEN pool ELSE found

\* searchFts: those with all the words of a query of more than one.
FullText(pool, query) ==
    IF Len(query) < 2 THEN {} ELSE {m \in pool : \A i \in DOMAIN query : Has(m, query[i])}

Candidates(pool, strategy, query, project) ==
    Loaded(pool, strategy, query, project) \cup
        (IF strategy = "keyword" THEN FullText(pool, query) ELSE {})

\* Some of these, as many as may be.
AtMost(n, ms) == {s \in SUBSET ms : Cardinality(s) = LeastOf(n, Cardinality(ms))}

\* Mutant of Retained: contradicted memories are taken for ordinary ones.
RetainedPending(candidates, limit, strict) ==
    {OfClass(candidates, "primary") \cup OfClass(candidates, "pending")}

\* applyCandidatePolicy: noise and tests fill up what ordinary memories leave,
\* and less of them for a project; a contradicted memory is never a candidate.
Retained(candidates, limit, strict) ==
    LET primary == OfClass(candidates, "primary")
        ordinary == Cardinality(primary)
        low == IF ordinary >= (IF strict THEN MostOf(2, limit - 1) ELSE limit) THEN 0 ELSE 1
        tests == IF strict THEN (IF ordinary > 0 THEN 0 ELSE 1)
                 ELSE IF ordinary >= limit THEN 0 ELSE MostOf(1, limit \div 2)
    IN {primary \cup l \cup t : l \in AtMost(low, OfClass(candidates, "low")),
                                t \in AtMost(tests, OfClass(candidates, "test"))}

\* keywordFactors: an empty query matches everything.
Matched(ms, query) == {m \in ms : query = <<>> \/ \E i \in DOMAIN query : Has(m, query[i])}

\* What each strategy ranks of the candidates: hybrid adds those near in meaning.
Rankable(strategy, ms, query) ==
    CASE strategy = "structured" -> {ms}
      [] strategy = "keyword" -> {Matched(ms, query)}
      [] strategy = "hybrid" -> {Matched(ms, query) \cup near : near \in SUBSET ms}

\* enhanceWithGraphBoost joins a few others, whatever the filters and the
\* policies say of them.
Joining(strategy, ranked) ==
    IF strategy = "structured" \/ ranked = {} THEN {{}}
    ELSE {s \in SUBSET (Related \ ranked) : Cardinality(s) <= MostJoined}

-----------------------------------------------------------------------------
\* selectTopRanked: about a project the valued ones go first; those joined by
\* relations have no priority.
HighFirst(ranked, joined, project) ==
    LET high(m) == project /\ Traits[m].valued /\ m \notin joined
    IN {ordered \in SetToSeqs(ranked) :
          \A i, j \in DOMAIN ordered : high(ordered[i]) /\ ~high(ordered[j]) => i < j}

\* Mutant of TrySelect: what was selected before is not looked at.
TrySelectAgain(selected, m, limit) ==
    IF Len(selected) >= limit \/ m \in ToSet(selected) THEN selected ELSE Append(selected, m)

TrySelect(selected, m, limit) ==
    IF \/ Len(selected) >= limit
       \/ \E i \in DOMAIN selected : Traits[selected[i]].key = Traits[m].key
    THEN selected ELSE Append(selected, m)

\* The first of a type that is left is tried.
Anchored(selected, type, ordered, limit) ==
    LET left == {i \in DOMAIN ordered : /\ Traits[ordered[i]].type = type
                                        /\ ordered[i] \notin ToSet(selected)}
    IN IF left = {} THEN selected ELSE TrySelect(selected, ordered[Min(left)], limit)

\* The anchors, one of each type, and then the others in their order.
Selected(ordered, limit, route) ==
    LET anchors == FoldLeft(LAMBDA selected, type : Anchored(selected, type, ordered, limit),
                            <<>>, AnchorTypes(route))
    IN FoldLeft(LAMBDA selected, m : TrySelect(selected, m, limit), anchors, ordered)

\* rankByMode and selectTopRanked: what a recall may return of a pool, about a
\* project or not.
Recalled(pool, mode, semantic, query, limit, project, route) ==
    LET strategy == Strategy(mode, semantic)
    IN \E kept \in Retained(Candidates(pool, strategy, query, project), limit, project) :
       \E found \in Rankable(strategy, kept, query) :
       \E joined \in Joining(strategy, found) :
       \E ordered \in HighFirst(found \cup joined, joined, project) :
         selection' = [ordered |-> ordered, joined |-> joined, limit |-> limit, route |-> route,
                       project |-> project, top |-> Selected(ordered, limit, route)]

NoSelection == [ordered |-> <<>>, joined |-> {}, limit |-> 0, route |-> "none",
                project |-> FALSE, top |-> <<>>]

SelectionInit == selection = NoSelection

\* recall, by a tool.
Recall(mode, semantic, query, asked, scores, scoped, signalled) ==
    LET route == Route(scores, scoped, signalled)
    IN Recalled(Pool, mode, semantic, query, LeastOf(asked, MostRecalled),
                signalled \/ route # "none", route)

\* recallForIntent, for a message; without a need nothing is recalled.
RecallForIntent(semantic, intent, query, long, asked, scores, scoped, signalled) ==
    LET oriented == signalled \/ intent.type \in {"planning", "status_update"}
        route == Route(scores, scoped, oriented)
        project == oriented \/ route # "none"
        mode == IF intent.need = "deep" THEN "hybrid" ELSE "keyword"
    IN IF intent.need = "none" THEN selection' = NoSelection
       ELSE \E meant \in IntentQueries(intent.need, query, long) :
              Recalled(Filtered(RouteTypes(route) \cup intent.types, Lifecycles(intent.need, project)),
                       mode, semantic, IF route = "none" THEN meant ELSE Append(meant, RouteWord),
                       IntentLimit(intent.need, asked, route), project, route)

-----------------------------------------------------------------------------
\* Any recall, by a tool or for a message, about anything.
SelectionNext ==
    \E query \in Seq(STRING), asked \in Nat, semantic, scoped, signalled \in BOOLEAN :
    \E scores \in UNION {[kinds -> Nat] : kinds \in SUBSET RouteKinds} :
        \/ \E mode \in {"structured", "keyword", "hybrid"} :
              Recall(mode, semantic, query, asked, scores, scoped, signalled)
        \/ \E signs \in SUBSET (ToSet(Families) \cup {"cue"}), enrichment \in Enrichment,
              fallback, long \in BOOLEAN :
           \E intent \in Analyzed(signs, enrichment, fallback) :
              RecallForIntent(semantic, intent, query, long, asked, scores, scoped, signalled)

SelectionSpec == SelectionInit /\ [][SelectionNext]_selection

-----------------------------------------------------------------------------
\* The reference for the loops of selectTopRanked.  As many are returned as the
\* limit and the different contents allow, no content twice; and a memory gives
\* way only to one that ranks before it, to one of the same content, or to the
\* first of an anchor's type.
ForemostSelected ==
    LET ordered == selection.ordered
        top == ToSet(selection.top)
        key(m) == Traits[m].key
        place(m) == CHOOSE i \in DOMAIN ordered : ordered[i] = m
        foremost(m) == \A o \in ToSet(ordered) : Traits[o].type = Traits[m].type => place(m) <= place(o)
    IN /\ top \subseteq ToSet(ordered)
       /\ Cardinality({key(m) : m \in top}) = Len(selection.top)
       /\ Len(selection.top) = LeastOf(selection.limit, Cardinality({key(m) : m \in ToSet(ordered)}))
       /\ \A out \in ToSet(ordered) \ top, in \in top :
            place(out) < place(in) =>
              \/ \E same \in top : key(same) = key(out)
              \/ foremost(in) /\ Traits[in].type \in ToSet(AnchorTypes(selection.route))

\* What the policies keep from a recall reaches it through relations alone: a
\* memory whose contradiction is pending, and, about a project, a test sample
\* beside an ordinary memory.
SuppressedStaysOut ==
    \A m \in ToSet(selection.top) \ selection.joined :
        /\ Traits[m].class # "pending"
        /\ selection.project /\ Traits[m].class = "test" =>
             \A o \in ToSet(selection.top) \ selection.joined : Traits[o].class # "primary"
=============================================================================
