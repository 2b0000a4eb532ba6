--------------------------- MODULE RelationGraph ---------------------------
(***************************************************************************)
(* The relations between memories (src/storage/relationRepo.ts), what      *)
(* is detected and inferred about a new memory                             *)
(* (src/core/memory/relationDetection.ts), and how a recall follows        *)
(* relations (src/retrieval/strategies/graphBoost.ts).                     *)
(*                                                                         *)
(* A relation is one row per source, target and type.  Its weight is 1:    *)
(* the program never decays or reinforces it.  Confidences only decide     *)
(* whether an inference reaches its floor, which is left open here.        *)
(***************************************************************************)
EXTENDS Naturals, Sequences, FiniteSets, FiniteSetsExt

CONSTANTS
    Ids,            \* memories
    MaxRelations,   \* RELATION_MAX_PER_MEMORY
    MaxInferred,    \* INFERENCE_MAX_PER_STORE
    MaxInjected,    \* MAX_GRAPH_INJECTIONS
    ScanTop,        \* DEFAULT_SCAN_TOP
    GraphLimit,     \* DEFAULT_GRAPH_LIMIT
    Precedes(_, _)  \* the order of memory ids

ASSUME RelationAssumption ==
    /\ IsFiniteSet(Ids)
    /\ {MaxRelations, MaxInferred, MaxInjected, ScanTop, GraphLimit} \subseteq Nat \ {0}
    /\ \A m \in Ids : ~Precedes(m, m)

VARIABLE relations  \* memory_relations

RelationTypes == {"causes", "contradicts", "supports", "evolves_from",
                  "supersedes", "depends_on", "related_to"}
Creators == {"auto_detection", "user_explicit", "consolidation", "inference"}

Relation == [source : Ids, target : Ids, type : RelationTypes, by : Creators, active : BOOLEAN]

GraphTypeOK == relations \subseteq Relation

-----------------------------------------------------------------------------
SameKey(r, source, target, type) == r.source = source /\ r.target = target /\ r.type = type

\* upsert: the relation is made, or made again by someone else, and is active.
Upserted(rels, source, target, type, by) ==
    {r \in rels : ~SameKey(r, source, target, type)}
        \cup {[source |-> source, target |-> target, type |-> type, by |-> by, active |-> TRUE]}

Deactivated(rels, r) == (rels \ {r}) \cup {[r EXCEPT !.active = FALSE]}

FindByMemory(rels, m) == {r \in rels : r.active /\ m \in {r.source, r.target}}
CountByMemory(rels, m) == Cardinality(FindByMemory(rels, m))

\* A step of a traversal: from, to, and the type of relation followed.
Directed(rels, types) ==
    {<<r.source, r.target, r.type>> : r \in {x \in rels : x.active /\ x.type \in types}}
Reversed(edges) == {<<e[2], e[1], e[3]>> : e \in edges}
Undirected(rels, types) == Directed(rels, types) \cup Reversed(Directed(rels, types))

\* The recursive queries: paths of at most depth edges that visit no memory
\* twice, as the edges followed.
Visited(path) == {path[1][1]} \cup {path[i][2] : i \in DOMAIN path}

Paths(edges, m, depth) ==
    LET upTo[n \in 1..depth] ==
          IF n = 1 THEN {<<e>> : e \in {x \in edges : x[1] = m /\ x[2] # m}}
          ELSE upTo[n - 1] \cup
               UNION {{Append(p, e) : e \in {x \in edges : /\ x[1] = p[Len(p)][2]
                                                          /\ x[2] \notin Visited(p)}} :
                      p \in upTo[n - 1]}
    IN upTo[depth]

End(path) == path[Len(path)][2]

\* Mutant of Connected: of the paths to a memory the longest is kept.
ConnectedFarthest(rels, m, types, depth) ==
    LET found == Paths(Undirected(rels, types), m, depth)
    IN {[id |-> End(p), depth |-> Len(p), type |-> p[Len(p)][3]] :
          p \in {q \in found : \A s \in found : End(s) = End(q) => Len(q) >= Len(s)}}

\* Each memory reached, at its least depth; the type is that of the last relation
\* of one such path.
Connected(rels, m, types, depth) ==
    LET found == Paths(Undirected(rels, types), m, depth)
    IN {[id |-> End(p), depth |-> Len(p), type |-> p[Len(p)][3]] :
          p \in {q \in found : \A s \in found : End(s) = End(q) => Len(q) <= Len(s)}}

Ahead(x, c) == x.depth < c.depth \/ (x.depth = c.depth /\ Precedes(x.id, c.id))

\* findConnected: of these the first, by depth and then by id, up to a limit.
FindConnected(rels, m, types, depth, limit) ==
    LET reached == Connected(rels, m, types, depth)
        before(c) == {x.id : x \in {y \in reached : Ahead(y, c)}}
    IN {c \in reached : Cardinality(before(c)) < limit}

FindCausalChain(rels, m, direction, depth) ==
    Paths(IF direction = "forward" THEN Directed(rels, {"causes"})
          ELSE Reversed(Directed(rels, {"causes"})), m, depth)

FindContradictionCluster(rels, m) ==
    {IF r.source = m THEN r.target ELSE r.source :
       r \in {x \in FindByMemory(rels, m) : x.type = "contradicts"}}

\* The versions that came after m.
FindEvolutionTimeline(rels, m, depth) ==
    {End(p) : p \in Paths(Reversed(Directed(rels, {"evolves_from", "supersedes"})), m, depth)}

\* findShortestPath: the shortest paths between two memories, one of which is
\* returned.
FindShortestPath(rels, source, target, depth) ==
    LET found == {p \in Paths(Directed(rels, RelationTypes), source, depth) : End(p) = target}
    IN {p \in found : \A q \in found : Len(p) <= Len(q)}

-----------------------------------------------------------------------------
\* Mutant of Detected: the limit is only checked before the first.
DetectedUnbounded(rels, m, candidates, type) ==
    LET after[n \in 0..Len(candidates)] ==
          IF n = 0 THEN rels
          ELSE Upserted(after[n - 1], m, candidates[n], type[candidates[n]], "auto_detection")
    IN after[Len(candidates)]

\* detectRelationsCore on the memory m: a relation to each of these candidates,
\* in this order, until m has its full count.
Detected(rels, m, candidates, type) ==
    LET after[n \in 0..Len(candidates)] ==
          IF n = 0 THEN rels
          ELSE IF CountByMemory(after[n - 1], m) >= MaxRelations THEN after[n - 1]
          ELSE Upserted(after[n - 1], m, candidates[n], type[candidates[n]], "auto_detection")
    IN after[Len(candidates)]

InferenceRules == {<<"causes", "causes", "causes">>, <<"contradicts", "supports", "contradicts">>,
                   <<"evolves_from", "evolves_from", "evolves_from">>}

\* What the rules conclude about m over two hops.
Conclusions(rels, m) ==
    {c \in Ids \X RelationTypes : c[1] # m /\
       \E rule \in InferenceRules, mid \in Ids :
          /\ rule[3] = c[2]
          /\ <<m, mid, rule[1]>> \in Directed(rels, RelationTypes)
          /\ <<mid, c[1], rule[2]>> \in Directed(rels, RelationTypes)}

\* runTransitiveInference: conclusions are drawn from the relations of m as they
\* were, those with enough confidence, while neither limit is reached.
Inferred(rels, m) ==
    LET with(drawn) ==
          {r \in rels : \A c \in drawn : ~SameKey(r, m, c[1], c[2])} \cup
          {[source |-> m, target |-> c[1], type |-> c[2], by |-> "inference", active |-> TRUE] :
             c \in drawn}
        may == IF CountByMemory(rels, m) >= MaxRelations THEN {} ELSE Conclusions(rels, m)
    IN {with(drawn) : drawn \in {d \in SUBSET may :
          /\ Cardinality(d) <= MaxInferred
          /\ d # {} => CountByMemory(with(d), m) <= MaxRelations}}

-----------------------------------------------------------------------------
\* RELATION_BOOST, in hundredths.
Boost(type) ==
    CASE type \in {"supports", "causes", "depends_on"} -> 8
      [] type \in {"evolves_from", "supersedes"} -> 6
      [] type = "related_to" -> 4
      [] type = "contradicts" -> 2

ScanDepth == 2
MinInjectionBoost == 10

\* The first of a ranking, whose relations are followed.
Scanned(ranked) ==
    {s \in SUBSET ranked : Cardinality(s) = Min({ScanTop, Cardinality(ranked)})}

\* enhanceWithGraphBoost: of the memories related to these of a ranking, those
\* with enough boost in sum join it, up to a limit.
Injections(rels, ranked, scanned) ==
    LET reached == [i \in scanned |-> FindConnected(rels, i, RelationTypes, ScanDepth, GraphLimit)]
        boosts(id, i) == {0} \cup {Boost(c.type) \div c.depth : c \in {x \in reached[i] : x.id = id}}
        most(id) == MapThenSumSet(LAMBDA i : Max(boosts(id, i)), scanned)
        least(id) == MapThenSumSet(LAMBDA i : IF boosts(id, i) = {0} THEN 0
                                              ELSE Min(boosts(id, i) \ {0}), scanned)
        may == {id \in Ids \ ranked : most(id) >= MinInjectionBoost}
        must == {id \in may : least(id) >= MinInjectionBoost}
    IN {s \in SUBSET may : /\ Cardinality(s) <= MaxInjected
                           /\ must \subseteq s \/ Cardinality(s) = MaxInjected}

-----------------------------------------------------------------------------
\* The reference for the traversals: what is reached in n steps, breadth first.
Layers(edges, m, depth) ==
    LET reach[n \in 0..depth] ==
          IF n = 0 THEN {m}
          ELSE reach[n - 1] \cup {e[2] : e \in {x \in edges : x[1] \in reach[n - 1]}}
    IN reach

\* The path queries, which follow paths and compare their text, find what a
\* breadth-first search finds: memories at their distances, never the start, and
\* a shortest path exactly where there is one.  What the limit of findConnected
\* leaves out is no nearer than anything it returns, and as many others as the
\* limit are as near.
TraversalsAgree ==
    \A m \in Ids :
        LET undirected == Layers(Undirected(relations, RelationTypes), m, ScanDepth)
            directed == Layers(Directed(relations, RelationTypes), m, 3)
            found == FindConnected(relations, m, RelationTypes, ScanDepth, GraphLimit)
        IN /\ \A c \in found : /\ c.depth \in 1..ScanDepth
                               /\ c.id \in undirected[c.depth] \ undirected[c.depth - 1]
           /\ \A d \in 1..ScanDepth : \A id \in undirected[d] \ undirected[d - 1] :
                \/ \E c \in found : c.id = id
                \/ /\ \A c \in found : c.depth <= d
                   /\ Cardinality(undirected[d] \ {m, id}) >= GraphLimit
           /\ \A target \in Ids \ {m} :
                LET paths == FindShortestPath(relations, m, target, 3)
                IN /\ paths = {} <=> target \notin directed[3]
                   /\ \A p \in paths : target \in directed[Len(p)] \ directed[Len(p) - 1]
=============================================================================
