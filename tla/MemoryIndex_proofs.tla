-------------------------- MODULE MemoryIndex_proofs --------------------------
(***************************************************************************)
(* Proofs about what is kept beside the memories: the relations between    *)
(* them, the vectors that are asked for, and what a recall returns.        *)
(***************************************************************************)
EXTENDS MemoryIndex, RecallSelection, DataInduction, SequenceTheorems

(***************************************************************************)
(* Traversals.  The paths of at most n edges and the layers of a search in *)
(* breadth are both computed from those of one edge less; a memory that a  *)
(* layer adds is reached by a path through the layers before it, and such  *)
(* a path visits no memory twice.                                          *)
(***************************************************************************)
FirstEdges(edges, m) == {<<e>> : e \in {x \in edges : x[1] = m /\ x[2] # m}}
Onward(edges, p) == {Append(p, e) : e \in {x \in edges : x[1] = p[Len(p)][2] /\ x[2] \notin Visited(p)}}
Lengthened(edges, found) == found \cup UNION {Onward(edges, p) : p \in found}

LEMMA OnwardIsPath ==
    ASSUME NEW edges, NEW p \in Seq(edges)
    PROVE  Onward(edges, p) \subseteq Seq(edges)
  BY DEF Onward

LEMMA PathsUpTo ==
    ASSUME NEW edges, NEW m, NEW d \in Nat \ {0}
    PROVE  \E up : /\ up \in [1..d -> SUBSET Seq(edges)]
                   /\ up[d] = Paths(edges, m, d)
                   /\ up[1] = FirstEdges(edges, m)
                   /\ \A n \in 2..d : up[n] = Lengthened(edges, up[n - 1])
  <1> DEFINE Step(n, f) == IF n = 1 THEN FirstEdges(edges, m) ELSE Lengthened(edges, f[n - 1])
             up == CHOOSE f : f = [n \in 1..d |-> Step(n, f)]
             A == SUBSET Seq(edges)
  <1>1. Paths(edges, m, d) = up[d]
    BY Zenon DEF Paths, FirstEdges, Lengthened, Onward
  <1>2. FirstEdges(edges, m) \in A
    <2>1. \A e \in edges : <<e>> \in Seq(edges) OBVIOUS
    <2>2. QED BY <2>1 DEF FirstEdges
  <1>3. \A found \in A : Lengthened(edges, found) \in A
    BY OnwardIsPath DEF Lengthened
  <1>4. \E f : f \in [1..d -> A] /\ f = [n \in 1..d |-> Step(n, f)]
    <2> DEFINE G == [na \in (2..d) \X A |-> Lengthened(edges, na[2])]
    <2>1. \A n \in (1 + 1)..d, a \in A : G[<<n, a>>] = Lengthened(edges, a)
      OBVIOUS
    <2> HIDE DEF A, G
    <2>2. Recursible(1, d, A, FirstEdges(edges, m), G)
      BY <1>2, <1>3, <2>1 DEF Recursible
    <2>3. PICK f : RecursedBy(f, 1, d, A, FirstEdges(edges, m), G)
      BY <2>2, RecursionExists
    <2>4. ASSUME NEW n \in 1..d PROVE f[n] = Step(n, f)
      <3>1. CASE n = 1
        BY <2>3, <3>1 DEF RecursedBy
      <3>2. CASE n # 1
        <4>1. n - 1 \in 1..d /\ n \in (1 + 1)..d BY <3>2
        <4>2. f[n - 1] \in A BY <2>3, <4>1 DEF RecursedBy
        <4>3. QED BY <2>1, <2>3, <3>2, <4>1, <4>2 DEF RecursedBy
      <3>3. QED BY <3>1, <3>2
    <2> HIDE DEF Step
    <2>5. QED BY <2>3, <2>4 DEF RecursedBy
  <1>5. up \in [1..d -> A] /\ up = [n \in 1..d |-> Step(n, up)]
    <2> HIDE DEF Step, A
    <2>1. up = [n \in 1..d |-> Step(n, up)]
      BY <1>4
    <2> HIDE DEF up
    <2>2. \A n \in 1..d : n \in {k \in 1..d : up[k] \in A}
      <3> DEFINE S == {k \in 1..d : up[k] \in A}
      <3>1. 1 \in S
        <4>1. up[1] = Step(1, up) BY <2>1
        <4>2. QED BY <1>2, <4>1 DEF Step
      <3>2. ASSUME NEW n \in 1..d, n \in S, n + 1 \in 1..d PROVE n + 1 \in S
        <4>1. up[n + 1] = Step(n + 1, up) /\ n + 1 # 1 /\ (n + 1) - 1 = n BY <2>1, <3>2
        <4>2. QED BY <1>3, <3>2, <4>1 DEF Step
      <3> HIDE DEF S
      <3>3. \A n \in 1..d : n \in S
        BY <3>1, <3>2, IntervalInduction
      <3>4. QED BY <3>3 DEF S
    <2>3. QED BY <2>1, <2>2
  <1> HIDE DEF up
  <1>6. up[1] = FirstEdges(edges, m) /\ \A n \in 2..d : up[n] = Lengthened(edges, up[n - 1])
    BY <1>5
  <1>7. QED BY <1>1, <1>5, <1>6

\* What the edges reach from here, and where a search starts.
Step1(edges, reached) == reached \cup {e[2] : e \in {x \in edges : x[1] \in reached}}
Nodes(edges, m) == {m} \cup {e[2] : e \in edges}

LEMMA LayersUpTo ==
    ASSUME NEW edges, NEW m, NEW d \in Nat
    PROVE  /\ Layers(edges, m, d) \in [0..d -> SUBSET Nodes(edges, m)]
           /\ Layers(edges, m, d)[0] = {m}
           /\ \A n \in 1..d : Layers(edges, m, d)[n] = Step1(edges, Layers(edges, m, d)[n - 1])
  <1> DEFINE Step(n, f) == IF n = 0 THEN {m} ELSE Step1(edges, f[n - 1])
             reach == CHOOSE f : f = [n \in 0..d |-> Step(n, f)]
             A == SUBSET Nodes(edges, m)
  <1>1. Layers(edges, m, d) = reach
    BY Zenon DEF Layers, Step1
  <1>2. {m} \in A
    BY DEF Nodes
  <1>3. \A reached \in A : Step1(edges, reached) \in A
    BY DEF Step1, Nodes
  <1>4. \E f : f = [n \in 0..d |-> Step(n, f)]
    <2> DEFINE G == [na \in (1..d) \X A |-> Step1(edges, na[2])]
    <2>1. \A n \in (0 + 1)..d, a \in A : G[<<n, a>>] = Step1(edges, a)
      OBVIOUS
    <2> HIDE DEF A, G
    <2>2. Recursible(0, d, A, {m}, G)
      BY <1>2, <1>3, <2>1 DEF Recursible
    <2>3. PICK f : RecursedBy(f, 0, d, A, {m}, G)
      BY <2>2, RecursionExists
    <2>4. ASSUME NEW n \in 0..d PROVE f[n] = Step(n, f)
      <3>1. CASE n = 0
        BY <2>3, <3>1 DEF RecursedBy
      <3>2. CASE n # 0
        <4>1. n - 1 \in 0..d /\ n \in (0 + 1)..d BY <3>2
        <4>2. f[n - 1] \in A BY <2>3, <4>1 DEF RecursedBy
        <4>3. QED BY <2>1, <2>3, <3>2, <4>1, <4>2 DEF RecursedBy
      <3>3. QED BY <3>1, <3>2
    <2> HIDE DEF Step
    <2>5. QED BY <2>3, <2>4 DEF RecursedBy
  <1>5. reach = [n \in 0..d |-> Step(n, reach)]
    <2> HIDE DEF Step
    <2>1. QED BY <1>4
  <1> HIDE DEF reach
  <1>6. \A n \in 0..d : reach[n] \in A
    <2> DEFINE S == {k \in 0..d : reach[k] \in A}
    <2>1. 0 \in S
      BY <1>2, <1>5
    <2>2. ASSUME NEW n \in 0..d, n \in S, n + 1 \in 0..d PROVE n + 1 \in S
      <3>1. n + 1 # 0 /\ (n + 1) - 1 = n OBVIOUS
      <3>2. reach[n + 1] = Step1(edges, reach[n]) BY <1>5, <2>2, <3>1, Zenon
      <3>3. QED BY <1>3, <2>2, <3>2
    <2> HIDE DEF S
    <2>3. \A n \in 0..d : n \in S
      BY <2>1, <2>2, IntervalInduction
    <2>4. QED BY <2>3 DEF S
  <1>7. reach \in [0..d -> A]
    BY <1>5, <1>6
  <1>8. reach[0] = {m} /\ \A n \in 1..d : reach[n] = Step1(edges, reach[n - 1])
    BY <1>5
  <1>9. QED BY <1>1, <1>7, <1>8

LEMMA LayersGrow ==
    ASSUME NEW edges, NEW m, NEW d \in Nat, NEW k \in 0..d, NEW n \in 0..d, k <= n
    PROVE  Layers(edges, m, d)[k] \subseteq Layers(edges, m, d)[n]
  <1> DEFINE L == Layers(edges, m, d)
             S == {i \in k..d : L[k] \subseteq L[i]}
  <1> HIDE DEF L
  <1>1. k \in S
    OBVIOUS
  <1>2. ASSUME NEW i \in k..d, i \in S, i + 1 \in k..d PROVE i + 1 \in S
    <2>1. L[i + 1] = Step1(edges, L[(i + 1) - 1]) /\ (i + 1) - 1 = i
      BY <1>2, LayersUpTo DEF L
    <2>2. QED BY <1>2, <2>1 DEF Step1
  <1>3. \A i \in k..d : i \in S
    <2> HIDE DEF S
    <2>1. QED BY <1>1, <1>2, IntervalInduction
  <1>4. QED BY <1>3 DEF L

\* A path leads where the layer of its length is, and not back.
Leads(edges, m, d, p) ==
    /\ p \in Seq(edges) /\ Len(p) \in 1..d
    /\ End(p) \in Layers(edges, m, d)[Len(p)] /\ End(p) # m
    /\ Visited(p) = {m} \cup {p[i][2] : i \in DOMAIN p}

\* What a layer adds is reached by a path through the layers before it.
Reached(edges, m, d, found, n) ==
    \A x \in Layers(edges, m, d)[n] \ Layers(edges, m, d)[n - 1] :
        \E p \in found : Len(p) = n /\ End(p) = x /\ Visited(p) \subseteq Layers(edges, m, d)[n]

LEMMA FirstLeads ==
    ASSUME NEW edges, NEW m, NEW d \in Nat \ {0}
    PROVE  /\ \A p \in FirstEdges(edges, m) : Leads(edges, m, d, p)
           /\ Reached(edges, m, d, FirstEdges(edges, m), 1)
  <1> DEFINE L == Layers(edges, m, d)
  <1>1. L[0] = {m} /\ L[1] = Step1(edges, L[0])
    BY LayersUpTo
  <1>2. ASSUME NEW e \in edges, e[1] = m, e[2] # m
        PROVE  Leads(edges, m, d, <<e>>) /\ Len(<<e>>) = 1 /\ End(<<e>>) = e[2] /\ Visited(<<e>>) \subseteq L[1]
    <2>1. <<e>> \in Seq(edges) /\ Len(<<e>>) = 1 /\ End(<<e>>) = e[2] /\ DOMAIN <<e>> = {1} /\ <<e>>[1] = e
      BY DEF End
    <2>2. e[2] \in L[1] /\ m \in L[1]
      BY <1>1, <1>2 DEF Step1
    <2>3. Visited(<<e>>) = {m} \cup {<<e>>[i][2] : i \in DOMAIN <<e>>}
      BY <1>2, <2>1 DEF Visited
    <2>4. Visited(<<e>>) \subseteq L[1]
      BY <2>1, <2>2, <2>3
    <2> HIDE DEF L
    <2>5. QED BY <1>2, <2>1, <2>2, <2>3, <2>4 DEF Leads, L
  <1>3. Reached(edges, m, d, FirstEdges(edges, m), 1)
    <2>1. SUFFICES ASSUME NEW x \in L[1] \ L[0]
                   PROVE  \E p \in FirstEdges(edges, m) : Len(p) = 1 /\ End(p) = x /\ Visited(p) \subseteq L[1]
      BY DEF Reached
    <2>2. PICK e \in edges : e[1] = m /\ e[2] = x /\ x # m
      BY <1>1 DEF Step1
    <2>3. <<e>> \in FirstEdges(edges, m)
      BY <2>2 DEF FirstEdges
    <2> HIDE DEF L
    <2>4. QED BY <1>2, <2>2, <2>3
  <1>4. QED BY <1>2, <1>3 DEF FirstEdges

\* The path q is p and one more edge.
GoesOnTo(edges, p, e, q) ==
    /\ q \in Onward(edges, p) /\ Len(q) = Len(p) + 1
    /\ End(q) = e[2] /\ Visited(q) = Visited(p) \cup {e[2]}

LEMMA OnwardLeads ==
    ASSUME NEW edges, NEW m, NEW d \in Nat \ {0}, NEW p, Leads(edges, m, d, p), Len(p) < d,
           NEW e \in edges, e[1] = End(p), e[2] \notin Visited(p)
    PROVE  GoesOnTo(edges, p, e, Append(p, e)) /\ Leads(edges, m, d, Append(p, e))
  <1> DEFINE q == Append(p, e)
             L == Layers(edges, m, d)
  <1>1. /\ q \in Seq(edges) /\ Len(q) = Len(p) + 1 /\ q[Len(p) + 1] = e
        /\ \A i \in DOMAIN p : q[i] = p[i]
        /\ Len(p) \in 1..d /\ DOMAIN p = 1..Len(p) /\ DOMAIN q = 1..(Len(p) + 1)
    BY DEF Leads
  <1>2. q[1] = p[1] /\ End(q) = e[2]
    BY <1>1 DEF End
  <1> HIDE DEF q
  <1>3. Visited(q) = Visited(p) \cup {e[2]} /\ Visited(q) = {m} \cup {q[i][2] : i \in DOMAIN q}
    <2>1. {q[i][2] : i \in DOMAIN q} = {p[i][2] : i \in DOMAIN p} \cup {e[2]}
      <3>1. DOMAIN q = DOMAIN p \cup {Len(p) + 1} BY <1>1
      <3>2. QED BY <1>1, <3>1
    <2>2. Visited(q) = {q[1][1]} \cup {q[i][2] : i \in DOMAIN q} BY DEF Visited
    <2>3. Visited(p) = {p[1][1]} \cup {p[i][2] : i \in DOMAIN p} BY DEF Visited
    <2>4. Visited(p) = {m} \cup {p[i][2] : i \in DOMAIN p} BY DEF Leads
    <2>5. QED BY <1>2, <2>1, <2>2, <2>3, <2>4
  <1>4. m \in Visited(p)
    BY DEF Leads
  <1>5. e[2] \in L[Len(p) + 1]
    <2>1. L[Len(p) + 1] = Step1(edges, L[(Len(p) + 1) - 1]) /\ (Len(p) + 1) - 1 = Len(p)
      BY <1>1, LayersUpTo
    <2>2. End(p) \in L[Len(p)] BY DEF Leads
    <2> HIDE DEF L
    <2>3. QED BY <2>1, <2>2 DEF Step1
  <1>6. Leads(edges, m, d, q)
    <2>1. Len(q) \in 1..d BY <1>1
    <2>2. e[2] # m BY <1>4
    <2>3. QED BY <1>1, <1>2, <1>3, <1>5, <2>1, <2>2 DEF Leads
  <1>7. q \in Onward(edges, p)
    BY DEF Onward, End, q
  <1>8. QED BY <1>1, <1>2, <1>3, <1>6, <1>7 DEF GoesOnTo, q

\* The paths and the layers agree, whatever the depth.
LEMMA PathsFollowLayers ==
    ASSUME NEW edges, NEW m, NEW d \in Nat \ {0}
    PROVE  /\ \A p \in Paths(edges, m, d) : Leads(edges, m, d, p)
           /\ \A n \in 1..d : Reached(edges, m, d, Paths(edges, m, d), n)
  <1> DEFINE L == Layers(edges, m, d)
             Good(n, found) ==
                /\ \A p \in found : Leads(edges, m, d, p) /\ Len(p) <= n
                /\ \A k \in 1..n : Reached(edges, m, d, found, k)
  <1>1. PICK up : /\ up[d] = Paths(edges, m, d) /\ up[1] = FirstEdges(edges, m)
                  /\ \A n \in 2..d : up[n] = Lengthened(edges, up[n - 1])
    BY SMTT(30), PathsUpTo
  <1> DEFINE S == {n \in 1..d : Good(n, up[n])}
  <1>2. 1 \in S
    <2>1. \A p \in FirstEdges(edges, m) : Len(p) = 1
      BY DEF FirstEdges
    <2>2. \A k \in 1..1 : k = 1 OBVIOUS
    <2>3. Good(1, FirstEdges(edges, m))
      <3>1. ASSUME NEW p \in FirstEdges(edges, m) PROVE Leads(edges, m, d, p) /\ Len(p) <= 1
        <4>1. Leads(edges, m, d, p) BY FirstLeads
        <4>2. Len(p) <= 1 BY <2>1
        <4>3. QED BY <4>1, <4>2
      <3>2. Reached(edges, m, d, FirstEdges(edges, m), 1)
        BY FirstLeads
      <3>3. QED BY <2>2, <3>1, <3>2
    <2> HIDE DEF Good
    <2>4. QED BY <1>1, <2>3
  <1>3. ASSUME NEW n \in 1..d, n \in S, n + 1 \in 1..d PROVE n + 1 \in S
    <2> DEFINE found == up[n]
               further == up[n + 1]
    <2>1. further = Lengthened(edges, found)
      <3>1. n + 1 \in 2..d /\ (n + 1) - 1 = n BY <1>3
      <3>2. QED BY <1>1, <3>1
    <2>2. Good(n, found) BY <1>3
    <2> HIDE DEF found, further
    <2>3. ASSUME NEW p \in further PROVE Leads(edges, m, d, p) /\ Len(p) <= n + 1
      <3>1. CASE p \in found
        <4>1. Len(p) \in Nat /\ Len(p) <= n /\ Leads(edges, m, d, p) BY <2>2, <3>1 DEF Leads
        <4>2. QED BY <4>1
      <3>2. CASE p \notin found
        <4>1. PICK q \in found : p \in Onward(edges, q) BY <2>1, <3>2 DEF Lengthened
        <4>2. PICK e \in edges : e[1] = End(q) /\ e[2] \notin Visited(q) /\ p = Append(q, e)
          BY <4>1 DEF Onward, End
        <4>3. Leads(edges, m, d, q) /\ Len(q) <= n /\ Len(q) \in Nat BY <2>2 DEF Leads
        <4>4. Len(q) < d BY <1>3, <4>3
        <4>5. Leads(edges, m, d, p) /\ Len(p) = Len(q) + 1 BY <4>2, <4>3, <4>4, OnwardLeads DEF GoesOnTo
        <4>6. QED BY <4>3, <4>5
      <3>3. QED BY <3>1, <3>2
    <2>4. ASSUME NEW k \in 1..(n + 1) PROVE Reached(edges, m, d, further, k)
      <3>1. found \subseteq further BY <2>1 DEF Lengthened
      <3>2. CASE k <= n
        <4>1. Reached(edges, m, d, found, k) BY <2>2, <3>2
        <4>2. QED BY <3>1, <4>1 DEF Reached
      <3>3. CASE k = n + 1
        <4>1. SUFFICES ASSUME NEW x \in L[n + 1] \ L[n]
                       PROVE  \E p \in further : Len(p) = n + 1 /\ End(p) = x /\ Visited(p) \subseteq L[n + 1]
          <5>1. k = n + 1 /\ k - 1 = n BY <3>3
          <5>2. QED BY <5>1 DEF Reached
        <4>2. L[n + 1] = Step1(edges, L[n]) /\ L[n] = Step1(edges, L[n - 1]) /\ L[n] \subseteq L[n + 1]
          <5>1. (n + 1) - 1 = n /\ n \in 1..d /\ n + 1 \in 1..d BY <1>3
          <5>2. QED BY <5>1, LayersUpTo DEF Step1
        <4> HIDE DEF L
        <4>3. PICK e \in edges : e[1] \in L[n] /\ e[2] = x
          BY <4>2 DEF Step1
        <4>4. e[1] \notin L[n - 1]
          BY <4>2, <4>3 DEF Step1
        <4>5. PICK p \in found : Len(p) = n /\ End(p) = e[1] /\ Visited(p) \subseteq L[n]
          <5>1. Reached(edges, m, d, found, n) BY <2>2
          <5>2. QED BY <4>3, <4>4, <5>1 DEF Reached, L
        <4>6. Leads(edges, m, d, p) /\ e[2] \notin Visited(p) /\ Len(p) < d
          BY <1>3, <2>2, <4>3, <4>5
        <4>7. /\ Append(p, e) \in Onward(edges, p) /\ Len(Append(p, e)) = n + 1
              /\ End(Append(p, e)) = x /\ Visited(Append(p, e)) = Visited(p) \cup {x}
          <5>1. e[1] = End(p) BY <4>5
          <5>2. /\ Append(p, e) \in Onward(edges, p) /\ Len(Append(p, e)) = Len(p) + 1
                /\ End(Append(p, e)) = e[2] /\ Visited(Append(p, e)) = Visited(p) \cup {e[2]}
            <6>1. GoesOnTo(edges, p, e, Append(p, e)) BY <4>3, <4>6, <5>1, OnwardLeads
            <6>2. QED BY <6>1 DEF GoesOnTo
          <5>3. QED BY <4>3, <4>5, <5>2
        <4>8. Append(p, e) \in further BY <2>1, <4>7 DEF Lengthened
        <4>9. QED BY <4>2, <4>5, <4>7, <4>8
      <3>4. QED BY <3>2, <3>3
    <2> HIDE DEF Good
    <2>5. Good(n + 1, further) BY <2>3, <2>4 DEF Good
    <2>6. QED BY <1>3, <2>5 DEF further
  <1>4. \A n \in 1..d : n \in S
    <2> HIDE DEF S
    <2>1. QED BY <1>2, <1>3, IntervalInduction
  <1>5. Good(d, up[d])
    BY <1>4
  <1>6. QED BY <1>1, <1>5

\* The layer a memory is in first is one that a path of its length leads to.
LEMMA LeastLayer ==
    ASSUME NEW edges, NEW m, NEW d \in Nat \ {0}, NEW n \in 0..d, NEW x \in Layers(edges, m, d)[n], x # m
    PROVE  \E k \in 1..n : x \in Layers(edges, m, d)[k] \ Layers(edges, m, d)[k - 1]
  <1> DEFINE L == Layers(edges, m, d)
             T == {k \in 0..n : x \in L[k]}
  <1>1. PICK k \in T : \A i \in T : k <= i
    <2>1. n \in T /\ T \subseteq Nat OBVIOUS
    <2> HIDE DEF T
    <2>2. QED BY <2>1, LeastNatural
  <1>2. k # 0
    BY LayersUpTo
  <1>3. k - 1 \in 0..n /\ k - 1 \notin T
    BY <1>1, <1>2
  <1>4. QED BY <1>1, <1>2, <1>3

\* One of the shortest paths found to a memory.
Shortest(found, x, p) ==
    p \in found /\ End(p) = x /\ \A q \in found : End(q) = x => Len(p) <= Len(q)

\* The shortest paths to a memory are those of the length of its layer.
ByLayer(edges, m, d, x) ==
    /\ \A p : Shortest(Paths(edges, m, d), x, p) =>
          Len(p) \in 1..d /\ x \in Layers(edges, m, d)[Len(p)] \ Layers(edges, m, d)[Len(p) - 1]
    /\ \A n \in 1..d : x \in Layers(edges, m, d)[n] \ Layers(edges, m, d)[n - 1] =>
          \E p : Shortest(Paths(edges, m, d), x, p) /\ Len(p) = n

LEMMA ShortestByLayer ==
    ASSUME NEW edges, NEW m, NEW d \in Nat \ {0}, NEW x, x # m
    PROVE  ByLayer(edges, m, d, x)
  <1> DEFINE L == Layers(edges, m, d)
             found == Paths(edges, m, d)
  <1>1. \A p \in found : Len(p) \in 1..d /\ End(p) \in L[Len(p)]
    BY PathsFollowLayers DEF Leads
  <1>2. \A n \in 1..d : \A y \in L[n] \ L[n - 1] : \E p \in found : Len(p) = n /\ End(p) = y
    BY PathsFollowLayers DEF Reached
  <1>3. ASSUME NEW p \in found, End(p) = x, \A q \in found : End(q) = x => Len(p) <= Len(q),
               x \in L[Len(p) - 1]
        PROVE  FALSE
    <2>1. Len(p) \in 1..d /\ Len(p) - 1 \in 0..d BY <1>1
    <2>2. PICK k \in 1..(Len(p) - 1) : x \in L[k] \ L[k - 1]
      BY <1>3, <2>1, LeastLayer
    <2>3. k \in 1..d /\ k < Len(p) BY <2>1
    <2>4. \E q \in found : Len(q) = k /\ End(q) = x BY <1>2, <2>2, <2>3
    <2> HIDE DEF found
    <2>5. QED BY <1>3, <2>1, <2>3, <2>4
  <1>4. ASSUME NEW n \in 1..d, x \in L[n] \ L[n - 1]
        PROVE  \E p \in found : /\ Len(p) = n /\ End(p) = x
                                /\ \A q \in found : End(q) = x => Len(p) <= Len(q)
    <2>1. PICK p \in found : Len(p) = n /\ End(p) = x BY <1>2, <1>4
    <2>2. ASSUME NEW q \in found, End(q) = x, ~(n <= Len(q)) PROVE FALSE
      <3>1. Len(q) \in 1..d /\ x \in L[Len(q)] BY <1>1, <2>2
      <3>2. Len(q) \in 0..d /\ n - 1 \in 0..d /\ Len(q) <= n - 1 BY <2>2, <3>1
      <3>3. L[Len(q)] \subseteq L[n - 1] BY <3>2, LayersGrow
      <3>4. QED BY <1>4, <3>1, <3>3
    <2>3. QED BY <2>1, <2>2
  <1>5. QED BY <1>1, <1>3, <1>4 DEF Shortest, ByLayer

\* What the limit of a query leaves out.
LEMMA LimitCuts ==
    ASSUME GraphTypeOK, NEW m \in Ids, NEW reached, reached = Connected(relations, m, RelationTypes, ScanDepth),
           \A x \in reached : x.id \in Ids /\ x.depth \in Nat,
           NEW c \in reached,
           c \notin FindConnected(relations, m, RelationTypes, ScanDepth, GraphLimit)
    PROVE  /\ \A x \in FindConnected(relations, m, RelationTypes, ScanDepth, GraphLimit) : x.depth <= c.depth
           /\ Cardinality({x.id : x \in {y \in reached : Ahead(y, c)}}) >= GraphLimit
  <1> DEFINE found == FindConnected(relations, m, RelationTypes, ScanDepth, GraphLimit)
             before(x) == {y \in reached : Ahead(y, x)}
             ids(x) == {y.id : y \in before(x)}
  <1>1. found = {x \in reached : Cardinality(ids(x)) < GraphLimit}
    BY Zenon DEF FindConnected
  <1>2. \A x \in reached : ids(x) \subseteq Ids /\ IsFiniteSet(ids(x)) /\ Cardinality(ids(x)) \in Nat
    <2>1. \A x \in reached : ids(x) \subseteq Ids OBVIOUS
    <2> HIDE DEF ids
    <2>2. QED BY <2>1, RelationAssumption, FS_Subset, FS_CardinalityType
  <1>3. GraphLimit \in Nat BY RelationAssumption
  <1>4. Cardinality(ids(c)) >= GraphLimit
    <2> HIDE DEF ids, found
    <2>1. ~(Cardinality(ids(c)) < GraphLimit) BY <1>1 DEF found
    <2>2. QED BY <1>2, <1>3, <2>1
  <1>5. ASSUME NEW x \in found, ~(x.depth <= c.depth) PROVE FALSE
    <2>1. x \in reached /\ Cardinality(ids(x)) < GraphLimit BY <1>1
    <2>2. ids(c) \subseteq ids(x)
      <3>1. ASSUME NEW y \in before(c) PROVE y \in before(x)
        <4>1. y.depth \in Nat /\ c.depth \in Nat /\ x.depth \in Nat BY <2>1
        <4>2. y.depth <= c.depth BY <4>1 DEF Ahead
        <4>3. QED BY <1>5, <4>1, <4>2 DEF Ahead
      <3> HIDE DEF before
      <3>2. QED BY <3>1
    <2> HIDE DEF ids, found
    <2>3. Cardinality(ids(c)) <= Cardinality(ids(x)) BY <1>2, <2>1, <2>2, FS_Subset
    <2>4. QED BY <1>2, <1>3, <1>4, <2>1, <2>3
  <1>6. QED BY <1>4, <1>5

\* The queries of a recall and of the relations tool find what a search in
\* breadth finds, in any relations.
LEMMA TraversalsFollowLayers == GraphTypeOK => TraversalsAgree
  <1> SUFFICES ASSUME GraphTypeOK, NEW m \in Ids
               PROVE  LET undirected == Layers(Undirected(relations, RelationTypes), m, ScanDepth)
                          directed == Layers(Directed(relations, RelationTypes), m, 3)
                          found == FindConnected(relations, m, RelationTypes, ScanDepth, GraphLimit)
                      IN /\ \A c \in found : /\ c.depth \in 1..ScanDepth
                                             /\ c.id \in undirected[c.depth] \ undirected[c.depth - 1]
                         /\ \A d \in 1..ScanDepth : \A id \in undirected[d] \ undirected[d - 1] :
                              \/ \E c \in found : c.id = id
                              \/ /\ \A c \in found : c.depth <= d
                                 /\ Cardinality(undirected[d] \ {m, id}) >= GraphLimit
                         /\ \A target \in Ids \ {m} :
                              LET paths == FindShortestPath(relations, m, target, 3)
                              IN /\ paths = {} <=> target \notin directed[3]
                                 /\ \A p \in paths : target \in directed[Len(p)] \ directed[Len(p) - 1]
    BY DEF TraversalsAgree
  <1> DEFINE U == Undirected(relations, RelationTypes)
             D == Directed(relations, RelationTypes)
             LU == Layers(U, m, ScanDepth)
             LD == Layers(D, m, 3)
             PU == Paths(U, m, ScanDepth)
             PD == Paths(D, m, 3)
             reached == Connected(relations, m, RelationTypes, ScanDepth)
             found == FindConnected(relations, m, RelationTypes, ScanDepth, GraphLimit)
  <1>1. \A e \in U : e[2] \in Ids
    BY DEF GraphTypeOK, Undirected, Directed, Reversed, Relation
  <1>2. ScanDepth \in Nat \ {0} /\ 3 \in Nat \ {0}
    BY DEF ScanDepth
  <1> HIDE DEF U, D
  <1>3. \A n \in 0..ScanDepth : LU[n] \subseteq Ids
    BY <1>1, <1>2, LayersUpTo DEF Nodes
  <1>4. ASSUME NEW p \in PU
        PROVE  Len(p) \in 1..ScanDepth /\ End(p) \in LU[Len(p)] /\ End(p) # m
    BY <1>2, PathsFollowLayers DEF Leads
  <1>5. ASSUME NEW p, Shortest(PU, End(p), p)
        PROVE  Len(p) \in 1..ScanDepth /\ End(p) \in LU[Len(p)] \ LU[Len(p) - 1] /\ End(p) \in Ids
    <2>1. End(p) # m /\ Len(p) \in 1..ScanDepth BY <1>4, <1>5 DEF Shortest
    <2>2. End(p) \in LU[Len(p)] \ LU[Len(p) - 1]
      <3>1. ByLayer(U, m, ScanDepth, End(p)) BY <1>2, <2>1, ShortestByLayer
      <3>2. QED BY <1>5, <2>1, <3>1 DEF ByLayer
    <2> HIDE DEF LU
    <2>3. QED BY <1>3, <2>1, <2>2
  <1>6. ASSUME NEW x, NEW n \in 1..ScanDepth, x \in LU[n] \ LU[n - 1]
        PROVE  \E p : Shortest(PU, End(p), p) /\ Len(p) = n /\ End(p) = x
    <2>1. x # m
      <3>1. 0 \in 0..ScanDepth /\ n - 1 \in 0..ScanDepth /\ 0 <= n - 1 BY <1>2
      <3>2. LU[0] = {m} BY <1>2, LayersUpTo
      <3>3. LU[0] \subseteq LU[n - 1] BY <1>2, <3>1, LayersGrow
      <3>4. QED BY <1>6, <3>2, <3>3
    <2>2. \E p : Shortest(PU, x, p) /\ Len(p) = n
      <3>1. ByLayer(U, m, ScanDepth, x) BY <1>2, <2>1, ShortestByLayer
      <3>2. QED BY <1>6, <2>1, <3>1 DEF ByLayer
    <2>3. QED BY <2>2 DEF Shortest
  <1>7. /\ \A c \in reached : /\ c.depth \in 1..ScanDepth /\ c.id \in Ids
                             /\ c.id \in LU[c.depth] \ LU[c.depth - 1]
        /\ \A d \in 1..ScanDepth : \A id \in LU[d] \ LU[d - 1] : \E c \in reached : c.id = id /\ c.depth = d
    <2> DEFINE entry(p) == [id |-> End(p), depth |-> Len(p), type |-> p[Len(p)][3]]
               short == {q \in PU : \A s \in PU : End(s) = End(q) => Len(q) <= Len(s)}
    <2>1. reached = {entry(p) : p \in short}
      BY DEF Connected, U
    <2>2. \A p : entry(p).id = End(p) /\ entry(p).depth = Len(p) OBVIOUS
    <2>3. short = {q \in PU : Shortest(PU, End(q), q)} BY DEF Shortest
    <2> HIDE DEF LU, PU, entry, short, reached
    <2>4. ASSUME NEW c \in reached
          PROVE  c.depth \in 1..ScanDepth /\ c.id \in Ids /\ c.id \in LU[c.depth] \ LU[c.depth - 1]
      <3>1. PICK p \in short : c = entry(p) BY <2>1
      <3>2. Shortest(PU, End(p), p) /\ c.id = End(p) /\ c.depth = Len(p) BY <2>2, <2>3, <3>1
      <3>3. QED BY <1>5, <3>2
    <2>5. ASSUME NEW d \in 1..ScanDepth, NEW id \in LU[d] \ LU[d - 1]
          PROVE  \E c \in reached : c.id = id /\ c.depth = d
      <3>1. PICK p : Shortest(PU, End(p), p) /\ Len(p) = d /\ End(p) = id BY <1>6
      <3>2. p \in short BY <2>3, <3>1 DEF Shortest
      <3>3. entry(p) \in reached BY <2>1, <3>2
      <3>4. QED BY <2>2, <3>1, <3>3
    <2>6. QED BY <2>4, <2>5
  <1>10. found \subseteq reached BY Zenon DEF FindConnected
  <1>11. ASSUME NEW d \in 1..ScanDepth, NEW id \in LU[d] \ LU[d - 1]
         PROVE  \/ \E c \in found : c.id = id
                \/ /\ \A c \in found : c.depth <= d
                   /\ Cardinality(LU[d] \ {m, id}) >= GraphLimit
    <2>1. PICK c \in reached : c.id = id /\ c.depth = d BY <1>7, <1>11
    <2> DEFINE before == {y \in reached : Ahead(y, c)}
               ids == {y.id : y \in before}
    <2>2. CASE c \in found BY <2>1, <2>2
    <2>3. CASE c \notin found
      <3>1. \A x \in reached : x.id \in Ids /\ x.depth \in Nat BY <1>2, <1>7
      <3>2. /\ \A x \in found : x.depth <= c.depth
            /\ Cardinality(ids) >= GraphLimit
        <4> HIDE DEF LU, PU
        <4>1. QED BY <2>1, <2>3, <3>1, LimitCuts
      <3>3. ids \subseteq LU[d] \ {m, id}
        <4> HIDE DEF LU, PU, reached
        <4>1. ASSUME NEW y \in before PROVE y.id \in LU[d] \ {m, id}
          <5>1. /\ y.depth \in 1..ScanDepth /\ y.id \in LU[y.depth] \ LU[y.depth - 1] /\ y.depth <= d
            BY <1>2, <1>7, <2>1 DEF Ahead
          <5>2. y.id \in LU[d]
            <6>1. LU[y.depth] \subseteq LU[d] BY <1>2, <5>1, LayersGrow DEF LU
            <6>2. QED BY <5>1, <6>1
          <5>3. y.id # m
            <6>1. PICK p : Shortest(PU, End(p), p) /\ Len(p) = y.depth /\ End(p) = y.id BY <1>6, <5>1
            <6>2. QED BY <1>4, <6>1 DEF Shortest
          <5>4. y.id # id
            <6>1. CASE y.depth = d
              <7>2. id \in Ids BY <1>7, <2>1
              <7>3. CASE y.id = id
                <8>1. Precedes(id, id) BY <2>1, <6>1, <7>3 DEF before, Ahead
                <8>2. QED BY <7>2, <8>1, RelationAssumption
              <7>4. QED BY <7>3
            <6>2. CASE y.depth # d
              <7>1. y.depth \in 0..(d - 1) /\ d - 1 \in 0..ScanDepth /\ y.depth \in 0..ScanDepth
                BY <1>2, <5>1, <6>2
              <7>2. LU[y.depth] \subseteq LU[d - 1] BY <1>2, <7>1, LayersGrow DEF LU
              <7>3. QED BY <1>11, <5>1, <7>2
            <6>3. QED BY <6>1, <6>2
          <5>5. QED BY <5>2, <5>3, <5>4
        <4>2. QED BY <4>1
      <3>4. Cardinality(ids) <= Cardinality(LU[d] \ {m, id}) /\ Cardinality(ids) \in Nat
            /\ Cardinality(LU[d] \ {m, id}) \in Nat
        <4>1. LU[d] \subseteq Ids BY <1>3, <1>2
        <4>2. IsFiniteSet(LU[d] \ {m, id})
          <5> HIDE DEF LU
          <5>1. LU[d] \ {m, id} \subseteq Ids BY <4>1
          <5>2. QED BY <5>1, RelationAssumption, FS_Subset
        <4> HIDE DEF LU, ids
        <4>3. QED BY <3>3, <4>2, FS_Subset, FS_CardinalityType
      <3>5. GraphLimit \in Nat BY RelationAssumption
      <3>6. \A x \in found : x.depth <= d BY <2>1, <3>2
      <3> HIDE DEF LU, ids, found
      <3>7. QED BY <3>2, <3>4, <3>5, <3>6
    <2>4. QED BY <2>2, <2>3
  <1>8. ASSUME NEW target \in Ids \ {m}
        PROVE  LET paths == FindShortestPath(relations, m, target, 3)
               IN /\ paths = {} <=> target \notin LD[3]
                  /\ \A p \in paths : target \in LD[Len(p)] \ LD[Len(p) - 1]
    <2> DEFINE paths == FindShortestPath(relations, m, target, 3)
    <2>1. paths = {p \in PD : Shortest(PD, target, p)}
      BY DEF FindShortestPath, Shortest, D
    <2>2. /\ \A p \in paths : Len(p) \in 1..3 /\ target \in LD[Len(p)] \ LD[Len(p) - 1]
          /\ \A n \in 1..3 : target \in LD[n] \ LD[n - 1] => paths # {}
      <3> HIDE DEF paths
      <3>1. target # m OBVIOUS
      <3>2. /\ \A p : Shortest(PD, target, p) =>
                 Len(p) \in 1..3 /\ target \in LD[Len(p)] \ LD[Len(p) - 1]
            /\ \A n \in 1..3 : target \in LD[n] \ LD[n - 1] => \E p : Shortest(PD, target, p) /\ Len(p) = n
        <4>1. ByLayer(D, m, 3, target) BY <1>2, <3>1, ShortestByLayer
        <4>2. QED BY <4>1 DEF ByLayer
      <3> HIDE DEF PD, LD
      <3>3. QED BY <2>1, <3>2 DEF Shortest
    <2>3. target \in LD[3] => \E k \in 1..3 : target \in LD[k] \ LD[k - 1]
      BY <1>2, LeastLayer
    <2>4. \A n \in 1..3 : LD[n] \subseteq LD[3]
      BY <1>2, LayersGrow
    <2> HIDE DEF LD, paths
    <2>5. QED BY <2>2, <2>3, <2>4 DEF paths
  <1>12. \A c \in found : c.depth \in 1..ScanDepth /\ c.id \in LU[c.depth] \ LU[c.depth - 1]
    BY <1>7, <1>10
  <1> HIDE DEF LU, LD, PU, PD, reached, found
  <1>13. QED BY <1>8, <1>11, <1>12 DEF U, D, LU, LD, found

-----------------------------------------------------------------------------
(***************************************************************************)
(* The relations.  Both of their ends are in a set of memories, and those  *)
(* that detection and inference made from one memory stay within the limit *)
(* whatever the operators do: only what detects or infers from m adds to   *)
(* those of m, and both count what m has.                                  *)
(***************************************************************************)
RelationOn(E) == {r \in Relation : r.source \in E /\ r.target \in E}
Automatic(rels, m) == {r \in rels : r.active /\ r.source = m /\ r.by \in {"auto_detection", "inference"}}

GraphInv(rels, E) ==
    /\ rels \subseteq RelationOn(E)
    /\ \A m \in Ids : Cardinality(Automatic(rels, m)) <= MaxRelations

LEMMA FourFinite == ASSUME NEW a, NEW b, NEW c, NEW d PROVE IsFiniteSet({a, b, c, d})
  <1>1. IsFiniteSet({a}) BY FS_Singleton
  <1>2. IsFiniteSet({a} \cup {b}) BY <1>1, FS_AddElement
  <1>3. IsFiniteSet(({a} \cup {b}) \cup {c}) BY <1>2, FS_AddElement
  <1>4. IsFiniteSet((({a} \cup {b}) \cup {c}) \cup {d}) BY <1>3, FS_AddElement
  <1>5. (({a} \cup {b}) \cup {c}) \cup {d} = {a, b, c, d} OBVIOUS
  <1>6. QED BY <1>4, <1>5

\* There are finitely many relations.
LEMMA RelationFinite == IsFiniteSet(Relation)
  <1> DEFINE K == (Ids \X Ids) \X (RelationTypes \X (Creators \X BOOLEAN))
             f == [k \in K |-> [source |-> k[1][1], target |-> k[1][2], type |-> k[2][1],
                                by |-> k[2][2][1], active |-> k[2][2][2]]]
  <1>1. IsFiniteSet(RelationTypes)
    <2>1. IsFiniteSet({"causes", "contradicts", "supports", "evolves_from"}) BY FourFinite
    <2>2. IsFiniteSet({"supersedes", "depends_on", "related_to", "related_to"}) BY FourFinite
    <2>3. RelationTypes = {"causes", "contradicts", "supports", "evolves_from"}
                          \cup {"supersedes", "depends_on", "related_to", "related_to"}
      BY DEF RelationTypes
    <2>4. QED BY <2>1, <2>2, <2>3, FS_Union
  <1>2. IsFiniteSet(Creators)
    BY FourFinite DEF Creators
  <1>3. IsFiniteSet(BOOLEAN)
    <2>1. BOOLEAN = {TRUE, FALSE, TRUE, FALSE} OBVIOUS
    <2>2. IsFiniteSet({TRUE, FALSE, TRUE, FALSE}) BY FourFinite
    <2>3. QED BY <2>1, <2>2
  <1>4. IsFiniteSet(K)
    <2>1. IsFiniteSet(Creators \X BOOLEAN) BY <1>2, <1>3, FS_Product
    <2>2. IsFiniteSet(RelationTypes \X (Creators \X BOOLEAN)) BY <1>1, <2>1, FS_Product
    <2>3. IsFiniteSet(Ids \X Ids) BY RelationAssumption, FS_Product
    <2>4. QED BY <2>2, <2>3, FS_Product
  <1>5. f \in Surjection(K, Relation)
    <2>1. f \in [K -> Relation]
      BY DEF Relation
    <2>2. ASSUME NEW r \in Relation PROVE \E k \in K : f[k] = r
      <3> DEFINE k == <<<<r.source, r.target>>, <<r.type, <<r.by, r.active>>>>>>
      <3>1. k \in K BY DEF Relation
      <3>2. f[k] = [source |-> r.source, target |-> r.target, type |-> r.type, by |-> r.by, active |-> r.active]
        BY <3>1
      <3>3. f[k] = r BY <3>2 DEF Relation
      <3> HIDE DEF f
      <3>4. QED BY <3>1, <3>3
    <2> HIDE DEF f
    <2>3. QED BY <2>1, <2>2 DEF Surjection
  <1> HIDE DEF f, K
  <1>6. QED BY <1>4, <1>5, FS_Surjection

LEMMA SmallerStaysBounded ==
    ASSUME NEW S, S \subseteq Relation, NEW T, T \subseteq S, NEW n \in Nat, Cardinality(S) <= n
    PROVE  Cardinality(T) <= n
  <1>1. IsFiniteSet(S) /\ IsFiniteSet(T) BY RelationFinite, FS_Subset
  <1>2. Cardinality(S) \in Nat /\ Cardinality(T) \in Nat /\ Cardinality(T) <= Cardinality(S)
    BY <1>1, FS_Subset, FS_CardinalityType
  <1>3. QED BY <1>2

\* A change that adds no automatic relation keeps the limit.
LEMMA NoNewAutomatic ==
    ASSUME NEW E, NEW rels, GraphInv(rels, E), NEW E2, NEW new, new \subseteq RelationOn(E2),
           \A r \in new : r.active /\ r.by \in {"auto_detection", "inference"} => r \in rels
    PROVE  GraphInv(new, E2)
  <1>1. ASSUME NEW m \in Ids PROVE Cardinality(Automatic(new, m)) <= MaxRelations
    <2>1. Automatic(new, m) \subseteq Automatic(rels, m) BY DEF Automatic
    <2>2. Automatic(rels, m) \subseteq Relation BY DEF GraphInv, RelationOn, Automatic
    <2>3. MaxRelations \in Nat BY RelationAssumption
    <2>4. QED BY <2>1, <2>2, <2>3, SmallerStaysBounded DEF GraphInv
  <1>2. QED BY <1>1 DEF GraphInv

LEMMA UserAdds ==
    ASSUME NEW E, E \subseteq Ids, NEW rels, GraphInv(rels, E),
           NEW source \in E, NEW target \in E, NEW type \in RelationTypes
    PROVE  GraphInv(Upserted(rels, source, target, type, "user_explicit"), E)
  <1> DEFINE new == Upserted(rels, source, target, type, "user_explicit")
             r0 == [source |-> source, target |-> target, type |-> type, by |-> "user_explicit", active |-> TRUE]
  <1>1. r0 \in RelationOn(E)
    BY DEF RelationOn, Relation, Creators
  <1>2. new \subseteq rels \cup {r0} BY DEF Upserted
  <1>3. rels \subseteq RelationOn(E) BY DEF GraphInv
  <1>4. \A r \in new : r.active /\ r.by \in {"auto_detection", "inference"} => r \in rels
    BY <1>2
  <1> HIDE DEF new, r0
  <1>5. new \subseteq RelationOn(E) BY <1>1, <1>2, <1>3
  <1>6. GraphInv(new, E) BY <1>4, <1>5, NoNewAutomatic
  <1>7. QED BY <1>6 DEF new

LEMMA UserRemoves ==
    ASSUME NEW E, E \subseteq Ids, NEW rels, GraphInv(rels, E), NEW r \in rels
    PROVE  GraphInv(Deactivated(rels, r), E)
  <1> DEFINE new == Deactivated(rels, r)
             r0 == [r EXCEPT !.active = FALSE]
  <1>1. rels \subseteq RelationOn(E) BY DEF GraphInv
  <1>2. r0 \in RelationOn(E) /\ r0.active = FALSE
    BY <1>1 DEF RelationOn, Relation
  <1>3. new \subseteq rels \cup {r0} BY DEF Deactivated
  <1> HIDE DEF new, r0
  <1>4. \A x \in new : x.active /\ x.by \in {"auto_detection", "inference"} => x \in rels
    BY <1>2, <1>3
  <1>5. new \subseteq RelationOn(E) BY <1>1, <1>2, <1>3
  <1>6. GraphInv(new, E) BY <1>4, <1>5, NoNewAutomatic
  <1>7. QED BY <1>6 DEF new

\* One relation more from m, which had not its full count.
LEMMA DetectsOne ==
    ASSUME NEW E, E \subseteq Ids, NEW rels, GraphInv(rels, E), NEW m \in E, NEW x \in E,
           NEW type \in RelationTypes, ~(CountByMemory(rels, m) >= MaxRelations)
    PROVE  GraphInv(Upserted(rels, m, x, type, "auto_detection"), E)
  <1> DEFINE new == Upserted(rels, m, x, type, "auto_detection")
             r0 == [source |-> m, target |-> x, type |-> type, by |-> "auto_detection", active |-> TRUE]
  <1>1. r0 \in RelationOn(E) /\ r0.source = m
    BY DEF RelationOn, Relation, Creators
  <1>2. new \subseteq rels \cup {r0} BY DEF Upserted
  <1>3. rels \subseteq RelationOn(E) /\ rels \subseteq Relation BY DEF GraphInv, RelationOn
  <1> HIDE DEF new, r0
  <1>4. new \subseteq RelationOn(E) BY <1>1, <1>2, <1>3
  <1>5. ASSUME NEW y \in Ids PROVE Cardinality(Automatic(new, y)) <= MaxRelations
    <2>1. CASE y = m
      <3> DEFINE mine == FindByMemory(rels, m)
      <3>1. IsFiniteSet(mine) /\ Cardinality(mine) \in Nat
        <4>1. mine \subseteq Relation BY <1>3 DEF FindByMemory
        <4>2. QED BY <4>1, RelationFinite, FS_Subset, FS_CardinalityType
      <3>2. Cardinality(mine) < MaxRelations /\ MaxRelations \in Nat
        BY <3>1, RelationAssumption DEF CountByMemory
      <3>3. Automatic(new, y) \subseteq mine \cup {r0}
        BY <1>2, <2>1 DEF Automatic, FindByMemory
      <3> HIDE DEF mine
      <3>4. IsFiniteSet(mine \cup {r0}) /\ Cardinality(mine \cup {r0}) <= MaxRelations
        <4>1. Cardinality(mine \cup {r0}) = IF r0 \in mine THEN Cardinality(mine) ELSE Cardinality(mine) + 1
          BY <3>1, FS_AddElement
        <4>2. IsFiniteSet(mine \cup {r0}) BY <3>1, FS_AddElement
        <4>3. QED BY <3>1, <3>2, <4>1, <4>2
      <3>5. /\ Cardinality(Automatic(new, y)) <= Cardinality(mine \cup {r0})
            /\ Cardinality(Automatic(new, y)) \in Nat /\ Cardinality(mine \cup {r0}) \in Nat
        BY <3>3, <3>4, FS_Subset, FS_CardinalityType
      <3>6. QED BY <3>2, <3>4, <3>5
    <2>2. CASE y # m
      <3>1. Automatic(new, y) \subseteq Automatic(rels, y) BY <1>1, <1>2, <2>2 DEF Automatic
      <3>2. Automatic(rels, y) \subseteq Relation BY <1>3 DEF Automatic
      <3>3. MaxRelations \in Nat BY RelationAssumption
      <3>4. QED BY <3>1, <3>2, <3>3, SmallerStaysBounded DEF GraphInv
    <2>3. QED BY <2>1, <2>2
  <1>6. GraphInv(new, E) BY <1>4, <1>5 DEF GraphInv
  <1>7. QED BY <1>6 DEF new

\* These are memories, each with its type.
Classified(candidates, type, E) ==
    /\ Len(candidates) \in Nat
    /\ \A i \in 1..Len(candidates) : candidates[i] \in E /\ type[candidates[i]] \in RelationTypes

LEMMA DetectedBounded ==
    ASSUME NEW E, E \subseteq Ids, NEW rels, GraphInv(rels, E), NEW m \in E,
           NEW candidates, NEW type, Classified(candidates, type, E)
    PROVE  GraphInv(Detected(rels, m, candidates, type), E)
  <1> DEFINE n == Len(candidates)
             A == {a \in SUBSET Relation : GraphInv(a, E)}
             Next1(i, a) == IF CountByMemory(a, m) >= MaxRelations THEN a
                            ELSE Upserted(a, m, candidates[i], type[candidates[i]], "auto_detection")
             Step(i, f) == IF i = 0 THEN rels ELSE Next1(i, f[i - 1])
             after == CHOOSE f : f = [i \in 0..n |-> Step(i, f)]
  <1>1. Detected(rels, m, candidates, type) = after[n]
    BY Zenon DEF Detected
  <1>2. \A a : GraphInv(a, E) => a \in A
    BY DEF GraphInv, RelationOn
  <1>3. rels \in A BY <1>2
  <1>4. n \in Nat BY DEF Classified
  <1>5. ASSUME NEW i \in 1..n, NEW a \in A PROVE Next1(i, a) \in A
    <2>1. candidates[i] \in E /\ type[candidates[i]] \in RelationTypes BY DEF Classified
    <2>2. CASE CountByMemory(a, m) >= MaxRelations BY <2>2
    <2>3. CASE ~(CountByMemory(a, m) >= MaxRelations)
      <3>1. GraphInv(a, E) OBVIOUS
      <3>2. GraphInv(Upserted(a, m, candidates[i], type[candidates[i]], "auto_detection"), E)
        BY <2>1, <2>3, <3>1, DetectsOne
      <3>3. QED BY <1>2, <2>3, <3>2
    <2>4. QED BY <2>2, <2>3
  <1> HIDE DEF A, Next1, n
  <1>6. \E f : f = [i \in 0..n |-> Step(i, f)]
    <2> DEFINE G == [ia \in (1..n) \X A |-> Next1(ia[1], ia[2])]
    <2>1. \A i \in (0 + 1)..n, a \in A : G[<<i, a>>] = Next1(i, a)
      OBVIOUS
    <2> HIDE DEF G
    <2>2. Recursible(0, n, A, rels, G)
      BY <1>3, <1>4, <1>5, <2>1 DEF Recursible
    <2>3. PICK f : RecursedBy(f, 0, n, A, rels, G)
      BY <2>2, RecursionExists
    <2>4. ASSUME NEW i \in 0..n PROVE f[i] = Step(i, f)
      <3>1. CASE i = 0
        BY <2>3, <3>1 DEF RecursedBy
      <3>2. CASE i # 0
        <4>1. i - 1 \in 0..n /\ i \in (0 + 1)..n BY <1>4, <3>2
        <4>2. f[i - 1] \in A BY <2>3, <4>1 DEF RecursedBy
        <4>3. QED BY <2>1, <2>3, <3>2, <4>1, <4>2 DEF RecursedBy
      <3>3. QED BY <3>1, <3>2
    <2> HIDE DEF Step
    <2>5. QED BY <2>3, <2>4 DEF RecursedBy
  <1>7. after = [i \in 0..n |-> Step(i, after)]
    <2> HIDE DEF Step
    <2>1. QED BY <1>6
  <1> HIDE DEF after
  <1>8. \A i \in 0..n : i \in {j \in 0..n : after[j] \in A}
    <2> DEFINE S == {j \in 0..n : after[j] \in A}
    <2>1. 0 \in S BY <1>3, <1>4, <1>7
    <2>2. ASSUME NEW i \in 0..n, i \in S, i + 1 \in 0..n PROVE i + 1 \in S
      <3>1. i + 1 # 0 /\ (i + 1) - 1 = i /\ i + 1 \in 1..n BY <1>4, <2>2
      <3>2. after[i + 1] = Next1(i + 1, after[i]) BY <1>7, <2>2, <3>1, Zenon
      <3>3. QED BY <1>5, <2>2, <3>1, <3>2
    <2> HIDE DEF S
    <2>3. \A i \in 0..n : i \in S BY <1>4, <2>1, <2>2, IntervalInduction
    <2>4. QED BY <2>3 DEF S
  <1>9. after[n] \in A BY <1>4, <1>8
  <1>10. QED BY <1>1, <1>9 DEF A

LEMMA InferredBounded ==
    ASSUME NEW E, E \subseteq Ids, NEW rels, GraphInv(rels, E), NEW m \in E, NEW new \in Inferred(rels, m)
    PROVE  GraphInv(new, E)
  <1> DEFINE with(drawn) ==
               {r \in rels : \A c \in drawn : ~SameKey(r, m, c[1], c[2])} \cup
               {[source |-> m, target |-> c[1], type |-> c[2], by |-> "inference", active |-> TRUE] :
                  c \in drawn}
  <1>1. PICK drawn \in SUBSET Conclusions(rels, m) :
          new = with(drawn) /\ (drawn # {} => CountByMemory(with(drawn), m) <= MaxRelations)
    BY DEF Inferred
  <1>2. rels \subseteq RelationOn(E) /\ rels \subseteq Relation BY DEF GraphInv, RelationOn
  <1>3. \A c \in drawn : c[1] \in E /\ c[2] \in RelationTypes
    <2>1. SUFFICES ASSUME NEW c \in drawn PROVE c[1] \in E /\ c[2] \in RelationTypes
      OBVIOUS
    <2>2. c \in Ids \X RelationTypes BY DEF Conclusions
    <2>3. PICK mid, type : <<mid, c[1], type>> \in Directed(rels, RelationTypes)
      <3>1. \E rule \in InferenceRules, mid \in Ids : <<mid, c[1], rule[2]>> \in Directed(rels, RelationTypes)
        BY Zenon DEF Conclusions
      <3>2. QED BY <3>1
    <2>4. PICK r \in rels : <<mid, c[1], type>> = <<r.source, r.target, r.type>>
      BY <2>3 DEF Directed
    <2>5. c[1] = r.target BY <2>4
    <2>6. QED BY <1>2, <2>2, <2>5 DEF RelationOn
  <1>4. new \subseteq RelationOn(E)
    <2>1. \A c \in drawn : [source |-> m, target |-> c[1], type |-> c[2], by |-> "inference", active |-> TRUE]
                              \in RelationOn(E)
      BY <1>3 DEF RelationOn, Relation, Creators
    <2>2. QED BY <1>1, <1>2, <2>1
  <1>5. ASSUME NEW y \in Ids PROVE Cardinality(Automatic(new, y)) <= MaxRelations
    <2>0. MaxRelations \in Nat BY RelationAssumption
    <2>1. CASE y = m /\ drawn # {}
      <3>1. Automatic(new, y) \subseteq FindByMemory(new, m) BY <2>1 DEF Automatic, FindByMemory
      <3>2. FindByMemory(new, m) \subseteq Relation BY <1>4 DEF FindByMemory, RelationOn
      <3>3. Cardinality(FindByMemory(new, m)) <= MaxRelations
        <4> HIDE DEF with
        <4>1. QED BY <1>1, <2>1 DEF CountByMemory
      <3>4. QED BY <2>0, <3>1, <3>2, <3>3, SmallerStaysBounded
    <2>2. CASE y # m \/ drawn = {}
      <3>1. Automatic(new, y) \subseteq Automatic(rels, y) BY <1>1, <2>2 DEF Automatic
      <3>2. Automatic(rels, y) \subseteq Relation BY <1>2 DEF Automatic
      <3>3. QED BY <2>0, <3>1, <3>2, SmallerStaysBounded DEF GraphInv
    <2>3. QED BY <2>1, <2>2
  <1>6. QED BY <1>4, <1>5 DEF GraphInv

\* What a summary takes over was made by the consolidation.
LEMMA TakeOverBounded ==
    ASSUME NEW E, E \subseteq Ids, NEW rels, GraphInv(rels, E), NEW m, NEW s \in E
    PROVE  GraphInv(TakeOver(rels, m, s), E)
  <1> DEFINE new == TakeOver(rels, m, s)
             kept == {r \in {TakenOver(r, m, s) : r \in FindByMemory(rels, m)} : r.source # r.target}
  <1>1. rels \subseteq RelationOn(E) BY DEF GraphInv
  <1>2. ASSUME NEW k \in kept
        PROVE  [k EXCEPT !.by = "consolidation"] \in RelationOn(E) /\ [k EXCEPT !.by = "consolidation"].by = "consolidation"
    <2>1. PICK r \in rels : k = TakenOver(r, m, s) BY DEF FindByMemory
    <2>2. r \in RelationOn(E) BY <1>1
    <2>3. k \in RelationOn(E) BY <2>1, <2>2 DEF TakenOver, RelationOn, Relation
    <2> HIDE DEF kept
    <2>4. QED BY <2>3 DEF RelationOn, Relation, Creators
  <1>3. new \subseteq rels \cup {[k EXCEPT !.by = "consolidation"] : k \in kept}
    BY DEF TakeOver
  <1> HIDE DEF new, kept
  <1>4. \A x \in new : x.active /\ x.by \in {"auto_detection", "inference"} => x \in rels
    BY <1>2, <1>3
  <1>5. new \subseteq RelationOn(E) BY <1>1, <1>2, <1>3
  <1>6. GraphInv(new, E) BY <1>4, <1>5, NoNewAutomatic
  <1>7. QED BY <1>6 DEF new

\* There is an active relation between these, of this type.
Linked(rels, source, target, type) == \E k \in rels : k.active /\ SameKey(k, source, target, type)
Moved(x, m, s) == IF x = m THEN s ELSE x

LEMMA TakeOverKeeps ==
    ASSUME NEW rels, rels \subseteq Relation, NEW m, NEW s, NEW source, NEW target, NEW type,
           Linked(rels, source, target, type), Moved(source, m, s) # Moved(target, m, s)
    PROVE  Linked(TakeOver(rels, m, s), Moved(source, m, s), Moved(target, m, s), type)
  <1> DEFINE kept == {r \in {TakenOver(r, m, s) : r \in FindByMemory(rels, m)} : r.source # r.target}
             taken(k) == [k EXCEPT !.by = "consolidation"]
             a == Moved(source, m, s)
             b == Moved(target, m, s)
  <1>1. PICK k \in rels : k.active /\ SameKey(k, source, target, type) BY DEF Linked
  <1>2. TakeOver(rels, m, s) = {r \in rels : \A x \in kept : ~SameKey(r, x.source, x.target, x.type)}
                               \cup {taken(x) : x \in kept}
    BY DEF TakeOver
  <1>3. ASSUME NEW x \in kept
        PROVE  /\ x.active
               /\ \A p, q, t : SameKey(x, p, q, t) => taken(x).active /\ SameKey(taken(x), p, q, t)
    <2>1. PICK r \in rels : r.active /\ x = TakenOver(r, m, s) BY DEF FindByMemory
    <2>2. r \in Relation OBVIOUS
    <2> HIDE DEF kept
    <2>3. /\ x.source = Moved(r.source, m, s) /\ x.target = Moved(r.target, m, s) /\ x.active
          /\ DOMAIN x = DOMAIN r
      BY <2>1, <2>2 DEF TakenOver, Relation, Moved
    <2>4. taken(x).active = x.active /\ taken(x).source = x.source /\ taken(x).target = x.target /\ taken(x).type = x.type
      BY <2>1, <2>2 DEF TakenOver, Relation
    <2>5. QED BY <2>3, <2>4 DEF SameKey
  <1>4. CASE m \in {k.source, k.target}
    <2>1. k \in FindByMemory(rels, m) BY <1>1, <1>4 DEF FindByMemory
    <2>2. SameKey(TakenOver(k, m, s), a, b, type)
      BY <1>1 DEF TakenOver, SameKey, Moved, Relation
    <2>3. TakenOver(k, m, s) \in kept
      BY <2>1, <2>2 DEF SameKey
    <2> HIDE DEF kept, taken, a, b
    <2>4. taken(TakenOver(k, m, s)).active /\ SameKey(taken(TakenOver(k, m, s)), a, b, type)
      BY <1>3, <2>2, <2>3
    <2>5. QED BY <1>2, <2>3, <2>4 DEF Linked, a, b
  <1>5. CASE m \notin {k.source, k.target}
    <2>1. a = source /\ b = target BY <1>1, <1>5 DEF SameKey, Moved
    <2>2. CASE k \in TakeOver(rels, m, s) BY <1>1, <2>1, <2>2 DEF Linked
    <2>3. CASE k \notin TakeOver(rels, m, s)
      <3> HIDE DEF kept, taken
      <3>1. PICK x \in kept : SameKey(k, x.source, x.target, x.type) BY <1>2, <2>3
      <3>2. SameKey(x, source, target, type) BY <1>1, <3>1 DEF SameKey
      <3>3. taken(x).active /\ SameKey(taken(x), source, target, type) BY <1>3, <3>2
      <3>4. taken(x) \in TakeOver(rels, m, s) BY <1>2
      <3>5. QED BY <2>1, <3>3, <3>4 DEF Linked
    <2>4. QED BY <2>2, <2>3
  <1>6. QED BY <1>4, <1>5

\* The relations after the originals T were taken over, for each part T of X.
TakesOver(f, X, rels, s) ==
    /\ f[{}] = rels
    /\ \A T \in SUBSET X : T # {} => \E x \in T : f[T] = TakeOver(f[T \ {x}], x, s)

LEMMA TakeOverAll ==
    ASSUME NEW E, E \subseteq Ids, NEW rels, GraphInv(rels, E), NEW X, X \subseteq Ids, NEW s \in E
    PROVE  \E f : /\ f[X] = FoldSet(LAMBDA m, r : TakeOver(r, m, s), rels, X)
                  /\ TakesOver(f, X, rels, s)
                  /\ \A T \in SUBSET X : GraphInv(f[T], E)
  <1> DEFINE A == {a \in SUBSET Relation : GraphInv(a, E)}
             pick(T) == CHOOSE x \in T : TRUE
             Step(T, f) == IF T = {} THEN rels ELSE TakeOver(f[T \ {pick(T)}], pick(T), s)
             iter == CHOOSE f : f = [T \in SUBSET X |-> Step(T, f)]
  <1>1. FoldSet(LAMBDA m, r : TakeOver(r, m, s), rels, X) = iter[X]
    BY Zenon DEF FoldSet, MapThenFoldSet
  <1>2. \A a : GraphInv(a, E) => a \in A
    BY DEF GraphInv, RelationOn
  <1>3. rels \in A BY <1>2
  <1>4. \A x \in X, a \in A : TakeOver(a, x, s) \in A
    BY <1>2, TakeOverBounded
  <1>5. IsFiniteSet(X) BY RelationAssumption, FS_Subset
  <1>6. \A T : T # {} => pick(T) \in T OBVIOUS
  <1> HIDE DEF A, pick
  <1>7. \E f : f = [T \in SUBSET X |-> Step(T, f)]
    <2> DEFINE ch == [T \in SUBSET X |-> pick(T)]
               G == [xa \in X \X A |-> TakeOver(xa[2], xa[1], s)]
    <2>1. \A T \in SUBSET X : T # {} => ch[T] \in T BY <1>6
    <2>2. \A x \in X, a \in A : G[<<x, a>>] \in A BY <1>4
    <2>3. Foldable(X, A, rels, ch, G)
      <3> HIDE DEF ch, G
      <3>1. QED BY <1>3, <1>5, <2>1, <2>2 DEF Foldable
    <2>4. PICK f : FoldedBy(f, X, A, rels, ch, G)
      BY <2>3, FoldExists
    <2>5. ASSUME NEW T \in SUBSET X PROVE f[T] = Step(T, f)
      <3> USE DEF FoldedBy
      <3>1. CASE T = {} BY <2>4, <3>1
      <3>2. CASE T # {}
        <4>1. pick(T) \in X /\ T \ {pick(T)} \in SUBSET X BY <1>6, <3>2
        <4>2. f[T \ {pick(T)}] \in A BY <2>4, <4>1
        <4>3. G[<<pick(T), f[T \ {pick(T)}]>>] = TakeOver(f[T \ {pick(T)}], pick(T), s)
          BY <4>1, <4>2
        <4>4. QED BY <2>4, <3>2, <4>3
      <3>3. QED BY <3>1, <3>2
    <2> HIDE DEF Step
    <2>6. QED BY <2>4, <2>5 DEF FoldedBy
  <1>8. iter = [T \in SUBSET X |-> Step(T, iter)]
    <2> HIDE DEF Step
    <2>1. QED BY <1>7
  <1> HIDE DEF iter
  <1>9. \A T \in SUBSET X : iter[T] \in A
    <2> DEFINE P == {U \in SUBSET X : iter[U] \in A}
    <2>1. {} \in P BY <1>3, <1>8
    <2>2. ASSUME NEW T \in SUBSET X, T # {}, \A x \in T : T \ {x} \in P PROVE T \in P
      <3>1. pick(T) \in T /\ pick(T) \in X BY <1>6, <2>2
      <3>2. iter[T \ {pick(T)}] \in A BY <2>2, <3>1
      <3>3. iter[T] = TakeOver(iter[T \ {pick(T)}], pick(T), s) BY <1>8, <2>2
      <3>4. QED BY <1>4, <3>1, <3>2, <3>3
    <2> HIDE DEF P
    <2>3. \A T \in SUBSET X : T \in P BY <1>5, <2>1, <2>2, SubsetInduction
    <2>4. QED BY <2>3 DEF P
  <1>10. TakesOver(iter, X, rels, s)
    <2>1. iter[{}] = rels BY <1>8
    <2>2. ASSUME NEW T \in SUBSET X, T # {} PROVE \E x \in T : iter[T] = TakeOver(iter[T \ {x}], x, s)
      BY <1>6, <1>8, <2>2
    <2>3. QED BY <2>1, <2>2 DEF TakesOver
  <1>11. QED BY <1>1, <1>9, <1>10 DEF A

\* The relations after all of X; every relation of an original but those between
\* originals is there, of the summary.
Summarised(rels, X, s) == FoldSet(LAMBDA m, a : TakeOver(a, m, s), rels, X)

LEMMA SummaryTakesAll ==
    ASSUME NEW E, E \subseteq Ids, NEW rels, GraphInv(rels, E), NEW X, X \subseteq Ids, NEW s \in E,
           NEW r \in rels, r.active, s \notin X, s \notin {r.source, r.target},
           ~(r.source \in X /\ r.target \in X), r.source # r.target
    PROVE  Linked(Summarised(rels, X, s),
                  IF r.source \in X THEN s ELSE r.source, IF r.target \in X THEN s ELSE r.target, r.type)
  <1>1. PICK f : /\ f[X] = FoldSet(LAMBDA m, a : TakeOver(a, m, s), rels, X)
                 /\ TakesOver(f, X, rels, s)
                 /\ \A T \in SUBSET X : GraphInv(f[T], E)
    BY TakeOverAll
  <1> DEFINE to(x, T) == IF x \in T THEN s ELSE x
             P == {T \in SUBSET X : Linked(f[T], to(r.source, T), to(r.target, T), r.type)}
  <1>2. {} \in P
    <2>1. f[{}] = rels BY <1>1 DEF TakesOver
    <2>2. QED BY <2>1 DEF Linked, SameKey
  <1>3. ASSUME NEW T \in SUBSET X, T # {}, \A x \in T : T \ {x} \in P PROVE T \in P
    <2>1. PICK x \in T : f[T] = TakeOver(f[T \ {x}], x, s) BY <1>1, <1>3 DEF TakesOver
    <2>2. Linked(f[T \ {x}], to(r.source, T \ {x}), to(r.target, T \ {x}), r.type)
      BY <1>3
    <2>3. /\ Moved(to(r.source, T \ {x}), x, s) = to(r.source, T)
          /\ Moved(to(r.target, T \ {x}), x, s) = to(r.target, T)
          /\ to(r.source, T) # to(r.target, T)
      BY DEF Moved
    <2>4. f[T \ {x}] \subseteq Relation BY <1>1 DEF GraphInv, RelationOn
    <2> HIDE DEF to
    <2>5. Linked(f[T], to(r.source, T), to(r.target, T), r.type)
      BY <2>1, <2>2, <2>3, <2>4, TakeOverKeeps
    <2>6. QED BY <2>5
  <1>4. X \in P
    <2>1. IsFiniteSet(X) BY RelationAssumption, FS_Subset
    <2> HIDE DEF P
    <2>2. \A T \in SUBSET X : T \in P BY <1>2, <1>3, <2>1, SubsetInduction
    <2>3. QED BY <2>2
  <1>5. f[X] = Summarised(rels, X, s) BY <1>1 DEF Summarised
  <1>6. QED BY <1>4, <1>5

-----------------------------------------------------------------------------
(***************************************************************************)
(* The calls of embed.  A queue or a batch holds calls that wait, each once *)
(* and each beside its text; every call that waits is held by the queue or  *)
(* by one batch.                                                            *)
(***************************************************************************)
CallType == [text : Texts \cup {"none"}, answer : Vector \cup {Null, Waiting, Unasked}]
Held(resolvers) == {resolvers[i] : i \in DOMAIN resolvers}

Holds(texts, resolvers, calls) ==
    /\ texts \in Seq(Texts) /\ resolvers \in Seq(Calls) /\ Len(texts) = Len(resolvers)
    /\ \A i, j \in DOMAIN resolvers : resolvers[i] = resolvers[j] => i = j
    /\ \A i \in DOMAIN resolvers : /\ calls[resolvers[i]].text = texts[i]
                                   /\ calls[resolvers[i]].answer = Waiting

Apart(bs, resolvers) ==
    /\ \A b \in bs : Held(b.resolvers) \cap Held(resolvers) = {}
    /\ \A b, d \in bs : b # d => Held(b.resolvers) \cap Held(d.resolvers) = {}

Accounts(texts, resolvers, bs, calls) ==
    /\ Holds(texts, resolvers, calls)
    /\ \A b \in bs : Holds(b.texts, b.resolvers, calls)
    /\ Apart(bs, resolvers)
    /\ \A c \in Calls : calls[c].answer = Waiting =>
         c \in Held(resolvers) \/ \E b \in bs : c \in Held(b.resolvers)

\* The vector of this text, or one that moved up behind a short chunk.
Fits(answer, text) == answer.of = text \/ (answer.kind = "openai" /\ answer.after)

Match(calls) == \A c \in Calls : calls[c].answer \in Vector => Fits(calls[c].answer, calls[c].text)

\* These calls are answered, each with null or a vector that fits its text, and
\* no other call changes.
Answers(calls, new, H) ==
    /\ new \in [Calls -> CallType]
    /\ \A c \in Calls \ H : new[c] = calls[c]
    /\ \A c \in Calls \cap H : /\ new[c].text = calls[c].text
                               /\ new[c].answer \in Vector \cup {Null}
                               /\ new[c].answer \in Vector => Fits(new[c].answer, new[c].text)

LEMMA NotAVector == {Null, Waiting, Unasked} \cap Vector = {} /\ Null # Waiting /\ Null # Unasked /\ Waiting # Unasked
  BY DEF Null, Waiting, Unasked, Vector

LEMMA HoldsElsewhere ==
    ASSUME NEW texts, NEW resolvers, NEW calls, Holds(texts, resolvers, calls),
           NEW new, \A c \in Held(resolvers) : new[c] = calls[c]
    PROVE  Holds(texts, resolvers, new)
  BY DEF Holds, Held

\* An answer is null where none is given, and else the vector given.
LEMMA SettledNull ==
    ASSUME NEW calls \in [Calls -> CallType], NEW resolvers
    PROVE  Answers(calls, Settled(calls, resolvers, <<>>), Held(resolvers))
  <1> DEFINE new == Settled(calls, resolvers, <<>>)
  <1>1. ASSUME NEW c \in Calls, c \notin Held(resolvers) PROVE new[c] = calls[c]
    BY <1>1 DEF Settled, Held
  <1>2. ASSUME NEW c \in Calls, c \in Held(resolvers) PROVE new[c] = [calls[c] EXCEPT !.answer = Null]
    <2>1. \E i \in DOMAIN resolvers : resolvers[i] = c BY <1>2 DEF Held
    <2>2. DOMAIN <<>> = {} OBVIOUS
    <2>3. QED BY <2>1, <2>2 DEF Settled
  <1>3. DOMAIN new = Calls /\ new = [c \in Calls |-> new[c]] BY DEF Settled
  <1> HIDE DEF new
  <1>4. \A c \in Calls : new[c] \in CallType
    BY <1>1, <1>2 DEF CallType
  <1>5. new \in [Calls -> CallType] BY <1>3, <1>4
  <1>6. \A c \in Calls \cap Held(resolvers) : new[c].text = calls[c].text /\ new[c].answer = Null
    BY <1>2 DEF CallType
  <1>7. Answers(calls, new, Held(resolvers)) BY <1>1, <1>5, <1>6, NotAVector DEF Answers
  <1>8. QED BY <1>7 DEF new

\* A finite set of naturals has a member with k before it, for each k less than
\* its size.
LEMMA NthMember ==
    ASSUME NEW S, S \subseteq Nat, IsFiniteSet(S), NEW k \in Nat, k < Cardinality(S)
    PROVE  \E c \in S : Cardinality({d \in S : d < c}) = k
  <1> DEFINE n == Cardinality(S)
             Before(c) == {d \in S : d < c}
             P == {j \in 0..k : \E c \in S : Cardinality(Before(c)) = j}
  <1>1. n \in Nat BY FS_CardinalityType
  <1>2. 0 \in P
    <2>1. S # {} BY FS_EmptySet
    <2>2. PICK c \in S : \A d \in S : c <= d BY <2>1, LeastNatural
    <2>3. ASSUME NEW d \in S, d < c PROVE FALSE
      <3>1. c \in Nat /\ d \in Nat /\ c <= d BY <2>2
      <3>2. QED BY <2>3, <3>1
    <2>4. Before(c) = {} BY <2>3
    <2>5. Cardinality(Before(c)) = 0 BY <2>4, FS_EmptySet
    <2>6. 0 \in 0..k OBVIOUS
    <2> HIDE DEF Before
    <2>7. QED BY <2>2, <2>5, <2>6
  <1>3. ASSUME NEW j \in 0..k, j \in P, j + 1 \in 0..k PROVE j + 1 \in P
    <2>1. PICK c \in S : Cardinality(Before(c)) = j BY <1>3
    <2> DEFINE upTo == Before(c) \cup {c}
    <2>2. IsFiniteSet(Before(c)) BY FS_Subset
    <2>3. c \notin Before(c)
      <3>1. c \in Nat OBVIOUS
      <3>2. QED BY <3>1
    <2>4. Cardinality(upTo) = j + 1 BY <2>1, <2>2, <2>3, FS_AddElement
    <2>5. S \ upTo # {}
      <3>1. ASSUME S \subseteq upTo PROVE FALSE
        <4>1. S = upTo BY <3>1
        <4>2. Cardinality(S) = j + 1 BY <2>4, <4>1
        <4>3. QED BY <1>3, <4>2
      <3>2. QED BY <3>1
    <2>6. PICK e \in S \ upTo : \A d \in S \ upTo : e <= d
      BY <2>5, LeastNatural
    <2>7. Before(e) = upTo
      <3>1. c \in Nat /\ e \in Nat /\ \A d \in S : d \in Nat OBVIOUS
      <3>2. ASSUME NEW d \in S, d < e PROVE d \in upTo BY <2>6, <3>1, <3>2
      <3>3. c < e BY <3>1, <2>6
      <3>4. ASSUME NEW d \in upTo PROVE d < e
        <4>1. d \in Nat /\ (d < c \/ d = c) BY <3>1
        <4>2. QED BY <3>1, <3>3, <4>1
      <3>5. QED BY <3>2, <3>4
    <2>8. Cardinality(Before(e)) = j + 1 BY <2>4, <2>7
    <2>9. QED BY <1>3, <2>8
  <1>4. \A j \in 0..k : j \in P
    <2> HIDE DEF P
    <2>1. QED BY <1>2, <1>3, IntervalInduction
  <1>5. QED BY <1>4

LEMMA CountedUpTo ==
    ASSUME NEW n \in Nat
    PROVE  IsFiniteSet(1..n) /\ Cardinality(1..n) = n
  <1>1. 1 \in Int /\ n \in Int OBVIOUS
  <1>2. IsFiniteSet(1..n) /\ Cardinality(1..n) = IF 1 > n THEN 0 ELSE n - 1 + 1
    BY <1>1, FS_Interval
  <1>3. QED BY <1>2

\* The vectors of a batch: none is farther from its place than a short chunk
\* before it moves it.
LEMMA ConcatenatedFits ==
    ASSUME NEW b \in Batch, objects[b.on].kind \in {"local", "openai"}, NEW given \in Given(b),
           NEW n \in DOMAIN Concatenated(b, given)
    PROVE  /\ n \in DOMAIN b.texts /\ Concatenated(b, given)[n] \in Vector
           /\ Fits(Concatenated(b, given)[n], b.texts[n])
  <1> DEFINE texts == b.texts
             kind == objects[b.on].kind
             i == Nth(given, n)
             vector == [of |-> texts[i], kind |-> kind, after |-> ~(1..(i - 1) \subseteq given)]
  <1>1. texts \in Seq(Texts) /\ Len(texts) \in Nat /\ DOMAIN texts = 1..Len(texts)
    BY LenProperties DEF Batch
  <1>2. given \subseteq 1..Len(texts) /\ (kind = "local" => given = 1..Len(texts))
    BY <1>1 DEF Given
  <1>3. /\ IsFiniteSet(given) /\ Cardinality(given) \in Nat /\ Cardinality(given) <= Len(texts)
    <2>1. IsFiniteSet(1..Len(texts)) /\ Cardinality(1..Len(texts)) = Len(texts) BY <1>1, CountedUpTo
    <2> DEFINE all == 1..Len(texts)
    <2>2. given \in SUBSET all BY <1>2
    <2> HIDE DEF all
    <2>3. IsFiniteSet(given) /\ Cardinality(given) <= Cardinality(all) BY <2>1, <2>2, FS_Subset DEF all
    <2>4. Cardinality(given) \in Nat BY <2>3, FS_CardinalityType
    <2>5. QED BY <2>1, <2>3, <2>4 DEF all
  <1>4. n \in 1..Cardinality(given) /\ Concatenated(b, given)[n] = vector
    BY Zenon DEF Concatenated
  <1> HIDE DEF i, texts, kind, vector
  <1>5. i \in given /\ Cardinality({j \in given : j < i}) = n - 1
    <2>1. n - 1 \in Nat /\ n - 1 < Cardinality(given) /\ given \subseteq Nat BY <1>2, <1>3, <1>4
    <2>2. \E c \in given : Cardinality({j \in given : j < c}) = n - 1 BY <1>3, <2>1, NthMember
    <2>3. QED BY <2>2, Zenon DEF i, Nth
  <1>6. i \in 1..Len(texts) /\ i \in Nat /\ texts[i] \in Texts BY <1>1, <1>2, <1>5
  <1>7. ASSUME 1..(i - 1) \subseteq given PROVE i = n
    <2>1. {j \in given : j < i} = 1..(i - 1)
      <3>1. ASSUME NEW j \in given, j < i PROVE j \in 1..(i - 1)
        <4>1. j \in 1..Len(texts) BY <1>2
        <4>2. QED BY <1>1, <1>6, <3>1, <4>1
      <3>2. \A j \in 1..(i - 1) : j \in given /\ j < i BY <1>6, <1>7
      <3>3. QED BY <3>1, <3>2
    <2>2. Cardinality(1..(i - 1)) = i - 1
      <3>1. i - 1 \in Nat BY <1>6
      <3>2. QED BY <3>1, CountedUpTo
    <2>3. i - 1 = n - 1 BY <1>5, <2>1, <2>2
    <2>4. QED BY <1>3, <1>4, <1>6, <2>3
  <1>8. kind = "local" => 1..(i - 1) \subseteq given BY <1>2, <1>6
  <1>9. vector \in Vector /\ Fits(vector, texts[n])
    <2>1. vector = [of |-> texts[i], kind |-> kind, after |-> ~(1..(i - 1) \subseteq given)]
      BY DEF vector
    <2>2. kind \in {"local", "openai"} BY DEF kind
    <2>3. vector \in Vector BY <1>6, <2>1, <2>2 DEF Vector
    <2>4. Fits(vector, texts[n]) BY <1>7, <1>8, <2>1, <2>2 DEF Fits
    <2>5. QED BY <2>3, <2>4
  <1>10. n \in 1..Len(texts) BY <1>1, <1>3, <1>4
  <1>11. QED BY <1>1, <1>4, <1>9, <1>10 DEF texts

LEMMA SettledBatch ==
    ASSUME NEW calls \in [Calls -> CallType], NEW texts, NEW resolvers, Holds(texts, resolvers, calls),
           NEW vectors,
           \A i \in DOMAIN vectors : /\ i \in DOMAIN texts /\ vectors[i] \in Vector
                                      /\ Fits(vectors[i], texts[i])
    PROVE  Answers(calls, Settled(calls, resolvers, vectors), Held(resolvers))
  <1> DEFINE new == Settled(calls, resolvers, vectors)
  <1>1. ASSUME NEW c \in Calls, c \notin Held(resolvers) PROVE new[c] = calls[c]
    BY <1>1 DEF Settled, Held
  <1>2. ASSUME NEW c \in Calls, c \in Held(resolvers)
        PROVE  \E a \in Vector \cup {Null} : /\ new[c] = [calls[c] EXCEPT !.answer = a]
                                             /\ a \in Vector => Fits(a, calls[c].text)
    <2> DEFINE i == CHOOSE j \in DOMAIN resolvers : resolvers[j] = c
    <2>1. i \in DOMAIN resolvers /\ resolvers[i] = c BY <1>2 DEF Held
    <2>2. new[c] = [calls[c] EXCEPT !.answer = IF i \in DOMAIN vectors THEN vectors[i] ELSE Null]
      <3>1. \E j \in DOMAIN resolvers : resolvers[j] = c BY <1>2 DEF Held
      <3>2. QED BY <3>1 DEF Settled
    <2> HIDE DEF i, new
    <2>3. CASE i \in DOMAIN vectors
      <3>1. calls[c].text = texts[i] BY <2>1, <2>3 DEF Holds
      <3>2. vectors[i] \in Vector /\ Fits(vectors[i], calls[c].text) BY <2>3, <3>1
      <3>3. QED BY <2>2, <2>3, <3>2
    <2>4. CASE i \notin DOMAIN vectors
      BY <2>2, <2>4, NotAVector
    <2>5. QED BY <2>3, <2>4
  <1>3. DOMAIN new = Calls /\ new = [c \in Calls |-> new[c]] BY DEF Settled
  <1> HIDE DEF new
  <1>4. \A c \in Calls : new[c] \in CallType
    BY <1>1, <1>2 DEF CallType
  <1>5. new \in [Calls -> CallType] BY <1>3, <1>4
  <1>6. \A c \in Calls \cap Held(resolvers) :
           /\ new[c].text = calls[c].text /\ new[c].answer \in Vector \cup {Null}
           /\ new[c].answer \in Vector => Fits(new[c].answer, new[c].text)
    <2> SUFFICES ASSUME NEW c \in Calls \cap Held(resolvers)
                 PROVE  /\ new[c].text = calls[c].text /\ new[c].answer \in Vector \cup {Null}
                        /\ new[c].answer \in Vector => Fits(new[c].answer, new[c].text)
      OBVIOUS
    <2>1. PICK a \in Vector \cup {Null} : /\ new[c] = [calls[c] EXCEPT !.answer = a]
                                          /\ a \in Vector => Fits(a, calls[c].text)
      BY <1>2
    <2>2. new[c].text = calls[c].text /\ new[c].answer = a BY <2>1 DEF CallType
    <2>3. QED BY <2>1, <2>2
  <1>7. Answers(calls, new, Held(resolvers)) BY <1>1, <1>5, <1>6 DEF Answers
  <1>8. QED BY <1>7 DEF new

\* Those held by all of these batches are settled together.
LEMMA AllResolversHeld ==
    ASSUME NEW bs, \A b \in bs : b.resolvers \in Seq(Calls)
    PROVE  Held(AllResolvers(bs)) = UNION {Held(b.resolvers) : b \in bs}
  <1> DEFINE cs == {c \in Calls : \E b \in bs : \E i \in DOMAIN b.resolvers : b.resolvers[i] = c}
             s == AllResolvers(bs)
  <1>1. IsFiniteSet(cs)
    <2>1. IsFiniteSet(Calls) BY EmbeddingAssumption, FS_Interval DEF Calls
    <2>2. QED BY <2>1, FS_Subset
  <1>2. PICK f \in Bijection(1..Cardinality(cs), cs) : TRUE
    BY <1>1, FS_CardinalityType DEF ExistsBijection
  <1>3. f \in [1..Cardinality(cs) -> cs] /\ {f[i] : i \in DOMAIN f} = cs
    BY <1>2 DEF Bijection, Surjection
  <1>4. s = CHOOSE g \in [1..Cardinality(cs) -> cs] : {g[i] : i \in DOMAIN g} = cs
    BY DEF AllResolvers
  <1> HIDE DEF cs, s
  <1>5. {s[i] : i \in DOMAIN s} = cs BY <1>3, <1>4
  <1>6. cs = UNION {Held(b.resolvers) : b \in bs}
    BY DEF cs, Held
  <1>7. QED BY <1>5, <1>6 DEF Held, s

LEMMA AnswersKeepMatch ==
    ASSUME NEW calls, Match(calls), NEW H, NEW new, Answers(calls, new, H)
    PROVE  Match(new)
  BY DEF Match, Answers

LEMMA QueueSettled ==
    ASSUME NEW texts, NEW resolvers, NEW bs, NEW calls, Accounts(texts, resolvers, bs, calls),
           NEW new, Answers(calls, new, Held(resolvers))
    PROVE  Accounts(<<>>, <<>>, bs, new)
  <1>1. Holds(<<>>, <<>>, new) BY DEF Holds
  <1>2. Held(<<>>) = {} BY DEF Held
  <1>3. ASSUME NEW b \in bs PROVE Holds(b.texts, b.resolvers, new)
    <2>1. Held(b.resolvers) \cap Held(resolvers) = {} BY DEF Accounts, Apart
    <2>2. Holds(b.texts, b.resolvers, calls) BY DEF Accounts
    <2>3. Held(b.resolvers) \subseteq Calls BY <2>2 DEF Holds, Held
    <2>4. \A c \in Held(b.resolvers) : new[c] = calls[c] BY <2>1, <2>3 DEF Answers
    <2>5. QED BY <2>2, <2>4, HoldsElsewhere
  <1>4. Apart(bs, <<>>) BY <1>2 DEF Accounts, Apart
  <1>5. ASSUME NEW c \in Calls, new[c].answer = Waiting PROVE \E b \in bs : c \in Held(b.resolvers)
    <2>1. c \notin Held(resolvers) BY <1>5, NotAVector DEF Answers
    <2>2. calls[c].answer = Waiting BY <1>5, <2>1 DEF Answers
    <2>3. QED BY <2>1, <2>2 DEF Accounts
  <1>6. QED BY <1>1, <1>3, <1>4, <1>5 DEF Accounts

LEMMA BatchesSettled ==
    ASSUME NEW texts, NEW resolvers, NEW bs, NEW calls, Accounts(texts, resolvers, bs, calls),
           NEW gone, gone \subseteq bs,
           NEW new, Answers(calls, new, UNION {Held(b.resolvers) : b \in gone})
    PROVE  Accounts(texts, resolvers, bs \ gone, new)
  <1> DEFINE H == UNION {Held(b.resolvers) : b \in gone}
  <1>1. Held(resolvers) \cap H = {} BY DEF Accounts, Apart
  <1>2. \A b \in bs \ gone : Held(b.resolvers) \cap H = {} BY DEF Accounts, Apart
  <1>3. \A b \in bs : Held(b.resolvers) \subseteq Calls BY DEF Accounts, Holds, Held
  <1>4. Held(resolvers) \subseteq Calls BY DEF Accounts, Holds, Held
  <1> HIDE DEF H
  <1>5. \A c \in Calls \ H : new[c] = calls[c]
    BY DEF Answers, H
  <1>6. Holds(texts, resolvers, new)
    <2>1. Holds(texts, resolvers, calls) BY DEF Accounts
    <2>2. \A c \in Held(resolvers) : new[c] = calls[c] BY <1>1, <1>4, <1>5
    <2>3. QED BY <2>1, <2>2, HoldsElsewhere
  <1>7. ASSUME NEW b \in bs \ gone PROVE Holds(b.texts, b.resolvers, new)
    <2>1. Holds(b.texts, b.resolvers, calls) BY DEF Accounts
    <2>2. \A c \in Held(b.resolvers) : new[c] = calls[c] BY <1>2, <1>3, <1>5
    <2>3. QED BY <2>1, <2>2, HoldsElsewhere
  <1>8. Apart(bs \ gone, resolvers) BY DEF Accounts, Apart
  <1>9. ASSUME NEW c \in Calls, new[c].answer = Waiting
        PROVE  c \in Held(resolvers) \/ \E b \in bs \ gone : c \in Held(b.resolvers)
    <2>1. c \notin H BY <1>9, NotAVector DEF Answers, H
    <2>2. calls[c].answer = Waiting BY <1>5, <1>9, <2>1
    <2>3. c \in Held(resolvers) \/ \E b \in bs : c \in Held(b.resolvers) BY <2>2 DEF Accounts
    <2>4. QED BY <2>1, <2>3 DEF H
  <1>10. QED BY <1>6, <1>7, <1>8, <1>9 DEF Accounts

LEMMA QueueTaken ==
    ASSUME NEW texts, NEW resolvers, NEW bs, NEW calls, Accounts(texts, resolvers, bs, calls),
           NEW taken, taken.texts = texts, taken.resolvers = resolvers
    PROVE  Accounts(<<>>, <<>>, bs \cup {taken}, calls)
  <1>1. Holds(<<>>, <<>>, calls) BY DEF Holds
  <1>2. Held(<<>>) = {} BY DEF Held
  <1>3. \A b \in bs \cup {taken} : Holds(b.texts, b.resolvers, calls) BY DEF Accounts
  <1>4. Apart(bs \cup {taken}, <<>>) BY <1>2 DEF Accounts, Apart
  <1>5. ASSUME NEW c \in Calls, calls[c].answer = Waiting
        PROVE  \E b \in bs \cup {taken} : c \in Held(b.resolvers)
    BY <1>5 DEF Accounts
  <1>6. QED BY <1>1, <1>3, <1>4, <1>5 DEF Accounts

\* Batches go on, with what they hold.
LEMMA BatchesGoOn ==
    ASSUME NEW texts, NEW resolvers, NEW bs, NEW calls, Accounts(texts, resolvers, bs, calls),
           NEW some, some \subseteq bs, bs \subseteq [texts : Seq(Texts), resolvers : Seq(Calls), on : Nat, phase : {"setup", "embed"}]
    PROVE  Accounts(texts, resolvers, (bs \ some) \cup {[b EXCEPT !.phase = "embed"] : b \in some}, calls)
  <1> DEFINE bs2 == (bs \ some) \cup {[b EXCEPT !.phase = "embed"] : b \in some}
  <1>1. ASSUME NEW d \in bs2
        PROVE  \E b \in bs : /\ d.texts = b.texts /\ d.resolvers = b.resolvers
                             /\ d = IF b \in some THEN [b EXCEPT !.phase = "embed"] ELSE b
    <2>1. CASE d \in bs \ some BY <2>1
    <2>2. CASE d \notin bs \ some
      <3>1. PICK b \in some : d = [b EXCEPT !.phase = "embed"] BY <2>2
      <3>2. b \in bs OBVIOUS
      <3>3. d.texts = b.texts /\ d.resolvers = b.resolvers BY <3>1, <3>2
      <3>4. QED BY <3>1, <3>2, <3>3
    <2>3. QED BY <2>1, <2>2
  <1>2. ASSUME NEW b \in bs PROVE \E d \in bs2 : d.resolvers = b.resolvers
    <2>1. CASE b \in some
      <3>1. [b EXCEPT !.phase = "embed"] \in bs2 BY <2>1
      <3>2. [b EXCEPT !.phase = "embed"].resolvers = b.resolvers OBVIOUS
      <3>3. QED BY <3>1, <3>2
    <2>2. CASE b \notin some BY <2>2
    <2>3. QED BY <2>1, <2>2
  <1> HIDE DEF bs2
  <1>3. \A d \in bs2 : Holds(d.texts, d.resolvers, calls) BY <1>1 DEF Accounts
  <1>4. Apart(bs2, resolvers)
    <2>1. \A d \in bs2 : Held(d.resolvers) \cap Held(resolvers) = {} BY <1>1 DEF Accounts, Apart
    <2>2. ASSUME NEW d \in bs2, NEW e \in bs2, d # e PROVE Held(d.resolvers) \cap Held(e.resolvers) = {}
      <3>1. PICK b \in bs : /\ d.resolvers = b.resolvers
                            /\ d = IF b \in some THEN [b EXCEPT !.phase = "embed"] ELSE b
        BY <1>1
      <3>2. PICK c \in bs : /\ e.resolvers = c.resolvers
                            /\ e = IF c \in some THEN [c EXCEPT !.phase = "embed"] ELSE c
        BY <1>1
      <3>3. b # c BY <2>2, <3>1, <3>2
      <3>4. QED BY <3>1, <3>2, <3>3 DEF Accounts, Apart
    <2>3. QED BY <2>1, <2>2 DEF Apart
  <1>5. ASSUME NEW c \in Calls, calls[c].answer = Waiting
        PROVE  c \in Held(resolvers) \/ \E b \in bs2 : c \in Held(b.resolvers)
    <2>1. c \in Held(resolvers) \/ \E b \in bs : c \in Held(b.resolvers) BY <1>5 DEF Accounts
    <2>2. QED BY <1>2, <2>1
  <1>6. Accounts(texts, resolvers, bs2, calls) BY <1>3, <1>4, <1>5 DEF Accounts
  <1>7. QED BY <1>6 DEF bs2

\* The rest of a sequence, without its first k elements.
LEMMA DropProperties ==
    ASSUME NEW S, NEW s \in Seq(S), NEW k \in 0..Len(s)
    PROVE  /\ Drop(s, k) \in Seq(S) /\ Len(Drop(s, k)) = Len(s) - k
           /\ DOMAIN Drop(s, k) = 1..(Len(s) - k)
           /\ \A i \in 1..(Len(s) - k) : Drop(s, k)[i] = s[k + i]
  <1>1. Len(s) \in Nat /\ k \in Nat /\ k <= Len(s) OBVIOUS
  <1>2. \A i \in (k + 1)..Len(s) : s[i] \in S BY <1>1
  <1>3. Drop(s, k) \in Seq(S) BY <1>1, <1>2, SubSeqProperties DEF Drop
  <1>4. Len(Drop(s, k)) = IF k + 1 <= Len(s) THEN Len(s) - (k + 1) + 1 ELSE 0
    BY <1>1, <1>2, SubSeqProperties DEF Drop
  <1>5. Len(Drop(s, k)) = Len(s) - k BY <1>1, <1>4
  <1>6. DOMAIN Drop(s, k) = 1..(Len(s) - k) BY <1>3, <1>5, LenProperties
  <1>7. \A i \in 1..(Len(s) - (k + 1) + 1) : Drop(s, k)[i] = s[(k + 1) + i - 1]
    BY <1>1, <1>2, SubSeqProperties DEF Drop
  <1>8. ASSUME NEW i \in 1..(Len(s) - k) PROVE Drop(s, k)[i] = s[k + i]
    <2>1. i \in 1..(Len(s) - (k + 1) + 1) /\ (k + 1) + i - 1 = k + i BY <1>1
    <2>2. QED BY <1>7, <2>1
  <1>9. QED BY <1>3, <1>5, <1>6, <1>8

LEMMA OldestDropped ==
    ASSUME NEW texts, NEW resolvers, NEW bs, NEW calls, Accounts(texts, resolvers, bs, calls),
           NEW k \in 0..Len(texts), NEW new, Answers(calls, new, Held(SubSeq(resolvers, 1, k)))
    PROVE  Accounts(Drop(texts, k), Drop(resolvers, k), bs, new)
  <1> DEFINE first == SubSeq(resolvers, 1, k)
             rest == Drop(resolvers, k)
             n == Len(resolvers)
  <1>1. /\ texts \in Seq(Texts) /\ resolvers \in Seq(Calls) /\ Len(texts) = n /\ n \in Nat
        /\ DOMAIN resolvers = 1..n /\ k \in 0..n
    BY DEF Accounts, Holds
  <1>2. first \in Seq(Calls) /\ Len(first) = k /\ \A i \in 1..k : first[i] = resolvers[i]
    <2>1. \A i \in 1..k : resolvers[i] \in Calls BY <1>1
    <2>2. /\ first \in Seq(Calls) /\ Len(first) = (IF 1 <= k THEN k - 1 + 1 ELSE 0)
          /\ \A i \in 1..(k - 1 + 1) : first[i] = resolvers[1 + i - 1]
      BY <1>1, <2>1, SubSeqProperties
    <2>3. \A i \in 1..k : i \in 1..(k - 1 + 1) /\ 1 + i - 1 = i BY <1>1
    <2>4. (IF 1 <= k THEN k - 1 + 1 ELSE 0) = k BY <1>1
    <2> HIDE DEF first
    <2>5. QED BY <2>2, <2>3, <2>4
  <1>3. /\ rest \in Seq(Calls) /\ Len(rest) = n - k /\ DOMAIN rest = 1..(n - k)
        /\ \A i \in 1..(n - k) : rest[i] = resolvers[k + i]
    BY <1>1, DropProperties
  <1>4. /\ Drop(texts, k) \in Seq(Texts) /\ Len(Drop(texts, k)) = n - k
        /\ \A i \in 1..(n - k) : Drop(texts, k)[i] = texts[k + i]
    BY <1>1, DropProperties
  <1>5. \A i, j \in DOMAIN resolvers : resolvers[i] = resolvers[j] => i = j
    BY DEF Accounts, Holds
  <1> HIDE DEF first, rest, n
  <1>6. Held(first) \cap Held(rest) = {} /\ Held(resolvers) = Held(first) \cup Held(rest)
    <2>1. DOMAIN first = 1..k BY <1>2
    <2>2. ASSUME NEW i \in 1..k, NEW j \in 1..(n - k) PROVE first[i] # rest[j]
      <3>1. i \in DOMAIN resolvers /\ k + j \in DOMAIN resolvers /\ i # k + j BY <1>1
      <3>2. QED BY <1>2, <1>3, <1>5, <3>1
    <2>3. Held(first) \subseteq Held(resolvers)
      <3>1. \A i \in 1..k : i \in DOMAIN resolvers BY <1>1
      <3>2. QED BY <1>2, <2>1, <3>1 DEF Held
    <2>4. Held(rest) \subseteq Held(resolvers)
      <3>1. \A i \in 1..(n - k) : k + i \in DOMAIN resolvers BY <1>1
      <3>2. QED BY <1>3, <3>1 DEF Held
    <2>5. ASSUME NEW i \in DOMAIN resolvers PROVE resolvers[i] \in Held(first) \cup Held(rest)
      <3>1. CASE i <= k
        <4>1. i \in 1..k BY <1>1, <3>1
        <4>2. QED BY <1>2, <2>1, <4>1 DEF Held
      <3>2. CASE ~(i <= k)
        <4>1. i - k \in 1..(n - k) /\ k + (i - k) = i BY <1>1, <3>2
        <4>2. rest[i - k] = resolvers[i] BY <1>3, <4>1
        <4>3. QED BY <1>3, <4>1, <4>2 DEF Held
      <3>3. QED BY <3>1, <3>2
    <2>6. ASSUME NEW c \in Held(first), c \in Held(rest) PROVE FALSE
      <3>1. PICK i \in 1..k : c = first[i] BY <2>1 DEF Held
      <3>2. PICK j \in 1..(n - k) : c = rest[j] BY <1>3, <2>6 DEF Held
      <3>3. QED BY <2>2, <3>1, <3>2
    <2>7. Held(resolvers) \subseteq Held(first) \cup Held(rest)
      BY <2>5 DEF Held
    <2>8. QED BY <2>3, <2>4, <2>6, <2>7
  <1>7. Answers(calls, new, Held(first)) BY DEF first
  <1>8. Held(resolvers) \subseteq Calls BY <1>1 DEF Held
  <1>9. Holds(Drop(texts, k), rest, new)
    <2>1. \A c \in Held(rest) : new[c] = calls[c] BY <1>6, <1>7, <1>8 DEF Answers
    <2>2. ASSUME NEW i \in 1..(n - k)
          PROVE  new[rest[i]].text = Drop(texts, k)[i] /\ new[rest[i]].answer = Waiting
      <3>1. k + i \in DOMAIN resolvers BY <1>1
      <3>2. calls[resolvers[k + i]].text = texts[k + i] /\ calls[resolvers[k + i]].answer = Waiting
        BY <3>1 DEF Accounts, Holds
      <3>3. rest[i] \in Held(rest) BY <1>3 DEF Held
      <3>4. QED BY <1>3, <1>4, <2>1, <3>2, <3>3
    <2>3. ASSUME NEW i \in 1..(n - k), NEW j \in 1..(n - k), rest[i] = rest[j] PROVE i = j
      <3>1. k + i \in DOMAIN resolvers /\ k + j \in DOMAIN resolvers BY <1>1
      <3>2. k + i = k + j BY <1>3, <1>5, <2>3, <3>1
      <3>3. QED BY <1>1, <3>2
    <2>4. QED BY <1>3, <1>4, <2>2, <2>3 DEF Holds
  <1>10. ASSUME NEW b \in bs PROVE Holds(b.texts, b.resolvers, new)
    <2>1. Held(b.resolvers) \cap Held(resolvers) = {} BY DEF Accounts, Apart
    <2>2. Holds(b.texts, b.resolvers, calls) BY DEF Accounts
    <2>3. Held(b.resolvers) \subseteq Calls BY <2>2 DEF Holds, Held
    <2>4. \A c \in Held(b.resolvers) : new[c] = calls[c] BY <1>6, <1>7, <2>1, <2>3 DEF Answers
    <2>5. QED BY <2>2, <2>4, HoldsElsewhere
  <1>11. Apart(bs, rest) BY <1>6 DEF Accounts, Apart
  <1>12. ASSUME NEW c \in Calls, new[c].answer = Waiting
         PROVE  c \in Held(rest) \/ \E b \in bs : c \in Held(b.resolvers)
    <2>1. c \notin Held(first) BY <1>7, <1>12, NotAVector DEF Answers
    <2>2. calls[c].answer = Waiting BY <1>7, <1>12, <2>1 DEF Answers
    <2>3. c \in Held(resolvers) \/ \E b \in bs : c \in Held(b.resolvers) BY <2>2 DEF Accounts
    <2>4. QED BY <1>6, <2>1, <2>3
  <1>13. QED BY <1>9, <1>10, <1>11, <1>12 DEF Accounts, rest

LEMMA NthIdleDiffer ==
    ASSUME NEW i \in 1..Cardinality(IdleCalls), NEW j \in 1..Cardinality(IdleCalls)
    PROVE  /\ NthIdle(i) \in IdleCalls
           /\ NthIdle(i) = NthIdle(j) => i = j
  <1>1. IdleCalls \subseteq Nat /\ IsFiniteSet(IdleCalls)
    <2>1. IsFiniteSet(Calls) BY EmbeddingAssumption, FS_Interval DEF Calls
    <2>2. IsFiniteSet(IdleCalls) BY <2>1, FS_Subset DEF IdleCalls
    <2>3. QED BY <2>2 DEF IdleCalls, Calls
  <1>2. Cardinality(IdleCalls) \in Nat BY <1>1, FS_CardinalityType
  <1>3. ASSUME NEW k \in 1..Cardinality(IdleCalls)
        PROVE  NthIdle(k) \in IdleCalls /\ Cardinality({d \in IdleCalls : d < NthIdle(k)}) = k - 1
    <2>1. k - 1 \in Nat /\ k - 1 < Cardinality(IdleCalls) BY <1>2
    <2>2. \E c \in IdleCalls : Cardinality({d \in IdleCalls : d < c}) = k - 1
      BY <1>1, <2>1, NthMember
    <2>3. QED BY <2>2 DEF NthIdle
  <1>4. NthIdle(i) = NthIdle(j) => i = j
    <2>1. i \in Nat /\ j \in Nat OBVIOUS
    <2>2. i - 1 = Cardinality({d \in IdleCalls : d < NthIdle(i)}) BY <1>3
    <2>3. j - 1 = Cardinality({d \in IdleCalls : d < NthIdle(j)}) BY <1>3
    <2>4. NthIdle(i) = NthIdle(j) => i - 1 = j - 1 BY <2>2, <2>3
    <2>5. QED BY <2>1, <2>4
  <1>5. QED BY <1>3, <1>4

\* Requests of calls that do not wait, one each.
Proper(asked, calls) ==
    /\ asked \in Seq([call : Calls, text : Texts])
    /\ \A i, j \in DOMAIN asked : asked[i].call = asked[j].call => i = j
    /\ \A i \in DOMAIN asked : calls[asked[i].call].answer = Unasked

Callers(asked) == {asked[i].call : i \in DOMAIN asked}

LEMMA AskedWait ==
    ASSUME call \in [Calls -> CallType], NEW asked, Proper(asked, call)
    PROVE  /\ Asked(asked) \in [Calls -> CallType]
           /\ \A c \in Calls \ Callers(asked) : Asked(asked)[c] = call[c]
           /\ \A i \in DOMAIN asked : Asked(asked)[asked[i].call] = [text |-> asked[i].text, answer |-> Waiting]
  <1>1. asked \in [1..Len(asked) -> [call : Calls, text : Texts]] /\ DOMAIN asked = 1..Len(asked)
    BY LenProperties DEF Proper
  <1>2. \A c \in Calls \ Callers(asked) : Asked(asked)[c] = call[c]
    BY DEF Asked, Callers
  <1>3. ASSUME NEW i \in DOMAIN asked
        PROVE  /\ asked[i].call \in Calls /\ asked[i].text \in Texts
               /\ Asked(asked)[asked[i].call] = [text |-> asked[i].text, answer |-> Waiting]
    <2> DEFINE c == asked[i].call
               a == CHOOSE x \in {asked[j] : j \in DOMAIN asked} : x.call = c
    <2>1. c \in Calls /\ asked[i].text \in Texts BY <1>1
    <2>2. a \in {asked[j] : j \in DOMAIN asked} /\ a.call = c OBVIOUS
    <2>3. PICK j \in DOMAIN asked : a = asked[j] BY <2>2
    <2>4. j = i BY <2>2, <2>3 DEF Proper
    <2>5. a.text = asked[i].text BY <2>3, <2>4
    <2>6. Asked(asked)[c] = [text |-> a.text, answer |-> Waiting]
      <3>1. \E k \in DOMAIN asked : asked[k].call = c OBVIOUS
      <3>2. QED BY <2>1, <3>1 DEF Asked
    <2>7. QED BY <2>1, <2>5, <2>6
  <1>4. Asked(asked) = [c \in Calls |-> Asked(asked)[c]] BY DEF Asked
  <1>5. \A c \in Calls : Asked(asked)[c] \in CallType
    <2>1. ASSUME NEW c \in Calls PROVE Asked(asked)[c] \in CallType
      <3>1. CASE c \in Callers(asked)
        <4>1. PICK i \in DOMAIN asked : c = asked[i].call BY <3>1 DEF Callers
        <4>2. asked[i].text \in Texts /\ Asked(asked)[c] = [text |-> asked[i].text, answer |-> Waiting]
          BY <1>3, <4>1
        <4>3. [text |-> asked[i].text, answer |-> Waiting] \in CallType BY <4>2 DEF CallType
        <4>4. QED BY <4>2, <4>3
      <3>2. CASE c \notin Callers(asked) BY <1>2, <3>2
      <3>3. QED BY <3>1, <3>2
    <2>2. QED BY <2>1
  <1>6. QED BY <1>2, <1>3, <1>4, <1>5

\* What the manager keeps, but for its providers.
QueueInv ==
    /\ call \in [Calls -> CallType]
    /\ Accounts(queueTexts, queueResolvers, batches, call)
    /\ Match(call)
    /\ timer \in BOOLEAN /\ (timer <=> queueResolvers # <<>>)
    /\ Len(queueResolvers) <= QueueLimit

\* The queue with the new requests at its end.
LEMMA AskedJoin ==
    ASSUME QueueInv, NEW asked, Proper(asked, call)
    PROVE  /\ Accounts(TextsWith(asked), ResolversWith(asked), batches, Asked(asked))
           /\ Match(Asked(asked))
           /\ Len(TextsWith(asked)) = Len(queueTexts) + Len(asked)
  <1> DEFINE calls == Asked(asked)
             texts == TextsWith(asked)
             resolvers == ResolversWith(asked)
             n == Len(queueTexts)
             m == Len(asked)
             newTexts == [i \in DOMAIN asked |-> asked[i].text]
             newResolvers == [i \in DOMAIN asked |-> asked[i].call]
  <1>1. /\ asked \in [1..m -> [call : Calls, text : Texts]] /\ DOMAIN asked = 1..m /\ m \in Nat
    BY LenProperties DEF Proper
  <1>2. Holds(queueTexts, queueResolvers, call) BY DEF QueueInv, Accounts
  <1>3. /\ queueTexts \in Seq(Texts) /\ queueResolvers \in Seq(Calls)
        /\ n \in Nat /\ Len(queueResolvers) = n /\ DOMAIN queueResolvers = 1..n
    BY <1>2, LenProperties DEF Holds
  <1>4. /\ newTexts \in Seq(Texts) /\ Len(newTexts) = m /\ newResolvers \in Seq(Calls) /\ Len(newResolvers) = m
    BY <1>1
  <1>5. /\ texts \in Seq(Texts) /\ Len(texts) = n + m
        /\ \A i \in 1..(n + m) : texts[i] = IF i <= n THEN queueTexts[i] ELSE newTexts[i - n]
    <2>1. texts = queueTexts \o newTexts BY DEF TextsWith
    <2>2. /\ queueTexts \in Seq(Texts) /\ newTexts \in Seq(Texts)
          /\ Len(queueTexts) = n /\ Len(newTexts) = m
      BY <1>3, <1>4
    <2> HIDE DEF newTexts, texts, n, m
    <2>3. texts \in Seq(Texts) /\ Len(texts) = n + m BY <2>1, <2>2, ConcatProperties
    <2>4. \A i \in 1..(n + m) : texts[i] = IF i <= n THEN queueTexts[i] ELSE newTexts[i - n]
      BY <2>1, <2>2, ConcatProperties
    <2>5. QED BY <2>3, <2>4
  <1>6. /\ resolvers \in Seq(Calls) /\ Len(resolvers) = n + m
        /\ \A i \in 1..(n + m) : resolvers[i] = IF i <= n THEN queueResolvers[i] ELSE newResolvers[i - n]
    <2>1. resolvers = queueResolvers \o newResolvers BY DEF ResolversWith
    <2>2. /\ queueResolvers \in Seq(Calls) /\ newResolvers \in Seq(Calls)
          /\ Len(queueResolvers) = n /\ Len(newResolvers) = m
      BY <1>3, <1>4
    <2> HIDE DEF newResolvers, resolvers, n, m
    <2>3. resolvers \in Seq(Calls) /\ Len(resolvers) = n + m BY <2>1, <2>2, ConcatProperties
    <2>4. \A i \in 1..(n + m) :
              resolvers[i] = IF i <= n THEN queueResolvers[i] ELSE newResolvers[i - n]
      BY <2>1, <2>2, ConcatProperties
    <2>5. QED BY <2>3, <2>4
  <1>7. DOMAIN resolvers = 1..(n + m) BY <1>6, LenProperties
  <1>8. /\ calls \in [Calls -> CallType]
        /\ \A c \in Calls \ Callers(asked) : calls[c] = call[c]
        /\ \A i \in DOMAIN asked : calls[asked[i].call] = [text |-> asked[i].text, answer |-> Waiting]
    BY AskedWait DEF QueueInv
  <1>9. \A c \in Callers(asked) : call[c].answer = Unasked BY DEF Proper, Callers
  <1>10. Callers(asked) \subseteq Calls BY <1>1 DEF Callers
  <1>11. \A i \in 1..n : queueResolvers[i] \in Calls \ Callers(asked) /\ queueResolvers[i] \in Held(queueResolvers)
    BY <1>2, <1>3, <1>9, NotAVector DEF Holds, Held
  <1>12. \A i \in 1..m : newResolvers[i] = asked[i].call /\ newTexts[i] = asked[i].text /\ asked[i].call \in Callers(asked)
    BY <1>1 DEF Callers
  <1> HIDE DEF calls, texts, resolvers, n, m, newTexts, newResolvers
  <1>13. ASSUME NEW i \in 1..(n + m)
         PROVE  \/ /\ i \in 1..n /\ resolvers[i] = queueResolvers[i] /\ texts[i] = queueTexts[i]
                \/ /\ i - n \in 1..m /\ i > n /\ resolvers[i] = asked[i - n].call /\ texts[i] = asked[i - n].text
    <2>1. CASE i <= n
      <3>1. i \in 1..n BY <1>3, <2>1
      <3>2. QED BY <1>5, <1>6, <2>1, <3>1
    <2>2. CASE ~(i <= n)
      <3>1. i - n \in 1..m /\ i > n BY <1>1, <1>3, <2>2
      <3>2. QED BY <1>5, <1>6, <1>12, <2>2, <3>1
    <2>3. QED BY <2>1, <2>2
  <1>14. Held(resolvers) = Held(queueResolvers) \cup Callers(asked)
    <2>1. ASSUME NEW i \in 1..(n + m) PROVE resolvers[i] \in Held(queueResolvers) \cup Callers(asked)
      BY <1>11, <1>12, <1>13
    <2>2. Held(resolvers) \subseteq Held(queueResolvers) \cup Callers(asked) BY <1>7, <2>1 DEF Held
    <2>3. ASSUME NEW i \in 1..n PROVE queueResolvers[i] \in Held(resolvers)
      <3>1. i \in 1..(n + m) /\ i <= n BY <1>1, <1>3
      <3>2. resolvers[i] = queueResolvers[i] BY <1>6, <3>1
      <3>3. QED BY <1>7, <3>1, <3>2 DEF Held
    <2>4. ASSUME NEW i \in 1..m PROVE asked[i].call \in Held(resolvers)
      <3>1. n + i \in 1..(n + m) /\ ~(n + i <= n) /\ (n + i) - n = i BY <1>1, <1>3
      <3>2. resolvers[n + i] = asked[i].call BY <1>6, <1>12, <3>1
      <3>3. QED BY <1>7, <3>1, <3>2 DEF Held
    <2>5. QED BY <1>1, <1>3, <2>2, <2>3, <2>4 DEF Held, Callers
  <1>15. Holds(texts, resolvers, calls)
    <2>1. ASSUME NEW i \in 1..(n + m) PROVE calls[resolvers[i]].text = texts[i] /\ calls[resolvers[i]].answer = Waiting
      <3>1. CASE i \in 1..n /\ resolvers[i] = queueResolvers[i] /\ texts[i] = queueTexts[i]
        <4>1. calls[resolvers[i]] = call[queueResolvers[i]] BY <1>8, <1>11, <3>1
        <4>2. QED BY <1>2, <1>3, <3>1, <4>1 DEF Holds
      <3>2. CASE i - n \in 1..m /\ resolvers[i] = asked[i - n].call /\ texts[i] = asked[i - n].text
        <4>1. calls[resolvers[i]] = [text |-> asked[i - n].text, answer |-> Waiting] BY <1>1, <1>8, <3>2
        <4>2. QED BY <3>2, <4>1
      <3>3. QED BY <1>13, <3>1, <3>2
    <2>2. ASSUME NEW i \in 1..(n + m), NEW j \in 1..(n + m), resolvers[i] = resolvers[j] PROVE i = j
      <3>1. CASE i \in 1..n /\ resolvers[i] = queueResolvers[i] /\ j \in 1..n /\ resolvers[j] = queueResolvers[j]
        BY <1>2, <1>3, <2>2, <3>1 DEF Holds
      <3>2. CASE i - n \in 1..m /\ resolvers[i] = asked[i - n].call /\ j - n \in 1..m /\ resolvers[j] = asked[j - n].call
        <4>1. i - n = j - n BY <1>1, <2>2, <3>2 DEF Proper
        <4>2. QED BY <1>3, <4>1
      <3>3. CASE i \in 1..n /\ resolvers[i] = queueResolvers[i] /\ j - n \in 1..m /\ resolvers[j] = asked[j - n].call
        BY <1>11, <1>12, <2>2, <3>3
      <3>4. CASE i - n \in 1..m /\ resolvers[i] = asked[i - n].call /\ j \in 1..n /\ resolvers[j] = queueResolvers[j]
        BY <1>11, <1>12, <2>2, <3>4
      <3>5. QED BY <1>13, <3>1, <3>2, <3>3, <3>4
    <2>3. QED BY <1>5, <1>6, <1>7, <2>1, <2>2 DEF Holds
  <1>16. ASSUME NEW b \in batches PROVE Holds(b.texts, b.resolvers, calls) /\ Held(b.resolvers) \cap Callers(asked) = {}
    <2>1. Holds(b.texts, b.resolvers, call) BY DEF QueueInv, Accounts
    <2>2. Held(b.resolvers) \subseteq Calls \ Callers(asked)
      BY <1>9, <2>1, NotAVector DEF Holds, Held
    <2>3. \A c \in Held(b.resolvers) : calls[c] = call[c] BY <1>8, <2>2
    <2>4. QED BY <2>1, <2>2, <2>3, HoldsElsewhere
  <1>17. Apart(batches, resolvers)
    BY <1>14, <1>16 DEF QueueInv, Accounts, Apart
  <1>18. ASSUME NEW c \in Calls, calls[c].answer = Waiting
         PROVE  c \in Held(resolvers) \/ \E b \in batches : c \in Held(b.resolvers)
    BY <1>8, <1>14, <1>18 DEF QueueInv, Accounts
  <1>19. Accounts(texts, resolvers, batches, calls) BY <1>15, <1>16, <1>17, <1>18 DEF Accounts
  <1>20. Match(calls)
    <2>1. ASSUME NEW c \in Calls, calls[c].answer \in Vector PROVE Fits(calls[c].answer, calls[c].text)
      <3>1. c \notin Callers(asked)
        <4>1. ASSUME NEW i \in DOMAIN asked, c = asked[i].call PROVE FALSE
          <5>1. calls[c] = [text |-> asked[i].text, answer |-> Waiting] BY <1>8, <4>1
          <5>2. QED BY <2>1, <5>1, NotAVector
        <4>2. QED BY <4>1 DEF Callers
      <3>2. QED BY <1>8, <2>1, <3>1 DEF QueueInv, Match
    <2>2. QED BY <2>1 DEF Match
  <1>21. QED BY <1>5, <1>19, <1>20 DEF calls, texts, resolvers, n, m

\* A call that was not asked is not held.
LEMMA UnaskedStays ==
    ASSUME NEW c \in Calls, call[c].answer = Unasked,
           NEW texts, NEW resolvers, NEW calls, Holds(texts, resolvers, calls), calls[c].answer = Unasked
    PROVE  c \notin Held(resolvers)
  BY NotAVector DEF Holds, Held

LEMMA EnqueueKeeps ==
    ASSUME QueueInv, NEW asked, Proper(asked, call), Enqueue(asked)
    PROVE  /\ QueueInv'
           /\ \A c \in Calls \ Callers(asked) : call[c].answer = Unasked => call'[c] = call[c]
  <1> DEFINE k == Overflow(asked)
             calls == Asked(asked)
             texts == TextsWith(asked)
             resolvers == ResolversWith(asked)
             first == SubSeq(resolvers, 1, k)
  <1>1. /\ Accounts(texts, resolvers, batches, calls) /\ Match(calls)
        /\ Len(texts) = Len(queueTexts) + Len(asked)
    BY AskedJoin
  <1>2. /\ calls \in [Calls -> CallType]
        /\ \A c \in Calls \ Callers(asked) : calls[c] = call[c]
    BY AskedWait DEF QueueInv
  <1>3. Len(asked) \in Nat /\ asked \in Seq([call : Calls, text : Texts]) /\ (asked # <<>> <=> Len(asked) # 0)
    BY EmptySeq, LenProperties DEF Proper
  <1>4. /\ queueTexts \in Seq(Texts) /\ queueResolvers \in Seq(Calls) /\ Len(queueTexts) \in Nat
        /\ Len(queueResolvers) = Len(queueTexts) /\ (queueResolvers # <<>> <=> Len(queueTexts) # 0)
    BY EmptySeq, LenProperties DEF QueueInv, Accounts, Holds
  <1>5. texts \in Seq(Texts) /\ resolvers \in Seq(Calls) /\ Len(resolvers) = Len(texts)
    BY <1>1 DEF Accounts, Holds
  <1>6. QueueLimit \in Nat \ {0} BY EmbeddingAssumption
  <1>7. /\ k \in 0..Len(texts) /\ Len(texts) - k <= QueueLimit
        /\ Len(texts) - k # 0 <=> Len(texts) # 0
    BY <1>1, <1>3, <1>4, <1>6 DEF Overflow
  <1>8. /\ queueTexts' = Drop(texts, k) /\ queueResolvers' = Drop(resolvers, k)
        /\ call' = Settled(calls, first, <<>>)
        /\ timer' = (timer \/ asked # <<>>) /\ batches' = batches
    BY DEF Enqueue
  <1> HIDE DEF k, calls, texts, resolvers
  <1>9. Answers(calls, call', Held(first))
    BY <1>2, <1>8, SettledNull
  <1>10. Accounts(queueTexts', queueResolvers', batches', call')
    BY <1>1, <1>7, <1>8, <1>9, OldestDropped
  <1>11. Match(call') /\ call' \in [Calls -> CallType]
    BY ZenonT(30), <1>1, <1>9, AnswersKeepMatch DEF Answers
  <1>12. Len(queueResolvers') = Len(texts) - k /\ queueResolvers' \in Seq(Calls)
    BY <1>5, <1>7, <1>8, DropProperties
  <1>13. timer' \in BOOLEAN /\ (timer' <=> queueResolvers' # <<>>)
    <2>1. queueResolvers' # <<>> <=> Len(texts) # 0
      BY <1>7, <1>12, EmptySeq
    <2>2. timer' <=> Len(queueTexts) # 0 \/ Len(asked) # 0
      BY <1>3, <1>4, <1>8 DEF QueueInv
    <2>3. Len(texts) # 0 <=> Len(queueTexts) # 0 \/ Len(asked) # 0
      BY <1>1, <1>3, <1>4
    <2>4. timer' \in BOOLEAN BY <1>8 DEF QueueInv
    <2>5. QED BY <2>1, <2>2, <2>3, <2>4
  <1>14. QueueInv'
    BY <1>7, <1>10, <1>11, <1>12, <1>13 DEF QueueInv
  <1>15. ASSUME NEW c \in Calls \ Callers(asked), call[c].answer = Unasked PROVE call'[c] = call[c]
    <2>1. calls[c] = call[c] BY <1>2
    <2>2. c \notin Held(resolvers)
      BY <1>1, <1>15, <2>1, UnaskedStays DEF Accounts
    <2>3. Held(first) \subseteq Held(resolvers)
      <3>1. \A i \in 1..k : resolvers[i] \in Calls BY <1>5, <1>7
      <3>2. /\ first \in Seq(Calls) /\ Len(first) = (IF 1 <= k THEN k - 1 + 1 ELSE 0)
            /\ \A i \in 1..(k - 1 + 1) : first[i] = resolvers[1 + i - 1]
        BY <1>7, <3>1, SubSeqProperties
      <3>3. Len(first) = k /\ k \in Nat BY <1>5, <1>7, <3>2
      <3>4. DOMAIN first = 1..k /\ DOMAIN resolvers = 1..Len(texts) BY <1>5, <3>2, <3>3, LenProperties
      <3> HIDE DEF first
      <3>5. ASSUME NEW i \in 1..k PROVE first[i] = resolvers[i] /\ i \in 1..Len(texts)
        <4>1. i \in 1..(k - 1 + 1) /\ 1 + i - 1 = i BY <3>3
        <4>2. QED BY <1>5, <1>7, <3>2, <4>1
      <3>6. QED BY <3>4, <3>5 DEF Held
    <2>4. QED BY <1>9, <2>1, <2>2, <2>3 DEF Answers
  <1>16. QED BY <1>14, <1>15

-----------------------------------------------------------------------------
\* The providers, and the batches that go to them.
ProvidersOK ==
    /\ config \in Kinds \cup {"none"} /\ disturbed \in 0..MaxDisturbed
    /\ objects \in Seq(Object)
    /\ provider \in 0..Len(objects) /\ initializing \in 0..Len(objects)
    /\ initialized \in BOOLEAN
    /\ \A b \in batches : b \in Batch /\ b.on \in 1..Len(objects)

ManagerInv == QueueInv /\ ProvidersOK

\* What the manager does by itself leaves the calls that were not asked.
Undisturbed == \A c \in Calls : call[c].answer = Unasked => call'[c] = call[c]

LEMMA DisposedObjects ==
    ASSUME NEW objs \in Seq(Object), NEW p \in 0..Len(objs)
    PROVE  Disposed(objs, p) \in Seq(Object) /\ Len(Disposed(objs, p)) = Len(objs)
  <1>1. CASE p = 0 BY <1>1 DEF Disposed
  <1>2. CASE p # 0
    <2>1. p \in 1..Len(objs) /\ objs[p] \in Object BY <1>2
    <2>2. [objs[p] EXCEPT !.stage = "disposed"] \in Object BY <2>1 DEF Object
    <2>3. Disposed(objs, p) = [objs EXCEPT ![p] = [objs[p] EXCEPT !.stage = "disposed"]]
      BY <1>2 DEF Disposed
    <2>4. QED BY <2>1, <2>2, <2>3, ExceptSeq
  <1>3. QED BY <1>1, <1>2

\* The calls held by a queue or some batches are answered: those not asked are
\* not among them.
LEMMA AnswersUndisturbed ==
    ASSUME QueueInv, NEW gone, gone \subseteq batches,
           \/ Answers(call, call', Held(queueResolvers))
           \/ Answers(call, call', UNION {Held(b.resolvers) : b \in gone})
    PROVE  Undisturbed
  <1>1. \A c \in Calls : call[c].answer = Unasked => c \notin Held(queueResolvers)
    BY UnaskedStays DEF QueueInv, Accounts
  <1>2. \A b \in gone : \A c \in Calls : call[c].answer = Unasked => c \notin Held(b.resolvers)
    BY UnaskedStays DEF QueueInv, Accounts
  <1>3. QED BY <1>1, <1>2 DEF Answers, Undisturbed

\* The queue is empty, and those it held are answered null.
LEMMA QueueGivenUp ==
    ASSUME QueueInv, queueTexts' = <<>>, queueResolvers' = <<>>, timer' = FALSE,
           call' = Settled(call, queueResolvers, <<>>), batches' = batches
    PROVE  QueueInv' /\ Undisturbed
  <1>1. Answers(call, call', Held(queueResolvers)) BY SettledNull DEF QueueInv
  <1>2. Accounts(queueTexts', queueResolvers', batches', call')
    BY <1>1, QueueSettled DEF QueueInv
  <1>3. Match(call') /\ call' \in [Calls -> CallType]
    <2>1. Match(call') BY <1>1, AnswersKeepMatch DEF QueueInv
    <2>2. QED BY <1>1, <2>1 DEF Answers
  <1>4. Undisturbed BY <1>1, AnswersUndisturbed
  <1>5. Len(queueResolvers') <= QueueLimit /\ timer' \in BOOLEAN /\ (timer' <=> queueResolvers' # <<>>)
    <2>1. Len(queueResolvers') = 0 BY EmptySeq
    <2>2. Len(queueResolvers') <= QueueLimit BY <2>1, EmbeddingAssumption
    <2>3. timer' \in BOOLEAN /\ (timer' <=> queueResolvers' # <<>>) OBVIOUS
    <2>4. QED BY <2>2, <2>3
  <1>6. QueueInv' BY <1>2, <1>3, <1>5 DEF QueueInv
  <1>7. QED BY <1>4, <1>6

\* The queue is empty, and what it held is in a batch.
LEMMA QueueHandedOn ==
    ASSUME QueueInv, queueTexts' = <<>>, queueResolvers' = <<>>, timer' = FALSE,
           NEW p, NEW phase, batches' = batches \cup {Taken(p, phase)}, call' = call
    PROVE  QueueInv' /\ Undisturbed
  <1>1. Accounts(queueTexts', queueResolvers', batches', call')
    BY QueueTaken DEF QueueInv, Taken
  <1>2. Len(queueResolvers') <= QueueLimit /\ timer' \in BOOLEAN /\ (timer' <=> queueResolvers' # <<>>)
    <2>1. Len(queueResolvers') = 0 BY EmptySeq
    <2>2. Len(queueResolvers') <= QueueLimit BY <2>1, EmbeddingAssumption
    <2>3. timer' \in BOOLEAN /\ (timer' <=> queueResolvers' # <<>>) OBVIOUS
    <2>4. QED BY <2>2, <2>3
  <1>3. QueueInv' BY <1>1, <1>2 DEF QueueInv
  <1>4. QED BY <1>3 DEF Undisturbed

LEMMA TakenIsBatch ==
    ASSUME QueueInv, NEW p \in Nat, NEW phase \in {"setup", "embed"}
    PROVE  Taken(p, phase) \in Batch /\ Taken(p, phase).on = p
  BY DEF Taken, Batch, QueueInv, Accounts, Holds

LEMMA ResetKeeps ==
    ASSUME ManagerInv, Reset, disturbed' \in 0..MaxDisturbed, config' \in Kinds \cup {"none"}
    PROVE  ManagerInv' /\ Undisturbed
  <1>1. QueueInv' /\ Undisturbed BY QueueGivenUp DEF ManagerInv, Reset
  <1>2. objects' \in Seq(Object) /\ Len(objects') = Len(objects)
    BY DisposedObjects DEF ManagerInv, ProvidersOK, Reset
  <1>3. Len(objects') \in Nat BY <1>2, LenProperties
  <1>4. provider' = 0 /\ initialized' = FALSE /\ initializing' = 0 /\ batches' = batches
    BY DEF Reset
  <1>5. \A b \in batches' : b \in Batch /\ b.on \in 1..Len(objects')
    BY <1>2, <1>4 DEF ManagerInv, ProvidersOK
  <1>6. ProvidersOK'
    <2>1. provider' \in 0..Len(objects') /\ initializing' \in 0..Len(objects') BY <1>3, <1>4
    <2>2. initialized' \in BOOLEAN BY <1>4
    <2>3. objects' \in Seq(Object) BY <1>2
    <2>4. QED BY <1>5, <2>1, <2>2, <2>3 DEF ProvidersOK
  <1>7. QED BY <1>1, <1>6 DEF ManagerInv

\* A flush hands the queue to a provider of these objects, or gives it up.
LEMMA HandedTo ==
    ASSUME ManagerInv, queueTexts' = <<>>, queueResolvers' = <<>>, timer' = FALSE,
           NEW objs \in Seq(Object), NEW p \in 0..Len(objs), HandTo(objs, p)
    PROVE  /\ QueueInv' /\ Undisturbed
           /\ \A b \in batches' : b \in batches \/ (b \in Batch /\ b.on = p /\ p # 0)
  <1>1. CASE Ready(objs, p)
    <2>1. batches' = batches \cup {Taken(p, "embed")} /\ call' = call BY <1>1 DEF HandTo
    <2>2. Taken(p, "embed") \in Batch /\ Taken(p, "embed").on = p BY TakenIsBatch DEF ManagerInv
    <2>3. p # 0 BY <1>1 DEF Ready
    <2>4. QueueInv' /\ Undisturbed BY <2>1, QueueHandedOn DEF ManagerInv
    <2>5. \A b \in batches' : b \in batches \/ (b \in Batch /\ b.on = p /\ p # 0) BY <2>1, <2>2, <2>3
    <2>6. QED BY <2>4, <2>5
  <1>2. CASE ~Ready(objs, p)
    <2>1. batches' = batches /\ call' = Settled(call, queueResolvers, <<>>) BY <1>2 DEF HandTo
    <2>2. QueueInv' /\ Undisturbed BY <2>1, QueueGivenUp DEF ManagerInv
    <2>3. \A b \in batches' : b \in batches BY <2>1
    <2>4. QED BY <2>2, <2>3
  <1>3. QED BY <1>1, <1>2

LEMMA FlushKeeps ==
    ASSUME ManagerInv, Flush
    PROVE  ManagerInv' /\ Undisturbed
  <1> USE DEF ManagerInv
  <1>1. queueTexts' = <<>> /\ queueResolvers' = <<>> /\ timer' = FALSE /\ UNCHANGED <<config, disturbed>>
    BY DEF Flush
  <1>2. objects \in Seq(Object) /\ Len(objects) \in Nat /\ provider \in 0..Len(objects) /\ initializing \in 0..Len(objects)
    BY LenProperties DEF ProvidersOK
  <1> DEFINE p == Len(objects) + 1
             created(stage) == Append(objects, [kind |-> config, stage |-> stage])
  <1>3. ASSUME NEW stage \in {"loading", "live"}, config \in {"local", "openai"}
        PROVE  created(stage) \in Seq(Object) /\ Len(created(stage)) = p
    <2>1. [kind |-> config, stage |-> stage] \in Object BY <1>3 DEF Object
    <2>2. QED BY <1>2, <2>1
  <1> HIDE DEF created
  <1>4. CASE initialized /\ HandTo(objects, provider) /\ UNCHANGED <<provider, initialized, initializing, objects>>
    <2>1. /\ QueueInv' /\ Undisturbed
          /\ \A b \in batches' : b \in batches \/ (b \in Batch /\ b.on = provider /\ provider # 0)
      BY <1>1, <1>2, <1>4, HandedTo
    <2>2. ProvidersOK' BY <1>1, <1>2, <1>4, <2>1 DEF ProvidersOK
    <2>3. QED BY <2>1, <2>2
  <1>5. CASE /\ initializing # 0 /\ batches' = batches \cup {Taken(initializing, "setup")}
             /\ UNCHANGED <<provider, initialized, initializing, objects, call>>
    <2>1. QueueInv' /\ Undisturbed BY <1>1, <1>5, QueueHandedOn
    <2>2. Taken(initializing, "setup") \in Batch /\ Taken(initializing, "setup").on = initializing
      BY <1>2, TakenIsBatch
    <2>3. ProvidersOK' BY <1>1, <1>2, <1>5, <2>2 DEF ProvidersOK
    <2>4. QED BY <2>1, <2>3
  <1>6. CASE /\ config = "local" /\ objects' = created("loading") /\ initializing' = p
             /\ batches' = batches \cup {Taken(p, "setup")} /\ UNCHANGED <<provider, initialized, call>>
    <2>1. QueueInv' /\ Undisturbed BY <1>1, <1>6, QueueHandedOn
    <2>2. Taken(p, "setup") \in Batch /\ Taken(p, "setup").on = p BY <1>2, TakenIsBatch
    <2>3. objects' \in Seq(Object) /\ Len(objects') = Len(objects) + 1 BY <1>3, <1>6
    <2>4. ProvidersOK' BY <1>1, <1>2, <1>6, <2>2, <2>3 DEF ProvidersOK
    <2>5. QED BY <2>1, <2>4
  <1>7. CASE /\ config = "openai" /\ objects' = created("live") /\ provider' = p /\ initialized' = TRUE
             /\ HandTo(objects', p) /\ UNCHANGED initializing
    <2>1. objects' \in Seq(Object) /\ Len(objects') = Len(objects) + 1 BY <1>3, <1>7
    <2>2. p \in 0..Len(objects') BY <1>2, <2>1
    <2>3. /\ QueueInv' /\ Undisturbed
          /\ \A b \in batches' : b \in batches \/ (b \in Batch /\ b.on = p /\ p # 0)
      BY <1>1, <1>7, <2>1, <2>2, HandedTo
    <2>4. ProvidersOK' BY <1>1, <1>2, <1>7, <2>1, <2>3 DEF ProvidersOK
    <2>5. QED BY <2>3, <2>4
  <1>8. CASE provider' = 0 /\ initialized' = TRUE /\ HandTo(objects, 0) /\ UNCHANGED <<objects, initializing>>
    <2>1. /\ QueueInv' /\ Undisturbed
          /\ \A b \in batches' : b \in batches \/ (b \in Batch /\ b.on = 0 /\ 0 # 0)
      <3>1. 0 \in 0..Len(objects) BY <1>2
      <3>2. QED BY <1>1, <1>2, <1>8, <3>1, HandedTo
    <2>2. batches' \subseteq batches BY <2>1
    <2>3. provider' \in 0..Len(objects') /\ initializing' \in 0..Len(objects') BY <1>2, <1>8
    <2>4. ProvidersOK' BY <1>1, <1>2, <1>8, <2>2, <2>3 DEF ProvidersOK
    <2>5. QED BY <2>1, <2>4
  <1>9. QED BY <1>4, <1>5, <1>6, <1>7, <1>8 DEF Flush, SetUp, created

LEMMA SetUpSucceedsKeeps ==
    ASSUME ManagerInv, NEW p \in DOMAIN objects, SetUpSucceeds(p)
    PROVE  ManagerInv' /\ Undisturbed
  <1> USE DEF ManagerInv
  <1>1. objects \in Seq(Object) /\ p \in 1..Len(objects) /\ objects[p] \in Object
    BY LenProperties, ElementOfSeq DEF ProvidersOK
  <1>2. objects' \in Seq(Object) /\ Len(objects') = Len(objects)
    <2>1. [objects[p] EXCEPT !.stage = "live"] \in Object BY <1>1 DEF Object
    <2>2. objects' = [objects EXCEPT ![p] = [objects[p] EXCEPT !.stage = "live"]] BY DEF SetUpSucceeds
    <2>3. QED BY <1>1, <2>1, <2>2, ExceptSeq
  <1>3. batches' = (batches \ Awaiting(p)) \cup {[b EXCEPT !.phase = "embed"] : b \in Awaiting(p)}
    BY DEF SetUpSucceeds
  <1>4. Awaiting(p) \subseteq batches BY DEF Awaiting
  <1>5. batches \subseteq Batch BY DEF ProvidersOK
  <1>6. Accounts(queueTexts, queueResolvers, batches', call)
    BY <1>3, <1>4, <1>5, BatchesGoOn DEF QueueInv, Batch
  <1>7. QueueInv' BY <1>6 DEF QueueInv, SetUpSucceeds
  <1>8. \A b \in Awaiting(p) : [b EXCEPT !.phase = "embed"] \in Batch /\ [b EXCEPT !.phase = "embed"].on = b.on
    BY <1>4, <1>5 DEF Batch
  <1>9. \A b \in batches' : b \in Batch /\ b.on \in 1..Len(objects')
    BY <1>2, <1>3, <1>4, <1>5, <1>8 DEF ProvidersOK
  <1>10. provider' \in 0..Len(objects') /\ initializing' \in 0..Len(objects') /\ initialized' = TRUE
    BY <1>1, <1>2, LenProperties DEF SetUpSucceeds
  <1>11. ProvidersOK' BY <1>2, <1>9, <1>10 DEF ProvidersOK, SetUpSucceeds
  <1>12. Undisturbed BY DEF Undisturbed, SetUpSucceeds
  <1>13. QED BY <1>7, <1>11, <1>12

LEMMA SetUpFailsKeeps ==
    ASSUME ManagerInv, NEW p \in DOMAIN objects, SetUpFails(p)
    PROVE  ManagerInv' /\ Undisturbed
  <1> USE DEF ManagerInv
  <1> DEFINE gone == Awaiting(p)
  <1>1. objects \in Seq(Object) /\ p \in 0..Len(objects)
    BY LenProperties DEF ProvidersOK
  <1>2. objects' \in Seq(Object) /\ Len(objects') = Len(objects)
    BY <1>1, DisposedObjects DEF SetUpFails
  <1>3. gone \subseteq batches /\ batches' = batches \ gone BY DEF Awaiting, SetUpFails
  <1>4. \A b \in gone : b.resolvers \in Seq(Calls) BY <1>3 DEF QueueInv, Accounts, Holds
  <1> HIDE DEF gone
  <1>5. Answers(call, call', UNION {Held(b.resolvers) : b \in gone})
    <2>1. Held(AllResolvers(gone)) = UNION {Held(b.resolvers) : b \in gone} BY <1>4, AllResolversHeld
    <2>2. call' = Settled(call, AllResolvers(gone), <<>>) BY DEF SetUpFails, gone
    <2>3. Answers(call, call', Held(AllResolvers(gone))) BY <2>2, SettledNull DEF QueueInv
    <2>4. QED BY <2>1, <2>3
  <1>6. Accounts(queueTexts, queueResolvers, batches', call')
    BY <1>3, <1>5, BatchesSettled DEF QueueInv
  <1>7. Match(call') /\ call' \in [Calls -> CallType]
    <2>1. Match(call') BY <1>5, AnswersKeepMatch DEF QueueInv
    <2>2. call' \in [Calls -> CallType] BY <1>5 DEF Answers
    <2>3. QED BY <2>1, <2>2
  <1>8. QueueInv' BY <1>6, <1>7 DEF QueueInv, SetUpFails
  <1>9. ProvidersOK'
    <2>1. Len(objects') \in Nat BY <1>2, LenProperties
    <2>2. QED BY <1>2, <1>3, <2>1 DEF ProvidersOK, SetUpFails
  <1>10. Undisturbed BY <1>3, <1>5, AnswersUndisturbed
  <1>11. QED BY <1>8, <1>9, <1>10

LEMMA BatchEndsKeeps ==
    ASSUME ManagerInv, NEW b \in batches, BatchEnds(b)
    PROVE  ManagerInv' /\ Undisturbed
  <1> USE DEF ManagerInv
  <1>1. b.resolvers \in Seq(Calls) /\ Holds(b.texts, b.resolvers, call) BY DEF QueueInv, Accounts, Holds
  <1>2. b \in Batch /\ b.on \in 1..Len(objects) /\ objects[b.on] \in Object BY ElementOfSeq DEF ProvidersOK
  <1>3. Answers(call, call', Held(b.resolvers))
    <2>1. CASE BatchAnswered(b)
      <3>1. PICK given \in Given(b) : call' = Settled(call, b.resolvers, Concatenated(b, given))
        BY <2>1 DEF BatchAnswered
      <3>2. objects[b.on].kind \in {"local", "openai"} BY <1>2 DEF Object
      <3>3. \A i \in DOMAIN Concatenated(b, given) :
               /\ i \in DOMAIN b.texts /\ Concatenated(b, given)[i] \in Vector
               /\ Fits(Concatenated(b, given)[i], b.texts[i])
        BY <1>2, <3>2, ConcatenatedFits
      <3>4. QED BY <1>1, <3>1, <3>3, SettledBatch DEF QueueInv
    <2>2. CASE BatchFails(b)
      <3>1. call' = Settled(call, b.resolvers, <<>>) BY <2>2 DEF BatchFails
      <3>2. QED BY <3>1, SettledNull DEF QueueInv
    <2>3. QED BY <2>1, <2>2 DEF BatchEnds
  <1>4. batches' = batches \ {b} /\ UNCHANGED <<queueTexts, queueResolvers, timer>>
    BY DEF BatchEnds, BatchAnswered, BatchFails
  <1>5. UNION {Held(d.resolvers) : d \in {b}} = Held(b.resolvers) OBVIOUS
  <1>6. Accounts(queueTexts, queueResolvers, batches', call')
    <2>1. Answers(call, call', UNION {Held(d.resolvers) : d \in {b}}) BY <1>3, <1>5
    <2>2. {b} \subseteq batches OBVIOUS
    <2>3. QED BY <1>4, <2>1, <2>2, BatchesSettled DEF QueueInv
  <1>7. Match(call') /\ call' \in [Calls -> CallType]
    BY <1>3, AnswersKeepMatch DEF QueueInv, Answers
  <1>8. QueueInv' BY <1>4, <1>6, <1>7 DEF QueueInv
  <1>9. ProvidersOK'
    <2>1. CASE BatchAnswered(b) BY <1>4, <2>1 DEF ProvidersOK, BatchAnswered
    <2>2. CASE BatchFails(b)
      <3>1. b.on \in 0..Len(objects) BY <1>2
      <3>2. objects' \in Seq(Object) /\ Len(objects') = Len(objects)
        BY <2>2, <3>1, DisposedObjects DEF BatchFails, ProvidersOK
      <3>3. disturbed' \in 0..MaxDisturbed
        BY <2>2, EmbeddingAssumption DEF BatchFails, Disturb, ProvidersOK
      <3>4. Len(objects) \in Nat BY LenProperties DEF ProvidersOK
      <3>5. provider' \in 0..Len(objects') /\ initializing' \in 0..Len(objects') /\ initialized' = FALSE /\ config' = config
        BY <2>2, <3>2, <3>4 DEF ProvidersOK, BatchFails
      <3>6. QED BY <1>4, <3>2, <3>3, <3>5 DEF ProvidersOK
    <2>3. QED BY <2>1, <2>2 DEF BatchEnds
  <1>10. Undisturbed
    <2>1. Answers(call, call', UNION {Held(d.resolvers) : d \in {b}}) BY <1>3, <1>5
    <2>2. {b} \subseteq batches OBVIOUS
    <2>3. QED BY <2>1, <2>2, AnswersUndisturbed
  <1>11. QED BY <1>8, <1>9, <1>10

LEMMA ManagerKeeps ==
    ASSUME ManagerInv, ManagerStep
    PROVE  ManagerInv' /\ Undisturbed
  <1>1. ASSUME Disturb PROVE disturbed' \in 0..MaxDisturbed
    BY <1>1, EmbeddingAssumption DEF Disturb, ManagerInv, ProvidersOK
  <1>2. ASSUME NEW kind \in Kinds, Configure(kind) PROVE ManagerInv' /\ Undisturbed
    BY <1>1, <1>2, ResetKeeps DEF Configure
  <1>3. ASSUME Dispose PROVE ManagerInv' /\ Undisturbed
    <2>1. config' \in Kinds \cup {"none"} BY <1>3 DEF Dispose, ManagerInv, ProvidersOK
    <2>2. QED BY <1>1, <1>3, <2>1, ResetKeeps DEF Dispose
  <1>4. ASSUME Flush PROVE ManagerInv' /\ Undisturbed BY <1>4, FlushKeeps
  <1>5. ASSUME NEW p \in DOMAIN objects, SetUpEnds(p) PROVE ManagerInv' /\ Undisturbed
    BY <1>5, SetUpSucceedsKeeps, SetUpFailsKeeps DEF SetUpEnds
  <1>6. ASSUME NEW b \in batches, BatchEnds(b) PROVE ManagerInv' /\ Undisturbed
    BY <1>6, BatchEndsKeeps
  <1>7. QED BY <1>2, <1>3, <1>4, <1>5, <1>6 DEF ManagerStep

-----------------------------------------------------------------------------
(***************************************************************************)
(* The handlers.  A call of embed is made for a memory that is stored, or  *)
(* for a recall that has read rows of its user; rows stay, with their      *)
(* owners, whatever happens while the call waits.                          *)
(***************************************************************************)
GoodTask(t, rows) ==
    /\ t \in Task
    /\ t.for = "index" => t.id \in Ids
    /\ t.for = "detect" => t.id \in Ids /\ rows[t.id] # NoRow
    /\ t.for = "recall" => t.user \in Users /\ \A m \in t.had : rows[m] # NoRow /\ rows[m].user = t.user

TasksOK ==
    /\ task \in [Calls -> Task]
    /\ \A c \in Calls : GoodTask(task[c], row) /\ (task[c] = Idle => call[c].answer = Unasked)

Continues(rows, new) ==
    /\ new \in [Ids -> RowType]
    /\ \A m \in Ids : rows[m] # NoRow => new[m] # NoRow /\ new[m].user = rows[m].user

IndexInv ==
    /\ ManagerInv
    /\ row \in [Ids -> RowType]
    /\ TasksOK
    /\ GraphInv(relations, Stored)
    /\ recalled \in [user : Users \cup {"none"}, ids : SUBSET Ids]

LEMMA IdleIsTask == Idle \in Task /\ Idle.for = "none" /\ Idle.had = {}
  BY DEF Idle, Task

LEMMA GoodTaskContinues ==
    ASSUME NEW t, NEW rows, GoodTask(t, rows), NEW new, Continues(rows, new)
    PROVE  GoodTask(t, new)
  <1>1. t.had \subseteq Ids BY DEF GoodTask, Task
  <1>2. QED BY <1>1 DEF GoodTask, Continues

\* What handlers ask for.
ReasonsOK(reasons, rows) ==
    /\ reasons \in Seq([text : Texts, task : Task])
    /\ \A i \in DOMAIN reasons : GoodTask(reasons[i].task, rows) /\ reasons[i].task.for # "none"

LEMMA AsksKeeps ==
    ASSUME IndexInv, Continues(row, row'), NEW reasons, ReasonsOK(reasons, row'), Asks(reasons)
    PROVE  ManagerInv' /\ TasksOK'
  <1> DEFINE n == Len(reasons)
             asked == [i \in DOMAIN reasons |-> [call |-> NthIdle(i), text |-> reasons[i].text]]
  <1>1. n \in Nat /\ DOMAIN reasons = 1..n /\ reasons \in [1..n -> [text : Texts, task : Task]]
    BY LenProperties DEF ReasonsOK
  <1>2. \A i \in 1..n : i \in 1..Cardinality(IdleCalls)
    <2>1. IsFiniteSet(Calls) BY EmbeddingAssumption, FS_Interval DEF Calls
    <2>2. IsFiniteSet(IdleCalls) BY <2>1, FS_Subset DEF IdleCalls
    <2>3. Cardinality(IdleCalls) \in Nat BY <2>2, FS_CardinalityType
    <2>4. n <= Cardinality(IdleCalls) BY DEF Asks
    <2>5. QED BY <1>1, <2>3, <2>4
  <1>3. \A i \in 1..n : NthIdle(i) \in IdleCalls
    BY <1>2, NthIdleDiffer
  <1>4. \A i, j \in 1..n : NthIdle(i) = NthIdle(j) => i = j
    BY <1>2, NthIdleDiffer
  <1>5. \A c \in IdleCalls : c \in Calls /\ call[c].answer = Unasked
    BY DEF IdleCalls, IndexInv, TasksOK
  <1>6. asked = [i \in 1..n |-> [call |-> NthIdle(i), text |-> reasons[i].text]]
    BY <1>1
  <1>7. \A i \in 1..n : [call |-> NthIdle(i), text |-> reasons[i].text] \in [call : Calls, text : Texts]
    BY <1>1, <1>3, <1>5
  <1>8. Enqueue(asked) BY DEF Asks
  <1> HIDE DEF asked, n
  <1>9. asked \in Seq([call : Calls, text : Texts])
    BY <1>1, <1>6, <1>7
  <1>10. DOMAIN asked = 1..n /\ \A i \in 1..n : asked[i].call = NthIdle(i)
    BY <1>6
  <1>11. Proper(asked, call)
    BY <1>3, <1>4, <1>5, <1>9, <1>10 DEF Proper
  <1>12. /\ QueueInv'
         /\ \A c \in Calls \ Callers(asked) : call[c].answer = Unasked => call'[c] = call[c]
    BY <1>8, <1>11, EnqueueKeeps DEF IndexInv, ManagerInv
  <1>13. ProvidersOK'
    BY <1>8 DEF Enqueue, IndexInv, ManagerInv, ProvidersOK
  <1>14. task' = [c \in Calls |-> IF \E i \in 1..n : NthIdle(i) = c
                                  THEN reasons[CHOOSE i \in 1..n : NthIdle(i) = c].task
                                  ELSE task[c]]
    BY <1>1, Zenon DEF Asks
  <1>15. ASSUME NEW c \in Calls
         PROVE  /\ task'[c] \in Task /\ GoodTask(task'[c], row')
                /\ task'[c] = Idle => call'[c].answer = Unasked
    <2>1. CASE \E i \in 1..n : NthIdle(i) = c
      <3> DEFINE i == CHOOSE j \in 1..n : NthIdle(j) = c
      <3>1. i \in 1..n BY <2>1
      <3>2. task'[c] = reasons[i].task BY <1>14, <2>1
      <3> HIDE DEF i
      <3>3. GoodTask(reasons[i].task, row') /\ reasons[i].task.for # "none"
        BY <1>1, <3>1 DEF ReasonsOK
      <3>4. reasons[i].task \in Task BY <1>1, <3>1
      <3>5. QED BY <3>2, <3>3, <3>4, IdleIsTask
    <2>2. CASE ~\E i \in 1..n : NthIdle(i) = c
      <3>1. task'[c] = task[c] BY <1>14, <2>2
      <3>2. GoodTask(task[c], row) /\ task[c] \in Task /\ (task[c] = Idle => call[c].answer = Unasked)
        BY DEF IndexInv, TasksOK
      <3>3. GoodTask(task[c], row') BY <3>2, GoodTaskContinues
      <3>4. c \notin Callers(asked) BY <1>10, <2>2 DEF Callers
      <3>5. QED BY <1>12, <3>1, <3>2, <3>3, <3>4
    <2>3. QED BY <2>1, <2>2
  <1>16. TasksOK'
    BY <1>14, <1>15 DEF TasksOK
  <1>17. QED BY <1>12, <1>13, <1>16 DEF ManagerInv

LEMMA AskingNothingKeeps ==
    ASSUME IndexInv, Continues(row, row'), UNCHANGED <<managerVars, task>>
    PROVE  ManagerInv' /\ TasksOK'
  <1>1. ManagerInv' BY DEF IndexInv, ManagerInv, QueueInv, ProvidersOK, managerVars
  <1>2. TasksOK' BY GoodTaskContinues DEF IndexInv, TasksOK, managerVars
  <1>3. QED BY <1>1, <1>2

LEMMA AsksIfReadyKeeps ==
    ASSUME IndexInv, Continues(row, row'), NEW reasons, ReasonsOK(reasons, row'), AsksIfReady(reasons)
    PROVE  ManagerInv' /\ TasksOK'
  BY AsksKeeps, AskingNothingKeeps DEF AsksIfReady

LEMMA ReasonIsOK ==
    ASSUME NEW rows, NEW m, NEW text \in Texts, NEW for \in {"warmup", "index", "detect"},
           for = "warmup" => m = "none", for # "warmup" => m \in Ids /\ rows[m] # NoRow
    PROVE  /\ Reason(for, m, text) \in [text : Texts, task : Task]
           /\ GoodTask(Reason(for, m, text).task, rows) /\ Reason(for, m, text).task.for # "none"
  BY DEF Reason, GoodTask, Idle, Task

\* A handler that has its answer leaves the queue and the batches alone.
LEMMA ResumeKeeps ==
    ASSUME IndexInv, NEW c \in Calls, Resume(c), Continues(row, row')
    PROVE  ManagerInv' /\ TasksOK'
  <1>1. /\ call[c].answer # Waiting
        /\ call' = [call EXCEPT ![c] = [text |-> "none", answer |-> Unasked]]
        /\ task' = [task EXCEPT ![c] = Idle]
        /\ UNCHANGED <<config, disturbed, provider, initialized, initializing, objects,
                       queueTexts, queueResolvers, timer, batches>>
    BY DEF Resume
  <1>2. QueueInv BY DEF IndexInv, ManagerInv
  <1>3. \A d \in Calls : d # c => call'[d] = call[d]
    BY <1>1, <1>2 DEF QueueInv
  <1>4. call'[c] = [text |-> "none", answer |-> Unasked]
    BY <1>1, <1>2 DEF QueueInv
  <1>5. [text |-> "none", answer |-> Unasked] \in CallType BY DEF CallType
  <1>6. call' \in [Calls -> CallType] BY <1>1, <1>2, <1>5 DEF QueueInv
  <1>7. ASSUME NEW texts, NEW resolvers, Holds(texts, resolvers, call) PROVE Holds(texts, resolvers, call')
    <2>1. c \notin Held(resolvers) BY <1>1, <1>7 DEF Holds, Held
    <2>2. Held(resolvers) \subseteq Calls BY <1>7 DEF Holds, Held
    <2>3. \A d \in Held(resolvers) : call'[d] = call[d] BY <1>3, <2>1, <2>2
    <2>4. QED BY <1>7, <2>3, HoldsElsewhere
  <1>8. ASSUME NEW d \in Calls, call'[d].answer = Waiting PROVE d # c /\ call[d].answer = Waiting
    <2>1. d # c BY <1>4, <1>8, NotAVector
    <2>2. QED BY <1>3, <1>8, <2>1
  <1>9. Accounts(queueTexts', queueResolvers', batches', call')
    <2>1. Accounts(queueTexts, queueResolvers, batches, call')
      BY <1>2, <1>7, <1>8 DEF QueueInv, Accounts
    <2>2. QED BY <1>1, <2>1
  <1>10. Match(call')
    <2>1. ASSUME NEW d \in Calls, call'[d].answer \in Vector PROVE Fits(call'[d].answer, call'[d].text)
      <3>1. d # c BY <1>4, <2>1, NotAVector
      <3>2. call'[d] = call[d] BY <1>3, <3>1
      <3>3. QED BY <1>2, <2>1, <3>2 DEF QueueInv, Match
    <2>2. QED BY <2>1 DEF Match
  <1>11. QueueInv' BY <1>1, <1>2, <1>6, <1>9, <1>10 DEF QueueInv
  <1>12. ProvidersOK' BY <1>1 DEF IndexInv, ManagerInv, ProvidersOK
  <1>13. TasksOK'
    <2>1. task' \in [Calls -> Task] BY <1>1, IdleIsTask DEF IndexInv, TasksOK
    <2>2. ASSUME NEW d \in Calls PROVE GoodTask(task'[d], row') /\ (task'[d] = Idle => call'[d].answer = Unasked)
      <3>1. CASE d = c
        <4>1. task'[d] = Idle BY <1>1, <3>1 DEF IndexInv, TasksOK
        <4>2. GoodTask(Idle, row') BY IdleIsTask DEF GoodTask
        <4>3. QED BY <1>4, <3>1, <4>1, <4>2
      <3>2. CASE d # c
        <4>1. task'[d] = task[d] BY <1>1, <3>2 DEF IndexInv, TasksOK
        <4>2. GoodTask(task[d], row) /\ (task[d] = Idle => call[d].answer = Unasked) BY DEF IndexInv, TasksOK
        <4>3. GoodTask(task[d], row') BY <4>2, GoodTaskContinues
        <4>4. QED BY <1>3, <3>2, <4>1, <4>2, <4>3
      <3>3. QED BY <3>1, <3>2
    <2>3. QED BY <2>1, <2>2 DEF TasksOK
  <1>14. QED BY <1>11, <1>12, <1>13 DEF ManagerInv

\* Rows are added, give way and change their text; none goes.
LEMMA RowsRetire ==
    ASSUME row \in [Ids -> RowType], NEW gone, gone \subseteq Live, NEW m \in Ids, Fresh(m),
           NEW text \in Texts, NEW user \in Users
    PROVE  /\ Continues(row, [Retired(row, gone, m) EXCEPT ![m] = NewRow(text, user)])
           /\ [Retired(row, gone, m) EXCEPT ![m] = NewRow(text, user)][m] # NoRow
  <1> DEFINE rows == Retired(row, gone, m)
             new == [rows EXCEPT ![m] = NewRow(text, user)]
  <1>1. NoVector \in Vector \cup {NoVector} OBVIOUS
  <1>2. NewRow(text, user) \in RowType /\ NewRow(text, user) # NoRow /\ NewRow(text, user).live = TRUE
    BY DEF NewRow, RowType, NoRow
  <1>3. ASSUME NEW x \in Live
        PROVE  [row[x] EXCEPT !.live = FALSE, !.succ = m] \in RowType /\ row[x] # NoRow
               /\ [row[x] EXCEPT !.live = FALSE, !.succ = m] # NoRow
               /\ [row[x] EXCEPT !.live = FALSE, !.succ = m].user = row[x].user
    <2>1. row[x] \in RowType /\ row[x] # NoRow BY DEF Live, NoRow
    <2>2. row[x].user \in Users BY <2>1 DEF RowType
    <2>3. row[x].user # "none" BY <2>2, IndexAssumption
    <2>4. [row[x] EXCEPT !.live = FALSE, !.succ = m].user # NoRow.user BY <2>1, <2>3 DEF RowType, NoRow
    <2>5. [row[x] EXCEPT !.live = FALSE, !.succ = m] \in RowType BY <2>1 DEF RowType
    <2>6. [row[x] EXCEPT !.live = FALSE, !.succ = m].user = row[x].user BY <2>1 DEF RowType
    <2>7. QED BY <2>1, <2>4, <2>5, <2>6
  <1>4. ASSUME NEW x \in Ids
        PROVE  rows[x] \in RowType /\ (row[x] # NoRow => rows[x] # NoRow /\ rows[x].user = row[x].user)
    <2>1. CASE x \in gone
      <3>1. rows[x] = [row[x] EXCEPT !.live = FALSE, !.succ = m] BY <2>1 DEF Retired
      <3>2. x \in Live BY <2>1
      <3>3. QED BY <1>3, <3>1, <3>2
    <2>2. CASE x \notin gone
      <3>1. rows[x] = row[x] BY <2>2 DEF Retired
      <3>2. QED BY <3>1
    <2>3. QED BY <2>1, <2>2
  <1>5. rows \in [Ids -> RowType]
    <2>1. rows = [x \in Ids |-> rows[x]] BY DEF Retired
    <2> HIDE DEF rows
    <2>2. QED BY <1>4, <2>1
  <1>6. row[m] = NoRow BY DEF Fresh, Stored
  <1> HIDE DEF rows
  <1>7. new \in [Ids -> RowType] /\ new[m] = NewRow(text, user) /\ \A x \in Ids : x # m => new[x] = rows[x]
    BY <1>2, <1>5
  <1> HIDE DEF new
  <1>8. Continues(row, new)
    BY <1>4, <1>6, <1>7 DEF Continues
  <1>9. QED BY <1>2, <1>7, <1>8 DEF new, rows

LEMMA RowsStay ==
    ASSUME row \in [Ids -> RowType]
    PROVE  Continues(row, row)
  BY DEF Continues

LEMMA LiveRow ==
    ASSUME row \in [Ids -> RowType], NEW m \in Live
    PROVE  /\ m \in Ids /\ m \in Stored /\ row[m] # NoRow
           /\ row[m] \in [text : Texts, user : Users, live : BOOLEAN, succ : Ids \cup {"none"},
                          vec : Vector \cup {NoVector}]
  BY DEF Live, Stored, RowType, NoRow

\* A change of one row that leaves its owner.
LEMMA RowChanges ==
    ASSUME row \in [Ids -> RowType], NEW m \in Ids, NEW r \in RowType, r # NoRow, r.user = row[m].user
    PROVE  Continues(row, [row EXCEPT ![m] = r])
  BY DEF Continues

LEMMA StoredGrows ==
    ASSUME Continues(row, row')
    PROVE  Stored \subseteq Stored'
  BY DEF Continues, Stored

LEMMA GraphInvGrows ==
    ASSUME NEW rels, NEW E, GraphInv(rels, E), NEW E2, E \subseteq E2
    PROVE  GraphInv(rels, E2)
  BY DEF GraphInv, RelationOn

\* Nothing was recalled.
LEMMA QuietRecalls ==
    ASSUME Quiet
    PROVE  recalled' \in [user : Users \cup {"none"}, ids : SUBSET Ids] /\ OnlyGraphCrossesScopes'
  BY DEF Quiet, Nothing, OnlyGraphCrossesScopes

\* The steps that leave the relations alone and recall nothing.
LEMMA QuietKeeps ==
    ASSUME IndexInv, Continues(row, row'), ManagerInv', TasksOK', relations' = relations, Quiet
    PROVE  IndexInv' /\ OnlyGraphCrossesScopes'
  <1>1. GraphInv(relations', Stored') BY StoredGrows, GraphInvGrows DEF IndexInv
  <1>2. row' \in [Ids -> RowType] BY DEF Continues
  <1>3. QED BY <1>1, <1>2, QuietRecalls DEF IndexInv

LEMMA OneReason ==
    ASSUME NEW rows, NEW m, NEW text \in Texts, NEW for \in {"warmup", "index", "detect"},
           for = "warmup" => m = "none", for # "warmup" => m \in Ids /\ rows[m] # NoRow
    PROVE  ReasonsOK(<<Reason(for, m, text)>>, rows)
  <1> DEFINE r == Reason(for, m, text)
  <1>1. r \in [text : Texts, task : Task] /\ GoodTask(r.task, rows) /\ r.task.for # "none"
    BY ReasonIsOK
  <1> HIDE DEF r
  <1>2. <<r>> \in Seq([text : Texts, task : Task]) /\ DOMAIN <<r>> = {1} /\ <<r>>[1] = r BY <1>1
  <1>3. ReasonsOK(<<r>>, rows) BY <1>1, <1>2 DEF ReasonsOK
  <1>4. QED BY <1>3 DEF r

LEMMA TwoReasons ==
    ASSUME NEW rows, NEW m \in Ids, NEW text \in Texts, rows[m] # NoRow
    PROVE  ReasonsOK(<<Reason("index", m, text), Reason("detect", m, text)>>, rows)
  <1> DEFINE r == Reason("index", m, text)
             q == Reason("detect", m, text)
  <1>1. r \in [text : Texts, task : Task] /\ GoodTask(r.task, rows) /\ r.task.for # "none"
    BY ReasonIsOK
  <1>2. q \in [text : Texts, task : Task] /\ GoodTask(q.task, rows) /\ q.task.for # "none"
    BY ReasonIsOK
  <1> HIDE DEF r, q
  <1>3. <<r, q>> \in Seq([text : Texts, task : Task]) /\ DOMAIN <<r, q>> = {1, 2} /\ <<r, q>>[1] = r /\ <<r, q>>[2] = q
    BY <1>1, <1>2
  <1>4. ReasonsOK(<<r, q>>, rows) BY <1>1, <1>2, <1>3 DEF ReasonsOK
  <1>5. QED BY <1>4 DEF r, q

LEMMA WarmUpKeeps ==
    ASSUME IndexInv, NEW text \in Texts, WarmUp(text)
    PROVE  IndexInv' /\ OnlyGraphCrossesScopes'
  <1>1. row' = row /\ Continues(row, row') BY RowsStay DEF WarmUp, IndexInv
  <1>2. ReasonsOK(<<Reason("warmup", "none", text)>>, row') BY OneReason
  <1>3. ManagerInv' /\ TasksOK' BY <1>1, <1>2, AsksKeeps DEF WarmUp
  <1>4. QED BY <1>1, <1>3, QuietKeeps DEF WarmUp

LEMMA StoreKeeps ==
    ASSUME IndexInv, NEW m \in Ids, NEW text \in Texts, NEW user \in Users, Store(m, text, user)
    PROVE  IndexInv' /\ OnlyGraphCrossesScopes'
  <1>1. PICK gone \in SUBSET Live : row' = [Retired(row, gone, m) EXCEPT ![m] = NewRow(text, user)]
    BY DEF Store, OwnedBy
  <1>2. Continues(row, row') /\ row'[m] # NoRow
    <2>1. row \in [Ids -> RowType] /\ Fresh(m) /\ gone \subseteq Live BY DEF Store, IndexInv
    <2>2. /\ Continues(row, [Retired(row, gone, m) EXCEPT ![m] = NewRow(text, user)])
          /\ [Retired(row, gone, m) EXCEPT ![m] = NewRow(text, user)][m] # NoRow
      BY <2>1, RowsRetire
    <2>3. QED BY <1>1, <2>2
  <1>3. ReasonsOK(<<Reason("index", m, text), Reason("detect", m, text)>>, row')
    BY <1>2, TwoReasons
  <1>4. ManagerInv' /\ TasksOK' BY <1>2, <1>3, AsksIfReadyKeeps DEF Store
  <1>5. QED BY <1>2, <1>4, QuietKeeps DEF Store

LEMMA UpdateKeeps ==
    ASSUME IndexInv, NEW m \in Ids, NEW text \in Texts, Update(m, text)
    PROVE  IndexInv' /\ OnlyGraphCrossesScopes'
  <1> DEFINE r == [row[m] EXCEPT !.text = text]
  <1>1. row \in [Ids -> RowType] /\ m \in Live BY DEF IndexInv, Update
  <1>2. r \in RowType /\ r.user = row[m].user /\ r.live = TRUE
    BY <1>1, LiveRow DEF RowType, Live
  <1>3. r # NoRow BY <1>2 DEF NoRow
  <1>4. row' = [row EXCEPT ![m] = r] BY <1>1 DEF Update
  <1> HIDE DEF r
  <1>5. Continues(row, row') /\ row'[m] # NoRow BY <1>1, <1>2, <1>3, <1>4, RowChanges
  <1>6. ReasonsOK(<<Reason("index", m, text)>>, row') BY <1>5, OneReason
  <1>7. ManagerInv' /\ TasksOK' BY <1>5, <1>6, AsksIfReadyKeeps DEF Update
  <1>8. QED BY <1>5, <1>7, QuietKeeps DEF Update

LEMMA ReplaceKeeps ==
    ASSUME IndexInv, NEW m \in Ids, NEW text \in Texts, NEW gone, Replace(gone, m, text)
    PROVE  IndexInv' /\ OnlyGraphCrossesScopes'
  <1>1. PICK user \in Users : row' = [Retired(row, gone, m) EXCEPT ![m] = NewRow(text, user)]
    BY DEF Replace
  <1>2. Continues(row, row') /\ row'[m] # NoRow
    <2>1. row \in [Ids -> RowType] /\ Fresh(m) /\ gone \subseteq Live BY DEF Replace, IndexInv
    <2>2. /\ Continues(row, [Retired(row, gone, m) EXCEPT ![m] = NewRow(text, user)])
          /\ [Retired(row, gone, m) EXCEPT ![m] = NewRow(text, user)][m] # NoRow
      BY <2>1, RowsRetire
    <2>3. QED BY <1>1, <2>2
  <1>3. ReasonsOK(<<Reason("index", m, text)>>, row') BY <1>2, OneReason
  <1>4. ManagerInv' /\ TasksOK' BY <1>2, <1>3, AsksIfReadyKeeps DEF Replace
  <1>5. QED BY <1>2, <1>4, QuietKeeps DEF Replace

LEMMA DeleteKeeps ==
    ASSUME IndexInv, NEW m \in Ids, Delete(m)
    PROVE  IndexInv' /\ OnlyGraphCrossesScopes'
  <1> DEFINE r == [row[m] EXCEPT !.live = FALSE]
  <1>1. row \in [Ids -> RowType] /\ m \in Live BY DEF IndexInv, Delete
  <1>2. r \in RowType /\ r.user = row[m].user /\ r.user \in Users
    BY <1>1, LiveRow DEF RowType
  <1>3. r # NoRow BY <1>2, IndexAssumption DEF NoRow
  <1>4. row' = [row EXCEPT ![m] = r] BY <1>1 DEF Delete
  <1> HIDE DEF r
  <1>5. Continues(row, row') BY <1>1, <1>2, <1>3, <1>4, RowChanges
  <1>6. ManagerInv' /\ TasksOK' BY <1>5, AskingNothingKeeps DEF Delete
  <1>7. QED BY <1>5, <1>6, QuietKeeps DEF Delete

LEMMA DetectAgainKeeps ==
    ASSUME IndexInv, NEW m \in Ids, DetectAgain(m)
    PROVE  IndexInv' /\ OnlyGraphCrossesScopes'
  <1>1. row' = row /\ Continues(row, row') BY RowsStay DEF DetectAgain, IndexInv
  <1>2. row[m].text \in Texts /\ row[m] # NoRow BY LiveRow DEF DetectAgain, IndexInv
  <1>3. ReasonsOK(<<Reason("detect", m, row[m].text)>>, row') BY <1>1, <1>2, OneReason
  <1>4. ManagerInv' /\ TasksOK' BY <1>1, <1>3, AsksKeeps DEF DetectAgain
  <1>5. QED BY <1>1, <1>4, QuietKeeps DEF DetectAgain

LEMMA RecallByVectorKeeps ==
    ASSUME IndexInv, NEW user \in Users, NEW query \in Texts, RecallByVector(user, query)
    PROVE  IndexInv' /\ OnlyGraphCrossesScopes'
  <1> DEFINE t == [Idle EXCEPT !.for = "recall", !.user = user, !.had = OwnedBy(user)]
             r == [text |-> query, task |-> t]
  <1>1. row' = row /\ Continues(row, row') BY RowsStay DEF RecallByVector, IndexInv
  <1>2. OwnedBy(user) \subseteq Ids /\ \A m \in OwnedBy(user) : row[m] # NoRow /\ row[m].user = user
    BY LiveRow DEF OwnedBy, Live, IndexInv
  <1>3. t \in Task /\ t.for = "recall" /\ t.user = user /\ t.had = OwnedBy(user)
    BY <1>2 DEF Idle, Task
  <1> HIDE DEF t
  <1>4. GoodTask(t, row') BY <1>1, <1>2, <1>3 DEF GoodTask
  <1>5. <<r>> \in Seq([text : Texts, task : Task]) /\ DOMAIN <<r>> = {1} /\ <<r>>[1] = r /\ r.task = t BY <1>3
  <1> HIDE DEF r
  <1>6. ReasonsOK(<<r>>, row') BY <1>3, <1>4, <1>5 DEF ReasonsOK
  <1>7. ManagerInv' /\ TasksOK' BY <1>1, <1>6, AsksKeeps DEF RecallByVector, r, t
  <1>8. QED BY <1>1, <1>7, QuietKeeps DEF RecallByVector

LEMMA ManagerWorksKeeps ==
    ASSUME IndexInv, ManagerWorks
    PROVE  IndexInv' /\ OnlyGraphCrossesScopes'
  <1>1. row' = row /\ task' = task /\ Continues(row, row') BY RowsStay DEF ManagerWorks, IndexInv
  <1>2. ManagerInv' /\ Undisturbed BY ManagerKeeps DEF ManagerWorks, IndexInv
  <1>3. TasksOK' BY <1>1, <1>2 DEF IndexInv, TasksOK, Undisturbed
  <1>4. QED BY <1>1, <1>2, <1>3, QuietKeeps DEF ManagerWorks

-----------------------------------------------------------------------------
(***************************************************************************)
(* Recall.  What relations add to a ranking is reached from a memory that  *)
(* was ranked: without one, every boost is 0, and so is their sum.         *)
(***************************************************************************)
LEMMA InjectedIsReached ==
    ASSUME NEW rels, NEW ranked, NEW scanned, scanned \subseteq Ids,
           NEW added \in Injections(rels, ranked, scanned), NEW id \in added
    PROVE  id \in Ids /\ \E i \in scanned :
              \E c \in FindConnected(rels, i, RelationTypes, ScanDepth, GraphLimit) : c.id = id
  <1> DEFINE reached == [i \in scanned |-> FindConnected(rels, i, RelationTypes, ScanDepth, GraphLimit)]
             boosts(j, i) == {0} \cup {Boost(c.type) \div c.depth : c \in {x \in reached[i] : x.id = j}}
             most(j) == MapThenSumSet(LAMBDA i : Max(boosts(j, i)), scanned)
             pick(T) == CHOOSE x \in T : TRUE
             Step(T, f) == IF T = {} THEN 0 ELSE Max(boosts(id, pick(T))) + f[T \ {pick(T)}]
             iter == CHOOSE f : f = [T \in SUBSET scanned |-> Step(T, f)]
  <1>1. id \in Ids /\ most(id) >= MinInjectionBoost
    BY Zenon DEF Injections
  <1>2. SUFFICES ASSUME \A i \in scanned : \A c \in FindConnected(rels, i, RelationTypes, ScanDepth, GraphLimit) : c.id # id
                 PROVE  FALSE
    BY <1>1, Zenon
  <1>3. ASSUME NEW i \in scanned PROVE Max(boosts(id, i)) = 0
    <2>1. boosts(id, i) = {0} BY <1>2
    <2>2. Max({0}) = 0 BY DEF Max
    <2> HIDE DEF boosts
    <2>3. QED BY <2>1, <2>2
  <1>4. most(id) = iter[scanned]
    BY Zenon DEF MapThenSumSet, MapThenFoldSet
  <1>5. IsFiniteSet(scanned) BY RelationAssumption, FS_Subset
  <1>6. \A T : T # {} => pick(T) \in T OBVIOUS
  <1> HIDE DEF boosts, most, pick
  <1>7. \E f : f = [T \in SUBSET scanned |-> Step(T, f)]
    <2> DEFINE zero == [T \in SUBSET scanned |-> 0]
    <2>1. ASSUME NEW T \in SUBSET scanned PROVE zero[T] = Step(T, zero)
      <3>1. CASE T = {} BY <3>1
      <3>2. CASE T # {}
        <4>1. pick(T) \in scanned /\ T \ {pick(T)} \in SUBSET scanned BY <1>6, <3>2
        <4>2. zero[T \ {pick(T)}] = 0 BY <4>1
        <4>3. QED BY <1>3, <3>2, <4>1, <4>2
      <3>3. QED BY <3>1, <3>2
    <2> HIDE DEF Step
    <2>2. zero = [T \in SUBSET scanned |-> Step(T, zero)] BY <2>1
    <2>3. QED BY <2>2
  <1>8. iter = [T \in SUBSET scanned |-> Step(T, iter)]
    <2> HIDE DEF Step
    <2>1. QED BY <1>7
  <1> HIDE DEF iter
  <1> DEFINE P == {T \in SUBSET scanned : iter[T] = 0}
  <1>9. {} \in P BY <1>8
  <1>10. ASSUME NEW T \in SUBSET scanned, T # {}, \A x \in T : T \ {x} \in P PROVE T \in P
    <2>1. pick(T) \in T /\ pick(T) \in scanned BY <1>6, <1>10
    <2>2. iter[T \ {pick(T)}] = 0 BY <1>10, <2>1
    <2>3. iter[T] = Max(boosts(id, pick(T))) + iter[T \ {pick(T)}] BY <1>8, <1>10
    <2>4. QED BY <1>3, <2>1, <2>2, <2>3
  <1> HIDE DEF P
  <1>11. \A T \in SUBSET scanned : T \in P BY <1>5, <1>9, <1>10, SubsetInduction
  <1>12. iter[scanned] = 0 BY <1>11 DEF P
  <1>13. QED BY <1>1, <1>4, <1>12 DEF MinInjectionBoost

\* A recall returns rows of its user, and what is reached from them.
LEMMA ReturnsScoped ==
    ASSUME IndexInv, NEW user \in Users, NEW ranked, ranked \subseteq Stored,
           \A m \in ranked : row[m].user = user, Returns(user, ranked),
           row' = row, relations' = relations
    PROVE  OnlyGraphCrossesScopes' /\ recalled' \in [user : Users \cup {"none"}, ids : SUBSET Ids]
  <1>0. PICK scanned \in Scanned(ranked) :
        \E added \in IF ranked = {} THEN {{}} ELSE Injections(relations, ranked, scanned) :
        \E ids \in SUBSET (ranked \cup (added \cap Stored)) : recalled' = [user |-> user, ids |-> ids]
    BY Zenon DEF Returns
  <1>1. PICK added \in IF ranked = {} THEN {{}} ELSE Injections(relations, ranked, scanned) :
        \E ids \in SUBSET (ranked \cup (added \cap Stored)) : recalled' = [user |-> user, ids |-> ids]
    BY Zenon, <1>0
  <1>2. PICK ids \in SUBSET (ranked \cup (added \cap Stored)) : recalled' = [user |-> user, ids |-> ids]
    BY <1>1
  <1>3. ranked \subseteq Ids /\ ids \subseteq Ids /\ scanned \subseteq ranked BY DEF Stored, Scanned
  <1>4. ASSUME NEW m \in ids, row[m].user # user
        PROVE  \E own \in Ids : /\ row[own].user = user
                                /\ \E c \in FindConnected(relations, own, RelationTypes, ScanDepth, GraphLimit) : c.id = m
    <2>1. m \in added /\ m \notin ranked BY <1>4
    <2>2. added \in Injections(relations, ranked, scanned) BY <1>1, <2>1
    <2>3. PICK i \in scanned : \E c \in FindConnected(relations, i, RelationTypes, ScanDepth, GraphLimit) : c.id = m
      BY <1>3, <2>1, <2>2, InjectedIsReached
    <2>4. QED BY <1>3, <2>3
  <1>5. OnlyGraphCrossesScopes'
    BY <1>2, <1>4 DEF OnlyGraphCrossesScopes
  <1>6. QED BY <1>2, <1>3, <1>5

LEMMA RecallByKeywordKeeps ==
    ASSUME IndexInv, NEW user \in Users, RecallByKeyword(user)
    PROVE  IndexInv' /\ OnlyGraphCrossesScopes'
  <1>1. PICK ranked \in SUBSET OwnedBy(user) : Returns(user, ranked) BY DEF RecallByKeyword, Ranked
  <1>2. row' = row /\ relations' = relations /\ UNCHANGED <<managerVars, task>> BY DEF RecallByKeyword
  <1>3. Continues(row, row') BY <1>2, RowsStay DEF IndexInv
  <1>4. ranked \subseteq Stored /\ \A m \in ranked : row[m].user = user
    BY LiveRow DEF OwnedBy, IndexInv
  <1>5. OnlyGraphCrossesScopes' /\ recalled' \in [user : Users \cup {"none"}, ids : SUBSET Ids]
    BY <1>1, <1>2, <1>4, ReturnsScoped
  <1>6. ManagerInv' /\ TasksOK' BY <1>2, <1>3, AskingNothingKeeps
  <1>7. GraphInv(relations', Stored') BY <1>2 DEF IndexInv, Stored
  <1>8. QED BY <1>2, <1>5, <1>6, <1>7 DEF IndexInv

\* What a detection adds links memories that are stored.
LEMMA DetectKeeps ==
    ASSUME IndexInv, NEW m \in Stored, NEW vec \in Vector, Detect(m, vec)
    PROVE  GraphInv(relations', Stored)
  <1> DEFINE type == [x \in Ids |-> IF x \in Live THEN Class(vec.of, row[x].text) ELSE "none"]
             candidates == {x \in SearchByCosine(vec) \ {m} : type[x] # "none"}
  <1>1. PICK order \in [1..Cardinality(candidates) -> candidates] :
          relations' \in Inferred(Detected(relations, m, order, type), m)
    BY Zenon DEF Detect
  <1>2. Stored \subseteq Ids BY DEF Stored
  <1>3. ASSUME NEW x \in candidates PROVE x \in Stored /\ type[x] \in RelationTypes
    <2>1. x \in Ids /\ x \in Live BY DEF SearchByCosine, Stored
    <2>2. type[x] = Class(vec.of, row[x].text) BY <2>1
    <2>3. x \in Stored /\ row[x].text \in Texts BY <2>1, LiveRow DEF IndexInv
    <2>4. vec.of \in Texts BY DEF Vector
    <2>5. Class(vec.of, row[x].text) \in RelationTypes \cup {"none"} BY <2>3, <2>4, IndexAssumption
    <2>6. QED BY <2>2, <2>3, <2>5
  <1>4. Cardinality(candidates) \in Nat
    <2>1. candidates \subseteq Ids BY DEF SearchByCosine, Stored
    <2> HIDE DEF candidates
    <2>2. IsFiniteSet(candidates) BY <2>1, RelationAssumption, FS_Subset
    <2>3. QED BY <2>2, FS_CardinalityType
  <1> HIDE DEF type, candidates
  <1>5. order \in Seq(candidates) /\ Len(order) = Cardinality(candidates) BY <1>1, <1>4
  <1>6. Classified(order, type, Stored)
    BY <1>1, <1>3, <1>4, <1>5 DEF Classified
  <1>7. GraphInv(relations, Stored) BY DEF IndexInv
  <1>8. GraphInv(Detected(relations, m, order, type), Stored)
    BY <1>2, <1>6, <1>7, DetectedBounded
  <1>9. QED BY <1>1, <1>2, <1>8, InferredBounded

LEMMA ResumeKeepsAll ==
    ASSUME IndexInv, NEW c \in Calls, Resume(c)
    PROVE  IndexInv' /\ OnlyGraphCrossesScopes'
  <1> DEFINE t == task[c]
             vec == call[c].answer
  <1>1. /\ row' = IF t.for = "index" /\ vec # Null THEN Embedded(t.id, vec) ELSE row
        /\ IF t.for = "detect" /\ vec # Null THEN Detect(t.id, vec) ELSE UNCHANGED relations
        /\ IF t.for = "recall" THEN \E ranked \in Ranked(t.had) : Returns(t.user, ranked) ELSE Quiet
    BY Zenon DEF Resume
  <1>2. GoodTask(t, row) /\ t.had \subseteq Ids BY DEF IndexInv, TasksOK, GoodTask, Task
  <1>3. vec # Null => vec \in Vector
    <2>1. vec \in Vector \cup {Null, Waiting, Unasked} BY DEF IndexInv, ManagerInv, QueueInv, CallType
    <2>2. vec \notin {Waiting, Unasked} BY DEF Resume
    <2>3. QED BY <2>1, <2>2
  <1> HIDE DEF t, vec
  <1>4. row \in [Ids -> RowType] BY DEF IndexInv
  <1>5. Continues(row, row')
    <2>1. CASE row' = row BY <1>4, <2>1, RowsStay
    <2>2. CASE row' # row
      <3> DEFINE m == t.id
                 r == [row[m] EXCEPT !.vec = vec]
      <3>1. vec # Null /\ m \in Stored /\ row' = [row EXCEPT ![m].vec = vec]
        BY <1>1, <2>2 DEF Embedded
      <3>2. m \in Ids /\ row[m] # NoRow BY <3>1 DEF Stored
      <3>3. row[m] \in [text : Texts, user : Users, live : BOOLEAN, succ : Ids \cup {"none"},
                        vec : Vector \cup {NoVector}]
        BY <1>4, <3>2 DEF RowType
      <3>4. r \in RowType /\ r.user = row[m].user /\ r.user \in Users BY <1>3, <3>1, <3>3 DEF RowType
      <3>5. r # NoRow BY <3>4, IndexAssumption DEF NoRow
      <3>6. row' = [row EXCEPT ![m] = r] BY <3>1
      <3> HIDE DEF r, m
      <3>7. QED BY <1>4, <3>2, <3>4, <3>5, <3>6, RowChanges
    <2>3. QED BY <2>1, <2>2
  <1>6. ManagerInv' /\ TasksOK' BY <1>5, ResumeKeeps
  <1>7. row' \in [Ids -> RowType] BY <1>5 DEF Continues
  <1>8. GraphInv(relations', Stored')
    <2>1. GraphInv(relations', Stored)
      <3>1. CASE t.for = "detect" /\ vec # Null
        <4>1. t.id \in Stored /\ vec \in Vector /\ Detect(t.id, vec)
          BY <1>1, <1>2, <1>3, <3>1 DEF GoodTask, Stored
        <4>2. QED BY <4>1, DetectKeeps
      <3>2. CASE ~(t.for = "detect" /\ vec # Null)
        BY <1>1, <3>2 DEF IndexInv
      <3>3. QED BY <3>1, <3>2
    <2>2. Stored \subseteq Stored' BY <1>5, StoredGrows
    <2>3. QED BY <2>1, <2>2, GraphInvGrows
  <1>9. OnlyGraphCrossesScopes' /\ recalled' \in [user : Users \cup {"none"}, ids : SUBSET Ids]
    <2>1. CASE t.for = "recall"
      <3>1. PICK ranked \in SUBSET t.had : Returns(t.user, ranked) BY <1>1, <2>1 DEF Ranked
      <3>2. t.user \in Users /\ ranked \subseteq Stored /\ \A m \in ranked : row[m].user = t.user
        BY <1>2, <2>1 DEF GoodTask, Stored
      <3>3. row' = row /\ relations' = relations BY <1>1, <2>1
      <3>4. QED BY <3>1, <3>2, <3>3, ReturnsScoped
    <2>2. CASE t.for # "recall" BY <1>1, <2>2, QuietRecalls
    <2>3. QED BY <2>1, <2>2
  <1>10. QED BY <1>6, <1>7, <1>8, <1>9 DEF IndexInv

LEMMA AddRelationKeeps ==
    ASSUME IndexInv, NEW source, NEW target, NEW type \in RelationTypes, AddRelation(source, target, type)
    PROVE  IndexInv' /\ OnlyGraphCrossesScopes'
  <1>1. /\ source \in Stored /\ target \in Stored
        /\ relations' = Upserted(relations, source, target, type, "user_explicit")
        /\ Quiet /\ row' = row /\ UNCHANGED <<managerVars, task>>
    BY DEF AddRelation
  <1>2. Stored \subseteq Ids /\ GraphInv(relations, Stored) BY DEF IndexInv, Stored
  <1>3. GraphInv(relations', Stored) BY <1>1, <1>2, UserAdds
  <1>4. GraphInv(relations', Stored') BY <1>1, <1>3 DEF Stored
  <1>5. Continues(row, row') BY <1>1, RowsStay DEF IndexInv
  <1>6. ManagerInv' /\ TasksOK' BY <1>1, <1>5, AskingNothingKeeps
  <1>7. QED BY <1>1, <1>4, <1>6, QuietRecalls DEF IndexInv

LEMMA RemoveRelationKeeps ==
    ASSUME IndexInv, NEW r \in relations, RemoveRelation(r)
    PROVE  IndexInv' /\ OnlyGraphCrossesScopes'
  <1>1. /\ relations' = Deactivated(relations, r)
        /\ Quiet /\ row' = row /\ UNCHANGED <<managerVars, task>>
    BY DEF RemoveRelation
  <1>2. Stored \subseteq Ids /\ GraphInv(relations, Stored) BY DEF IndexInv, Stored
  <1>3. GraphInv(relations', Stored) BY <1>1, <1>2, UserRemoves
  <1>4. GraphInv(relations', Stored') BY <1>1, <1>3 DEF Stored
  <1>5. Continues(row, row') BY <1>1, RowsStay DEF IndexInv
  <1>6. ManagerInv' /\ TasksOK' BY <1>1, <1>5, AskingNothingKeeps
  <1>7. QED BY <1>1, <1>4, <1>6, QuietRecalls DEF IndexInv

\* The rows of a compression, and the relations it starts from.
LEMMA CompressedRows ==
    ASSUME IndexInv, NEW s \in Ids, NEW seed \in Ids, Compress(s, seed)
    PROVE  /\ Continues(row, row') /\ s \in Stored' /\ s \notin Stored
           /\ GraphInv(relations, Stored')
           /\ \A x \in Cluster(seed) : ~row'[x].live /\ row'[x].succ = s
           /\ \A x \in Ids \ Cluster(seed) : x # s => row'[x] = row[x]
           /\ row'[s].live
  <1> DEFINE gone == Cluster(seed)
  <1>1. PICK base \in gone : row' = [Retired(row, gone, s) EXCEPT ![s] = NewRow(row[base].text, row[base].user)]
    BY DEF Compress, Summary
  <1>2. gone \subseteq Live BY DEF Cluster
  <1>3. Fresh(s) /\ row \in [Ids -> RowType] BY DEF Compress, IndexInv
  <1>4. row[base].text \in Texts /\ row[base].user \in Users BY <1>2, <1>3, LiveRow
  <1>5. s \notin Stored BY <1>3 DEF Fresh
  <1>6. s \notin gone BY <1>2, <1>3, <1>5, LiveRow
  <1> HIDE DEF gone
  <1>7. /\ Continues(row, [Retired(row, gone, s) EXCEPT ![s] = NewRow(row[base].text, row[base].user)])
        /\ [Retired(row, gone, s) EXCEPT ![s] = NewRow(row[base].text, row[base].user)][s] # NoRow
    BY <1>2, <1>3, <1>4, RowsRetire
  <1>8. Continues(row, row') /\ s \in Stored' BY <1>1, <1>7 DEF Stored
  <1>9. GraphInv(relations, Stored')
    <2>1. GraphInv(relations, Stored) /\ Stored \subseteq Stored' BY <1>8, StoredGrows DEF IndexInv
    <2>2. QED BY <2>1, GraphInvGrows
  <1>10. ASSUME NEW x \in gone PROVE ~row'[x].live /\ row'[x].succ = s
    <2>1. x \in Ids /\ x # s BY <1>2, <1>6 DEF Live
    <2>2. row'[x] = [row[x] EXCEPT !.live = FALSE, !.succ = s] BY <1>1, <2>1 DEF Retired
    <2>3. row[x] \in [text : Texts, user : Users, live : BOOLEAN, succ : Ids \cup {"none"},
                      vec : Vector \cup {NoVector}]
      BY <1>2, <1>3, LiveRow
    <2>4. QED BY <2>2, <2>3
  <1>11. ASSUME NEW x \in Ids \ gone, x # s PROVE row'[x] = row[x]
    BY <1>1, <1>11 DEF Retired
  <1>12. row'[s].live BY <1>1 DEF Retired, NewRow
  <1>13. \A x \in Cluster(seed) : ~row'[x].live /\ row'[x].succ = s BY <1>10 DEF gone
  <1>14. \A x \in Ids \ Cluster(seed) : x # s => row'[x] = row[x] BY <1>11 DEF gone
  <1>15. QED BY <1>5, <1>8, <1>9, <1>12, <1>13, <1>14

LEMMA CompressKeeps ==
    ASSUME IndexInv, NEW s \in Ids, NEW seed \in Ids, Compress(s, seed)
    PROVE  IndexInv' /\ OnlyGraphCrossesScopes'
  <1> DEFINE X == Cluster(seed)
             E == Stored'
  <1>1. Continues(row, row') BY CompressedRows
  <1>2. s \in E /\ GraphInv(relations, E) BY CompressedRows
  <1>3. E \subseteq Ids /\ X \subseteq Ids BY DEF Stored, Cluster, Live
  <1>4. relations' = FoldSet(LAMBDA m, rels : TakeOver(rels, m, s), relations, X) BY DEF Compress
  <1> HIDE DEF E, X
  <1>5. PICK f : /\ f[X] = FoldSet(LAMBDA m, r : TakeOver(r, m, s), relations, X)
                 /\ TakesOver(f, X, relations, s)
                 /\ \A T \in SUBSET X : GraphInv(f[T], E)
    BY <1>2, <1>3, TakeOverAll
  <1>6. GraphInv(relations', E) BY <1>4, <1>5
  <1>7. Quiet /\ UNCHANGED <<managerVars, task>> BY DEF Compress
  <1>8. ManagerInv' /\ TasksOK' BY <1>1, <1>7, AskingNothingKeeps
  <1>9. row' \in [Ids -> RowType] BY <1>1 DEF Continues
  <1>10. QED BY <1>6, <1>7, <1>8, <1>9, QuietRecalls DEF IndexInv, E

-----------------------------------------------------------------------------
(***************************************************************************)
(* The invariant holds from the start, and says what the runs check.       *)
(***************************************************************************)
LEMMA IndexStarts ==
    ASSUME ManagerInit, IndexInit
    PROVE  IndexInv /\ OnlyGraphCrossesScopes
  <1>1. Stored = {} BY DEF IndexInit, Stored
  <1>2. GraphInv(relations, Stored)
    <2>1. \A m \in Ids : Automatic({}, m) = {} BY DEF Automatic
    <2>2. Cardinality({}) = 0 /\ MaxRelations \in Nat BY FS_EmptySet, RelationAssumption
    <2>3. GraphInv({}, Stored) BY <2>1, <2>2 DEF GraphInv
    <2>4. QED BY <2>3 DEF IndexInit
  <1>3. \A c \in Calls : call[c] = [text |-> "none", answer |-> Unasked] /\ call[c] \in CallType
    BY DEF ManagerInit, CallType
  <1>4. QueueInv
    <2>1. Holds(<<>>, <<>>, call) BY DEF Holds
    <2>2. Accounts(<<>>, <<>>, {}, call) BY <1>3, <2>1, NotAVector DEF Accounts, Apart
    <2>3. Match(call) BY <1>3, NotAVector DEF Match
    <2>4. call \in [Calls -> CallType] BY <1>3 DEF ManagerInit
    <2>5. Len(<<>>) <= QueueLimit BY EmbeddingAssumption
    <2>6. QED BY <2>2, <2>3, <2>4, <2>5 DEF QueueInv, ManagerInit
  <1>5. ProvidersOK
    <2>1. <<>> \in Seq(Object) /\ Len(<<>>) = 0 OBVIOUS
    <2>2. 0 \in 0..MaxDisturbed /\ 0 \in 0..0 BY EmbeddingAssumption
    <2>3. QED BY <2>1, <2>2 DEF ProvidersOK, ManagerInit
  <1>6. TasksOK
    <2>1. GoodTask(Idle, row) BY IdleIsTask DEF GoodTask
    <2>2. QED BY <1>3, <2>1, IdleIsTask DEF TasksOK, IndexInit
  <1>7. row \in [Ids -> RowType] BY DEF IndexInit, RowType
  <1>8. recalled \in [user : Users \cup {"none"}, ids : SUBSET Ids] /\ OnlyGraphCrossesScopes
    BY DEF IndexInit, Nothing, OnlyGraphCrossesScopes
  <1>9. QED BY <1>2, <1>4, <1>5, <1>6, <1>7, <1>8 DEF IndexInv, ManagerInv

LEMMA IndexStep ==
    ASSUME IndexInv, OnlyGraphCrossesScopes, [IndexNext]_allVars
    PROVE  IndexInv' /\ OnlyGraphCrossesScopes'
  <1>1. ASSUME NEW text \in Texts, WarmUp(text) PROVE IndexInv' /\ OnlyGraphCrossesScopes'
    BY <1>1, WarmUpKeeps
  <1>2. ASSUME NEW m \in Ids, NEW text \in Texts, NEW user \in Users, Store(m, text, user)
        PROVE  IndexInv' /\ OnlyGraphCrossesScopes'
    BY <1>2, StoreKeeps
  <1>3. ASSUME NEW m \in Ids, NEW text \in Texts, Update(m, text)
        PROVE  IndexInv' /\ OnlyGraphCrossesScopes'
    BY <1>3, UpdateKeeps
  <1>4. ASSUME NEW m \in Ids, NEW text \in Texts, NEW gone \in SUBSET Ids, Replace(gone, m, text)
        PROVE  IndexInv' /\ OnlyGraphCrossesScopes'
    BY <1>4, ReplaceKeeps
  <1>5. ASSUME NEW m \in Ids, Delete(m) \/ DetectAgain(m) PROVE IndexInv' /\ OnlyGraphCrossesScopes'
    BY <1>5, DeleteKeeps, DetectAgainKeeps
  <1>6. ASSUME NEW user \in Users, RecallByKeyword(user) PROVE IndexInv' /\ OnlyGraphCrossesScopes'
    BY <1>6, RecallByKeywordKeeps
  <1>7. ASSUME NEW user \in Users, NEW query \in Texts, RecallByVector(user, query)
        PROVE  IndexInv' /\ OnlyGraphCrossesScopes'
    BY <1>7, RecallByVectorKeeps
  <1>8. ASSUME NEW c \in Calls, Resume(c) PROVE IndexInv' /\ OnlyGraphCrossesScopes'
    BY <1>8, ResumeKeepsAll
  <1>9. ASSUME NEW source \in Ids, NEW target \in Ids, NEW type \in AddedTypes, AddRelation(source, target, type)
        PROVE  IndexInv' /\ OnlyGraphCrossesScopes'
    <2>1. type \in RelationTypes BY IndexAssumption
    <2>2. QED BY <1>9, <2>1, AddRelationKeeps
  <1>10. ASSUME NEW r \in relations, RemoveRelation(r) PROVE IndexInv' /\ OnlyGraphCrossesScopes'
    BY <1>10, RemoveRelationKeeps
  <1>11. ASSUME NEW s \in Ids, NEW seed \in Ids, Compress(s, seed) PROVE IndexInv' /\ OnlyGraphCrossesScopes'
    BY <1>11, CompressKeeps
  <1>12. CASE ManagerWorks BY <1>12, ManagerWorksKeeps
  <1>13. CASE UNCHANGED allVars
    <2>1. Continues(row, row') BY <1>13, RowsStay DEF allVars, indexVars, IndexInv
    <2>2. ManagerInv' /\ TasksOK' BY <1>13, <2>1, AskingNothingKeeps DEF allVars, indexVars
    <2>3. GraphInv(relations', Stored') BY <1>13 DEF allVars, indexVars, IndexInv, Stored
    <2>4. OnlyGraphCrossesScopes' BY <1>13 DEF allVars, indexVars, OnlyGraphCrossesScopes
    <2>5. QED BY <1>13, <2>2, <2>3, <2>4 DEF allVars, indexVars, IndexInv
  <1>14. QED
    BY <1>1, <1>2, <1>3, <1>4, <1>5, <1>6, <1>7, <1>8, <1>9, <1>10, <1>11, <1>12, <1>13 DEF IndexNext

LEMMA IndexInvariant == IndexSpec => [](IndexInv /\ OnlyGraphCrossesScopes)
  <1>1. ManagerInit /\ IndexInit => IndexInv /\ OnlyGraphCrossesScopes BY IndexStarts
  <1>2. IndexInv /\ OnlyGraphCrossesScopes /\ [IndexNext]_allVars => (IndexInv /\ OnlyGraphCrossesScopes)'
    BY IndexStep
  <1> QED BY <1>1, <1>2, PTL DEF IndexSpec

\* No call is held twice.
LEMMA HeldOnce ==
    ASSUME NEW texts, NEW resolvers, NEW calls, Holds(texts, resolvers, calls)
    PROVE  Cardinality(Held(resolvers)) = Len(resolvers)
  <1>1. Len(resolvers) \in Nat /\ DOMAIN resolvers = 1..Len(resolvers) /\ resolvers = [i \in DOMAIN resolvers |-> resolvers[i]]
    BY LenProperties DEF Holds
  <1>2. resolvers \in [1..Len(resolvers) -> Held(resolvers)] BY <1>1 DEF Held
  <1>3. resolvers \in Bijection(1..Len(resolvers), Held(resolvers))
    BY <1>1, <1>2 DEF Holds, Held, Bijection, Injection, Surjection, IsInjective
  <1>4. ExistsBijection(1..Len(resolvers), Held(resolvers)) BY <1>3 DEF ExistsBijection
  <1>5. QED BY <1>1, <1>4, FS_CountingElements

LEMMA AccountedFor ==
    ASSUME IndexInv
    PROVE  EmbedAccounted
  <1>1. Accounts(queueTexts, queueResolvers, batches, call) /\ (timer <=> queueResolvers # <<>>)
    BY DEF IndexInv, ManagerInv, QueueInv
  <1>2. InQueue = Held(queueResolvers) /\ \A b : InBatch(b) = Held(b.resolvers)
    BY DEF InQueue, InBatch, Held
  <1>3. ASSUME NEW texts, NEW resolvers, Holds(texts, resolvers, call)
        PROVE  /\ Held(resolvers) \subseteq {c \in Calls : call[c].answer = Waiting}
               /\ Len(texts) = Len(resolvers) /\ Cardinality(Held(resolvers)) = Len(resolvers)
    <2>1. Cardinality(Held(resolvers)) = Len(resolvers) BY <1>3, HeldOnce
    <2>2. QED BY <1>3, <2>1 DEF Holds, Held
  <1>4. /\ Len(queueTexts) = Len(queueResolvers) /\ Cardinality(InQueue) = Len(queueResolvers)
        /\ InQueue \subseteq {c \in Calls : call[c].answer = Waiting}
    BY <1>1, <1>2, <1>3 DEF Accounts
  <1>5. ASSUME NEW b \in batches
        PROVE  /\ Len(b.texts) = Len(b.resolvers) /\ Cardinality(InBatch(b)) = Len(b.resolvers)
               /\ InBatch(b) \subseteq {c \in Calls : call[c].answer = Waiting}
               /\ InBatch(b) \cap InQueue = {}
               /\ \A d \in batches \ {b} : InBatch(b) \cap InBatch(d) = {}
    BY <1>1, <1>2, <1>3 DEF Accounts, Apart
  <1>6. {c \in Calls : call[c].answer = Waiting} \subseteq InQueue \cup UNION {InBatch(b) : b \in batches}
    BY <1>1, <1>2 DEF Accounts
  <1>7. {c \in Calls : call[c].answer = Waiting} = InQueue \cup UNION {InBatch(b) : b \in batches}
    BY <1>4, <1>5, <1>6
  <1>8. QED BY <1>1, <1>4, <1>5, <1>7 DEF EmbedAccounted

LEMMA IndexTypes ==
    ASSUME IndexInv
    PROVE  TypeOK
  <1>1. queueTexts \in Seq(Texts) /\ queueResolvers \in Seq(Calls) /\ Len(queueTexts) = Len(queueResolvers)
    BY DEF IndexInv, ManagerInv, QueueInv, Accounts, Holds
  <1>2. ManagerTypeOK
    BY <1>1 DEF ManagerTypeOK, IndexInv, ManagerInv, QueueInv, ProvidersOK, CallType
  <1>3. GraphTypeOK BY DEF GraphTypeOK, IndexInv, GraphInv, RelationOn
  <1>4. QED BY <1>2, <1>3 DEF TypeOK, IndexInv, TasksOK

-----------------------------------------------------------------------------
\* The state of every handler, queue, provider, relation and recall is well
\* formed, whatever runs between the steps of another.
THEOREM IndexTypeCorrect == IndexSpec => []TypeOK
  <1>1. IndexInv => TypeOK BY IndexTypes
  <1> QED BY <1>1, IndexInvariant, PTL

\* A call of embed that is not settled is in the queue, with the timer armed, or
\* in exactly one batch (src/embedding/manager.ts): with any number of callers,
\* texts, providers and calls of configure and dispose, none is forgotten and
\* none is settled twice.
THEOREM EmbedsAccounted == IndexSpec => []EmbedAccounted
  <1>1. IndexInv => EmbedAccounted BY AccountedFor
  <1> QED BY <1>1, IndexInvariant, PTL

\* The texts and the resolvers of the queue stay aligned, with any number of
\* callers and batches of any size (src/embedding/manager.ts): a call gets the
\* vector of another text only behind a chunk of its batch that the OpenAI server
\* did not answer in full (src/embedding/openai.ts).
THEOREM AnswersStayAligned == IndexSpec => []AnswersMatch
  <1>1. IndexInv => AnswersMatch BY DEF IndexInv, ManagerInv, QueueInv, Match, Fits, AnswersMatch
  <1> QED BY <1>1, IndexInvariant, PTL

\* No memory has more relations that were detected or inferred from it than the
\* limit, with any relations added and removed by users and moved by compressions
\* while a detection waits (core/memory/relationDetection.ts).
THEOREM AutomaticStayBounded == IndexSpec => []AutomaticRelationsBounded
  <1>1. IndexInv => AutomaticRelationsBounded
    BY DEF IndexInv, GraphInv, Automatic, AutomaticRelationsBounded
  <1> QED BY <1>1, IndexInvariant, PTL

\* On any relations that the program makes, the recursive queries of
\* relationRepo.ts find what a search in breadth finds.
THEOREM TraversalsAgreeThroughout == IndexSpec => []TraversalsAgree
  <1>1. IndexInv => TraversalsAgree
    BY TraversalsFollowLayers DEF IndexInv, GraphInv, RelationOn, GraphTypeOK
  <1> QED BY <1>1, IndexInvariant, PTL

\* A memory that a recall returns to a user who does not own it is at most two
\* relations away from one that the user owns, however rows were superseded,
\* edited or deleted while the recall waited for its vector.
THEOREM RecallsStayInScope == IndexSpec => []OnlyGraphCrossesScopes
  <1> QED BY IndexInvariant, PTL

LEMMA SummaryIsRelated ==
    ASSUME IndexInv, NEW s \in Ids, NEW seed \in Ids, Compress(s, seed),
           NEW r \in relations, r.active,
           NEW gone, gone = {m \in Ids : row[m].live /\ ~row'[m].live}
    PROVE  /\ r.source \in gone /\ r.target \notin gone =>
                \E k \in relations' : /\ k.active /\ k.source = row'[r.source].succ
                                      /\ k.target = r.target /\ k.type = r.type
           /\ r.target \in gone /\ r.source \notin gone =>
                \E k \in relations' : /\ k.active /\ k.target = row'[r.target].succ
                                      /\ k.source = r.source /\ k.type = r.type
  <1> DEFINE X == Cluster(seed)
             E == Stored'
  <1>1. s \in E /\ s \notin Stored /\ GraphInv(relations, E) BY CompressedRows
  <1>2. \A x \in X : ~row'[x].live /\ row'[x].succ = s BY CompressedRows
  <1>3. (\A x \in Ids \ X : x # s => row'[x] = row[x]) /\ row'[s].live BY CompressedRows
  <1>4. X \subseteq Live /\ X \subseteq Ids BY DEF Cluster, Live
  <1>5. relations' = Summarised(relations, X, s) BY DEF Compress, Summarised
  <1>6. E \subseteq Ids BY DEF Stored
  <1> HIDE DEF X, E
  <1>7. gone = X BY <1>2, <1>3, <1>4 DEF Live
  <1>8. r.source \in Stored /\ r.target \in Stored BY DEF IndexInv, GraphInv, RelationOn
  <1>9. s \notin X
    <2>1. X \subseteq Stored BY <1>4, LiveRow DEF IndexInv
    <2>2. QED BY <1>1, <2>1
  <1>10. s \notin {r.source, r.target} BY <1>1, <1>8
  <1>11. ASSUME ~(r.source \in X /\ r.target \in X), r.source # r.target
         PROVE  Linked(relations', IF r.source \in X THEN s ELSE r.source, IF r.target \in X THEN s ELSE r.target, r.type)
    <2>1. Linked(Summarised(relations, X, s),
                 IF r.source \in X THEN s ELSE r.source, IF r.target \in X THEN s ELSE r.target, r.type)
      BY <1>1, <1>4, <1>6, <1>9, <1>10, <1>11, SummaryTakesAll
    <2>2. QED BY <1>5, <2>1
  <1>12. ASSUME r.source \in X, r.target \notin X
         PROVE  \E k \in relations' : /\ k.active /\ k.source = row'[r.source].succ
                                      /\ k.target = r.target /\ k.type = r.type
    <2>1. Linked(relations', s, r.target, r.type) BY <1>11, <1>12
    <2>2. row'[r.source].succ = s BY <1>2, <1>12
    <2>3. QED BY <2>1, <2>2 DEF Linked, SameKey
  <1>13. ASSUME r.target \in X, r.source \notin X
         PROVE  \E k \in relations' : /\ k.active /\ k.target = row'[r.target].succ
                                      /\ k.source = r.source /\ k.type = r.type
    <2>1. Linked(relations', r.source, s, r.type) BY <1>11, <1>13
    <2>2. row'[r.target].succ = s BY <1>2, <1>13
    <2>3. QED BY <2>1, <2>2 DEF Linked, SameKey
  <1>14. QED BY <1>7, <1>12, <1>13

\* Only a compression makes rows give way and changes relations in one step.
LEMMA RelationsOrRows ==
    ASSUME [IndexNext]_allVars, relations' # relations
    PROVE  row' = row \/ \E s, seed \in Ids : Compress(s, seed)
  <1>1. ASSUME NEW c \in Calls, Resume(c) PROVE row' = row
    <2>1. task[c].for = "detect" BY <1>1 DEF Resume
    <2>2. QED BY <1>1, <2>1 DEF Resume
  <1>2. QED
    BY <1>1 DEF IndexNext, allVars, indexVars, WarmUp, Store, Update, Replace, Delete, DetectAgain,
                RecallByKeyword, RecallByVector, AddRelation, RemoveRelation, ManagerWorks

\* Whatever an original was related to outside its cluster, the summary that
\* replaces it is related to in the same way (core/memory/compression.ts), for a
\* cluster of any size, whose relations are taken over one original at a time.
THEOREM SummariesKeepRelations == IndexSpec => CompressionKeepsRelations
  <1> DEFINE Kept ==
        LET gone == {m \in Ids : row[m].live /\ ~row'[m].live}
        IN relations' # relations =>
             \A r \in relations : r.active =>
               /\ r.source \in gone /\ r.target \notin gone =>
                    \E k \in relations' : /\ k.active /\ k.source = row'[r.source].succ
                                          /\ k.target = r.target /\ k.type = r.type
               /\ r.target \in gone /\ r.source \notin gone =>
                    \E k \in relations' : /\ k.active /\ k.target = row'[r.target].succ
                                          /\ k.source = r.source /\ k.type = r.type
  <1>1. ASSUME IndexInv, [IndexNext]_allVars PROVE Kept
    <2>1. CASE relations' = relations BY <2>1
    <2>2. CASE row' = row BY <2>2
    <2>3. ASSUME NEW s \in Ids, NEW seed \in Ids, Compress(s, seed) PROVE Kept
      BY <1>1, <2>3, SummaryIsRelated
    <2>4. QED BY <1>1, <2>1, <2>2, <2>3, RelationsOrRows
  <1>2. IndexInv /\ [IndexNext]_allVars => [Kept]_<<row, relations>> BY <1>1
  <1> QED BY <1>2, IndexInvariant, PTL DEF IndexSpec, CompressionKeepsRelations

-----------------------------------------------------------------------------
(***************************************************************************)
(* What a recall takes of what it has ranked, for any ranking, any limit,  *)
(* any contents and any types.                                             *)
(***************************************************************************)
Key(m) == Traits[m].key
Keys(s) == {Key(m) : m \in ToSet(s)}
Type(m) == Traits[m].type

Listing(ordered) ==
    /\ Len(ordered) \in Nat /\ DOMAIN ordered = 1..Len(ordered)
    /\ \A i, j \in DOMAIN ordered : ordered[i] = ordered[j] => i = j

\* What may be selected of a list: no content twice.
Picks(ordered, limit) ==
    {s \in Seq(ToSet(ordered)) : /\ Len(s) <= limit
                                 /\ \A i, j \in DOMAIN s : Key(s[i]) = Key(s[j]) => i = j}

Place(ordered, m) == CHOOSE i \in DOMAIN ordered : ordered[i] = m
Foremost(ordered, m) ==
    \A o \in ToSet(ordered) : Type(o) = Type(m) => Place(ordered, m) <= Place(ordered, o)

\* The two folds of a selection.
AnchorsOf(ordered, limit, types) ==
    FoldLeft(LAMBDA selected, type : Anchored(selected, type, ordered, limit), <<>>, types)
Filled(ordered, limit, start) ==
    FoldLeft(LAMBDA selected, m : TrySelect(selected, m, limit), start, ordered)

LEMMA Placed ==
    ASSUME NEW ordered, Listing(ordered)
    PROVE  /\ \A i \in DOMAIN ordered : Place(ordered, ordered[i]) = i
           /\ \A m \in ToSet(ordered) :
                Place(ordered, m) \in DOMAIN ordered /\ ordered[Place(ordered, m)] = m
  BY DEF Listing, Place, ToSet

LEMMA Tried ==
    ASSUME NEW ordered, NEW limit \in Nat, NEW s \in Picks(ordered, limit), NEW m \in ToSet(ordered)
    PROVE  /\ TrySelect(s, m, limit) \in Picks(ordered, limit)
           /\ ToSet(s) \subseteq ToSet(TrySelect(s, m, limit))
           /\ Len(s) = limit => TrySelect(s, m, limit) = s
           /\ Len(TrySelect(s, m, limit)) = limit \/ Key(m) \in Keys(TrySelect(s, m, limit))
           /\ \A o \in ToSet(TrySelect(s, m, limit)) : o \notin ToSet(s) => o = m /\ Len(s) # limit
  <1> DEFINE O == ToSet(ordered)
  <1>1. s \in Seq(O) /\ Len(s) \in Nat /\ Len(s) <= limit /\ DOMAIN s = 1..Len(s)
    BY DEF Picks
  <1>2. \A i, j \in DOMAIN s : Key(s[i]) = Key(s[j]) => i = j BY DEF Picks
  <1>3. TrySelect(s, m, limit) = IF Len(s) >= limit \/ \E i \in DOMAIN s : Key(s[i]) = Key(m)
                                 THEN s ELSE Append(s, m)
    BY DEF TrySelect, Key
  <1>4. CASE Len(s) >= limit \/ \E i \in DOMAIN s : Key(s[i]) = Key(m)
    <2>1. TrySelect(s, m, limit) = s BY <1>3, <1>4
    <2>2. Len(s) = limit \/ Key(m) \in Keys(s) BY <1>1, <1>4 DEF Keys, ToSet
    <2>3. QED BY <2>1, <2>2
  <1>5. CASE ~(Len(s) >= limit \/ \E i \in DOMAIN s : Key(s[i]) = Key(m))
    <2> DEFINE t == Append(s, m)
               last == Len(s) + 1
    <2>1. TrySelect(s, m, limit) = t BY <1>3, <1>5
    <2>2. Len(s) < limit /\ \A i \in DOMAIN s : Key(s[i]) # Key(m) BY <1>1, <1>5
    <2>3. /\ t \in Seq(O) /\ Len(t) = last /\ DOMAIN t = 1..last
          /\ \A i \in DOMAIN s : t[i] = s[i]
          /\ t[last] = m
      BY <1>1
    <2>4. DOMAIN t = DOMAIN s \cup {last} BY <1>1, <2>3
    <2> HIDE DEF t
    <2>5. \A i, j \in DOMAIN t : Key(t[i]) = Key(t[j]) => i = j BY <1>2, <2>2, <2>3, <2>4
    <2>6. Len(t) <= limit BY <1>1, <2>2, <2>3
    <2>7. t \in Picks(ordered, limit) BY <2>3, <2>5, <2>6 DEF Picks
    <2>8. ToSet(t) = ToSet(s) \cup {m}
      <3>1. \A i \in DOMAIN s : t[i] = s[i] BY <2>3
      <3>2. t[last] = m BY <2>3
      <3> HIDE DEF last
      <3>3. QED BY <2>4, <3>1, <3>2 DEF ToSet
    <2>9. Key(m) \in Keys(t) BY <2>8 DEF Keys
    <2>10. Len(s) # limit
      <3>1. \A k \in Nat : k < limit => k # limit OBVIOUS
      <3>2. Len(s) \in Nat /\ Len(s) < limit BY <1>1, <2>2
      <3>3. QED BY <3>1, <3>2
    <2>11. QED BY <2>1, <2>7, <2>8, <2>9, <2>10
  <1>6. QED BY <1>4, <1>5

LEMMA FinitePlaces ==
    ASSUME NEW s, Len(s) \in Nat, DOMAIN s = 1..Len(s)
    PROVE  IsFiniteSet(DOMAIN s)
  <1>1. 1 \in Int /\ Len(s) \in Int OBVIOUS
  <1>2. IsFiniteSet(1..Len(s)) BY <1>1, FS_Interval
  <1>3. QED BY <1>2

\* The greatest of a set of positions.
LEMMA GreatestPlace ==
    ASSUME NEW s, Len(s) \in Nat, DOMAIN s = 1..Len(s), NEW T \in SUBSET DOMAIN s, T # {}
    PROVE  Max(T) \in T /\ \A i \in T : i <= Max(T)
  <1>1. \A i \in T : i \in Nat OBVIOUS
  <1>2. IsFiniteSet(T) BY FinitePlaces, FS_Subset
  <1>3. \E k \in T : \A i \in T : i <= k BY <1>1, <1>2, GreatestNatural
  <1>4. QED BY <1>1, <1>3 DEF Max

LEMMA NonePicked ==
    ASSUME NEW ordered, NEW limit \in Nat
    PROVE  <<>> \in Picks(ordered, limit) /\ ToSet(<<>>) = {}
  <1>1. <<>> \in Seq(ToSet(ordered)) /\ Len(<<>>) = 0 /\ DOMAIN <<>> = {} OBVIOUS
  <1>2. QED BY <1>1 DEF Picks, ToSet

\* A fold over the places of a list, each taken after those before it.
FoldedList(f, s, A, start, G) ==
    /\ f \in [SUBSET DOMAIN s -> A]
    /\ \A T \in SUBSET DOMAIN s : f[T] = IF T = {} THEN start ELSE G[<<Max(T), f[T \ {Max(T)}]>>]

LEMMA ListFolds ==
    ASSUME NEW s, Len(s) \in Nat, DOMAIN s = 1..Len(s), NEW A, NEW start \in A,
           NEW G, \A i \in DOMAIN s, a \in A : G[<<i, a>>] \in A
    PROVE  \E f : FoldedList(f, s, A, start, G)
  <1> DEFINE X == DOMAIN s
             ch == [T \in SUBSET X |-> Max(T)]
  <1>1. IsFiniteSet(X) BY FinitePlaces
  <1>2. \A T \in SUBSET X : T # {} => Max(T) \in T BY GreatestPlace
  <1>3. \A T \in SUBSET X : T # {} => ch[T] \in T BY <1>2
  <1>4. \A T \in SUBSET X : ch[T] = Max(T) OBVIOUS
  <1> HIDE DEF ch, X
  <1>5. \A i \in X, a \in A : G[<<i, a>>] \in A BY DEF X
  <1>6. Foldable(X, A, start, ch, G) BY <1>1, <1>3, <1>5 DEF Foldable
  <1>7. PICK f : FoldedBy(f, X, A, start, ch, G) BY <1>6, FoldExists
  <1>8. f \in [SUBSET X -> A] /\ \A T \in SUBSET X :
          f[T] = IF T = {} THEN start ELSE G[<<Max(T), f[T \ {Max(T)}]>>]
    BY <1>4, <1>7 DEF FoldedBy
  <1>9. FoldedList(f, s, A, start, G) BY <1>8 DEF X, FoldedList
  <1>10. QED BY <1>9

LEMMA AnchorTried ==
    ASSUME NEW ordered, Listing(ordered), NEW limit \in Nat, NEW s \in Picks(ordered, limit), NEW type
    PROVE  /\ Anchored(s, type, ordered, limit) \in Picks(ordered, limit)
           /\ \A m \in ToSet(Anchored(s, type, ordered, limit)) : m \notin ToSet(s) =>
                /\ Type(m) = type
                /\ (\A o \in ToSet(s) : Type(o) # type) => Foremost(ordered, m)
  <1> DEFINE left == {i \in DOMAIN ordered : /\ Type(ordered[i]) = type
                                             /\ ordered[i] \notin ToSet(s)}
             first == Min(left)
  <1>1. Anchored(s, type, ordered, limit) = IF left = {} THEN s ELSE TrySelect(s, ordered[first], limit)
    BY DEF Anchored, Type
  <1>2. CASE left = {} BY <1>1, <1>2
  <1>3. CASE left # {}
    <2>1. left \subseteq Nat BY DEF Listing
    <2>2. \E i \in left : \A j \in left : i <= j BY <1>3, <2>1, LeastNatural
    <2>3. first \in left /\ \A j \in left : first <= j BY <2>1, <2>2 DEF Min
    <2> HIDE DEF first
    <2>4. first \in DOMAIN ordered /\ Type(ordered[first]) = type /\ ordered[first] \in ToSet(ordered)
      BY <2>3 DEF ToSet
    <2> DEFINE m == ordered[first]
    <2>5. /\ TrySelect(s, m, limit) \in Picks(ordered, limit)
          /\ \A o \in ToSet(TrySelect(s, m, limit)) : o \notin ToSet(s) => o = m /\ Len(s) # limit
      BY <2>4, Tried
    <2>6. ASSUME \A o \in ToSet(s) : Type(o) # type PROVE Foremost(ordered, m)
      <3>1. Place(ordered, m) = first BY <2>4, Placed
      <3>2. ASSUME NEW o \in ToSet(ordered), Type(o) = type PROVE first <= Place(ordered, o)
        <4>1. Place(ordered, o) \in DOMAIN ordered /\ ordered[Place(ordered, o)] = o BY Placed
        <4>2. o \notin ToSet(s) BY <2>6, <3>2
        <4>3. Place(ordered, o) \in left BY <3>2, <4>1, <4>2
        <4>4. QED BY <2>3, <4>3
      <3>3. QED BY <2>4, <3>1, <3>2 DEF Foremost
    <2>7. Anchored(s, type, ordered, limit) = TrySelect(s, m, limit) BY <1>1, <1>3
    <2> HIDE DEF m, left
    <2>8. Type(m) = type BY <2>4 DEF m
    <2>9. QED BY <2>5, <2>6, <2>7, <2>8
  <1>4. QED BY <1>2, <1>3

\* The anchors that are taken are the first of their types.
LEMMA AnchorsPicked ==
    ASSUME NEW ordered, Listing(ordered), NEW limit \in Nat, NEW types, Listing(types), NEW anchors,
           anchors = AnchorsOf(ordered, limit, types)
    PROVE  /\ anchors \in Picks(ordered, limit)
           /\ \A m \in ToSet(anchors) : Foremost(ordered, m) /\ Type(m) \in ToSet(types)
  <1> DEFINE X == DOMAIN types
             A == Picks(ordered, limit)
             Next(T, f) == IF T = {} THEN <<>> ELSE Anchored(f[T \ {Max(T)}], types[Max(T)], ordered, limit)
             iter == CHOOSE f : f = [T \in SUBSET X |-> Next(T, f)]
             G == [xa \in X \X A |-> Anchored(xa[2], types[xa[1]], ordered, limit)]
  <1>1. anchors = iter[X]
    BY Zenon DEF AnchorsOf, FoldLeft, MapThenFoldSet
  <1>2. Len(types) \in Nat /\ DOMAIN types = 1..Len(types) /\ \A i, j \in X : types[i] = types[j] => i = j
    BY DEF Listing
  <1>3. <<>> \in A BY NonePicked
  <1>4. \A i \in X, a \in A : Anchored(a, types[i], ordered, limit) \in A BY AnchorTried
  <1>5. \A T \in SUBSET X : T # {} => Max(T) \in T BY <1>2, GreatestPlace
  <1> HIDE DEF A
  <1>6. \A i \in X, a \in A : G[<<i, a>>] = Anchored(a, types[i], ordered, limit) OBVIOUS
  <1>7. \E f : f = [T \in SUBSET X |-> Next(T, f)]
    <2>1. \A i \in DOMAIN types, a \in A : G[<<i, a>>] \in A BY <1>4, <1>6
    <2> HIDE DEF G
    <2>10. PICK f : FoldedList(f, types, A, <<>>, G)
      <3>1. Len(types) \in Nat /\ DOMAIN types = 1..Len(types) BY <1>2
      <3> HIDE DEF Next, iter, X
      <3>2. QED BY <1>3, <2>1, <3>1, ListFolds
    <2>2. /\ f \in [SUBSET X -> A]
          /\ \A T \in SUBSET X : f[T] = IF T = {} THEN <<>> ELSE G[<<Max(T), f[T \ {Max(T)}]>>]
      BY <2>10 DEF FoldedList
    <2>3. ASSUME NEW T \in SUBSET X PROVE f[T] = Next(T, f)
      <3>1. CASE T = {} BY <2>2, <3>1
      <3>2. CASE T # {}
        <4>1. Max(T) \in X /\ T \ {Max(T)} \in SUBSET X BY <1>5, <3>2
        <4>2. f[T \ {Max(T)}] \in A BY <2>2, <4>1
        <4>3. QED BY <1>6, <2>2, <3>2, <4>1, <4>2
      <3>3. QED BY <3>1, <3>2
    <2> HIDE DEF Next, X
    <2>4. f = [T \in SUBSET X |-> Next(T, f)] BY <2>2, <2>3
    <2>5. QED BY <2>4
  <1>8. iter = [T \in SUBSET X |-> Next(T, iter)]
    <2> HIDE DEF X, Next
    <2>1. QED BY <1>7
  <1> HIDE DEF iter, G
  <1> DEFINE P == {T \in SUBSET X : /\ iter[T] \in A
                                    /\ \A m \in ToSet(iter[T]) :
                                         Foremost(ordered, m) /\ \E i \in T : Type(m) = types[i]}
  <1>9. {} \in P
    <2>1. iter[{}] = <<>> BY <1>8
    <2>2. ToSet(iter[{}]) = {} BY <2>1, NonePicked
    <2>3. QED BY <1>3, <2>1, <2>2
  <1>10. ASSUME NEW T \in SUBSET X, T # {}, \A x \in T : T \ {x} \in P PROVE T \in P
    <2> DEFINE last == Max(T)
               s == iter[T \ {last}]
    <2>1. last \in T /\ last \in X BY <1>5, <1>10
    <2>2. iter[T] = Anchored(s, types[last], ordered, limit) BY <1>8, <1>10
    <2>3. /\ s \in A
          /\ \A m \in ToSet(s) : Foremost(ordered, m) /\ \E i \in T \ {last} : Type(m) = types[i]
      BY <1>10, <2>1
    <2> HIDE DEF s, last
    <2>4. \A m \in ToSet(s) : Type(m) # types[last] BY <1>2, <2>1, <2>3
    <2> DEFINE t == Anchored(s, types[last], ordered, limit)
    <2>5. s \in Picks(ordered, limit) BY <2>3 DEF A
    <2>6. /\ t \in Picks(ordered, limit)
          /\ \A m \in ToSet(t) : m \notin ToSet(s) =>
               /\ Type(m) = types[last]
               /\ (\A o \in ToSet(s) : Type(o) # types[last]) => Foremost(ordered, m)
      BY <2>5, AnchorTried
    <2>7. iter[T] = t BY <2>2
    <2> HIDE DEF t
    <2>8. iter[T] \in A BY <2>6, <2>7 DEF A
    <2>9. \A m \in ToSet(iter[T]) : Foremost(ordered, m) /\ \E i \in T : Type(m) = types[i]
      BY <2>1, <2>3, <2>4, <2>6, <2>7
    <2>10. QED BY <2>8, <2>9
  <1> HIDE DEF P
  <1>11. X \in P
    <2>1. IsFiniteSet(X) BY <1>2, FinitePlaces
    <2> HIDE DEF X, Next
    <2>2. \A T \in SUBSET X : T \in P BY <1>9, <1>10, <2>1, SubsetInduction
    <2>3. QED BY <2>2
  <1>12. QED BY <1>1, <1>11 DEF P, A, ToSet

\* After the places of T: either all are taken that may be, or each of them is
\* there by its content; and one that was added found those before it there.
Follows(ordered, limit, start, T, s) ==
    /\ s \in Picks(ordered, limit)
    /\ Len(s) = limit \/ \A j \in T : Key(ordered[j]) \in Keys(s)
    /\ \A m \in ToSet(s) : \/ m \in ToSet(start)
                          \/ \E p \in T : /\ ordered[p] = m
                                         /\ \A j \in T : j < p => Key(ordered[j]) \in Keys(s)

LEMMA FollowsOne ==
    ASSUME NEW ordered, Listing(ordered), NEW limit \in Nat, NEW start,
           NEW T \in SUBSET DOMAIN ordered, NEW last \in T, \A i \in T : i <= last,
           NEW s, Follows(ordered, limit, start, T \ {last}, s)
    PROVE  Follows(ordered, limit, start, T, TrySelect(s, ordered[last], limit))
  <1> DEFINE m == ordered[last]
             t == TrySelect(s, m, limit)
             before == T \ {last}
  <1>1. /\ s \in Picks(ordered, limit)
        /\ Len(s) = limit \/ \A j \in before : Key(ordered[j]) \in Keys(s)
        /\ \A o \in ToSet(s) : \/ o \in ToSet(start)
                              \/ \E p \in before : /\ ordered[p] = o
                                                  /\ \A j \in before : j < p => Key(ordered[j]) \in Keys(s)
    BY DEF Follows
  <1>2. m \in ToSet(ordered) BY DEF ToSet
  <1>3. /\ t \in Picks(ordered, limit)
        /\ ToSet(s) \subseteq ToSet(t)
        /\ Len(s) = limit => t = s
        /\ Len(t) = limit \/ Key(m) \in Keys(t)
        /\ \A o \in ToSet(t) : o \notin ToSet(s) => o = m /\ Len(s) # limit
    BY <1>1, <1>2, Tried
  <1> HIDE DEF t
  <1>4. Keys(s) \subseteq Keys(t) BY <1>3 DEF Keys
  <1>5. Len(t) = limit \/ \A j \in T : Key(ordered[j]) \in Keys(t)
    BY <1>1, <1>3, <1>4
  <1>6. ASSUME NEW o \in ToSet(t), o \notin ToSet(start)
        PROVE  \E p \in T : ordered[p] = o /\ \A j \in T : j < p => Key(ordered[j]) \in Keys(t)
    <2>0. \A i \in T : i \in Nat BY DEF Listing
    <2>1. CASE o \in ToSet(s)
      <3>1. PICK p \in before : /\ ordered[p] = o
                               /\ \A j \in before : j < p => Key(ordered[j]) \in Keys(s)
        BY <1>1, <1>6, <2>1
      <3>2. p \in T /\ ~(last < p) BY <2>0, <3>1
      <3>3. \A j \in T : j < p => Key(ordered[j]) \in Keys(t) BY <1>4, <3>1, <3>2
      <3>4. QED BY <3>1, <3>2, <3>3
    <2>2. CASE o \notin ToSet(s)
      <3>1. o = m /\ \A j \in before : Key(ordered[j]) \in Keys(s) BY <1>1, <1>3, <2>2
      <3>2. ~(last < last) BY <2>0
      <3>3. \A j \in T : j < last => Key(ordered[j]) \in Keys(t) BY <1>4, <3>1, <3>2
      <3>4. QED BY <3>1, <3>3
    <2>3. QED BY <2>1, <2>2
  <1>7. Follows(ordered, limit, start, T, t) BY <1>3, <1>5, <1>6 DEF Follows
  <1>8. QED BY <1>7 DEF t

\* The others are taken in their order.
LEMMA OthersPicked ==
    ASSUME NEW ordered, Listing(ordered), NEW limit \in Nat, NEW start \in Picks(ordered, limit), NEW top,
           top = Filled(ordered, limit, start)
    PROVE  Follows(ordered, limit, start, DOMAIN ordered, top)
  <1> DEFINE X == DOMAIN ordered
             A == Picks(ordered, limit)
             Next(T, f) == IF T = {} THEN start ELSE TrySelect(f[T \ {Max(T)}], ordered[Max(T)], limit)
             iter == CHOOSE f : f = [T \in SUBSET X |-> Next(T, f)]
             G == [xa \in X \X A |-> TrySelect(xa[2], ordered[xa[1]], limit)]
  <1>1. top = iter[X]
    BY Zenon DEF Filled, FoldLeft, MapThenFoldSet
  <1>2. Len(ordered) \in Nat /\ DOMAIN ordered = 1..Len(ordered) BY DEF Listing
  <1>3. start \in A OBVIOUS
  <1>4. ASSUME NEW i \in X, NEW a \in A PROVE TrySelect(a, ordered[i], limit) \in A
    <2>1. ordered[i] \in ToSet(ordered) BY DEF ToSet
    <2>2. QED BY <2>1, Tried
  <1>5. \A T \in SUBSET X : T # {} => Max(T) \in T /\ \A i \in T : i <= Max(T) BY <1>2, GreatestPlace
  <1> HIDE DEF A
  <1>6. \A i \in X, a \in A : G[<<i, a>>] = TrySelect(a, ordered[i], limit) OBVIOUS
  <1>7. \E f : f = [T \in SUBSET X |-> Next(T, f)]
    <2>1. \A i \in DOMAIN ordered, a \in A : G[<<i, a>>] \in A BY <1>4, <1>6
    <2> HIDE DEF G
    <2>2. PICK f : FoldedList(f, ordered, A, start, G)
      <3> HIDE DEF Next, iter, X
      <3>1. QED BY <1>2, <1>3, <2>1, ListFolds
    <2>3. /\ f \in [SUBSET X -> A]
          /\ \A T \in SUBSET X : f[T] = IF T = {} THEN start ELSE G[<<Max(T), f[T \ {Max(T)}]>>]
      BY <2>2 DEF FoldedList
    <2>4. ASSUME NEW T \in SUBSET X PROVE f[T] = Next(T, f)
      <3>1. CASE T = {} BY <2>3, <3>1
      <3>2. CASE T # {}
        <4>1. Max(T) \in X /\ T \ {Max(T)} \in SUBSET X BY <1>5, <3>2
        <4>2. f[T \ {Max(T)}] \in A BY <2>3, <4>1
        <4>3. QED BY <1>6, <2>3, <3>2, <4>1, <4>2
      <3>3. QED BY <3>1, <3>2
    <2> HIDE DEF Next, X
    <2>5. f = [T \in SUBSET X |-> Next(T, f)] BY <2>3, <2>4
    <2>6. QED BY <2>5
  <1>8. iter = [T \in SUBSET X |-> Next(T, iter)]
    <2> HIDE DEF X, Next
    <2>1. QED BY <1>7
  <1> HIDE DEF iter, G
  <1> DEFINE P == {T \in SUBSET X : Follows(ordered, limit, start, T, iter[T])}
  <1>9. {} \in P
    <2>1. iter[{}] = start BY <1>8
    <2>2. Follows(ordered, limit, start, {}, start) BY DEF Follows
    <2>3. QED BY <2>1, <2>2
  <1>10. ASSUME NEW T \in SUBSET X, T # {}, \A x \in T : T \ {x} \in P PROVE T \in P
    <2> DEFINE last == Max(T)
               s == iter[T \ {last}]
    <2>1. last \in T /\ \A i \in T : i <= last BY <1>5, <1>10
    <2>2. iter[T] = TrySelect(s, ordered[last], limit) BY <1>8, <1>10
    <2>3. Follows(ordered, limit, start, T \ {last}, s) BY <1>10, <2>1
    <2> HIDE DEF s, last, P
    <2>4. Follows(ordered, limit, start, T, TrySelect(s, ordered[last], limit))
      BY <2>1, <2>3, FollowsOne
    <2>5. QED BY <2>2, <2>4 DEF P
  <1> HIDE DEF P
  <1>11. X \in P
    <2>1. IsFiniteSet(X) BY <1>2, FinitePlaces
    <2> HIDE DEF X, Next
    <2>2. \A T \in SUBSET X : T \in P BY <1>9, <1>10, <2>1, SubsetInduction
    <2>3. QED BY <2>2
  <1>12. QED BY <1>1, <1>11 DEF P

\* Without two of the same content, there are as many contents as places.
LEMMA KeysCounted ==
    ASSUME NEW s, Len(s) \in Nat, DOMAIN s = 1..Len(s),
           \A i, j \in DOMAIN s : Key(s[i]) = Key(s[j]) => i = j
    PROVE  Cardinality(Keys(s)) = Len(s)
  <1> DEFINE f == [i \in 1..Len(s) |-> Key(s[i])]
             K == Keys(s)
  <1>1. \A i \in 1..Len(s) : f[i] \in K BY DEF Keys, ToSet
  <1>2. \A i, j \in 1..Len(s) : f[i] = f[j] => i = j OBVIOUS
  <1>3. \A k \in K : \E i \in 1..Len(s) : f[i] = k BY DEF Keys, ToSet
  <1>4. f \in [1..Len(s) -> K] BY <1>1
  <1> HIDE DEF f, K
  <1>5. f \in Bijection(1..Len(s), K)
    BY <1>2, <1>3, <1>4 DEF Bijection, Injection, Surjection, IsInjective
  <1>6. ExistsBijection(1..Len(s), K) BY <1>5 DEF ExistsBijection
  <1>7. QED BY <1>6, FS_CountingElements DEF K

LEMMA ListFinite ==
    ASSUME NEW s, Len(s) \in Nat, DOMAIN s = 1..Len(s)
    PROVE  IsFiniteSet(Keys(s)) /\ Cardinality(Keys(s)) \in Nat
  <1> DEFINE f == [i \in DOMAIN s |-> Key(s[i])]
             X == DOMAIN s
             K == Keys(s)
  <1>1. IsFiniteSet(X) BY FinitePlaces
  <1>2. \A i \in X : f[i] \in K BY DEF Keys, ToSet
  <1>3. \A k \in K : \E i \in X : f[i] = k BY DEF Keys, ToSet
  <1>4. f \in [X -> K] BY <1>2
  <1> HIDE DEF f, X, K
  <1>5. f \in Surjection(X, K) BY <1>3, <1>4 DEF Surjection
  <1>6. IsFiniteSet(K) BY <1>1, <1>5, FS_Surjection
  <1>7. QED BY <1>6, FS_CardinalityType DEF K

\* The reference for a selection, in terms of what was ranked.
ForemostOf(ordered, limit, route, top) ==
    /\ ToSet(top) \subseteq ToSet(ordered)
    /\ Cardinality(Keys(top)) = Len(top)
    /\ Len(top) = LeastOf(limit, Cardinality(Keys(ordered)))
    /\ \A out \in ToSet(ordered) \ ToSet(top), in \in ToSet(top) :
         Place(ordered, out) < Place(ordered, in) =>
           \/ \E same \in ToSet(top) : Key(same) = Key(out)
           \/ Foremost(ordered, in) /\ Type(in) \in ToSet(AnchorTypes(route))

LEMMA AnchorsListed == ASSUME NEW route PROVE Listing(AnchorTypes(route))
  <1>1. Listing(<<>>) BY DEF Listing
  <1>2. Listing(<<"commitment", "decision", "summary">>) BY DEF Listing
  <1>3. Listing(<<"decision", "summary", "project">>) BY DEF Listing
  <1>4. Listing(<<"summary", "project", "decision">>) BY DEF Listing
  <1>5. QED BY <1>1, <1>2, <1>3, <1>4 DEF AnchorTypes

LEMMA SelectedForemost ==
    ASSUME NEW ordered, Listing(ordered), NEW limit \in Nat, NEW route
    PROVE  ForemostOf(ordered, limit, route, Selected(ordered, limit, route))
  <1> DEFINE types == AnchorTypes(route)
             anchors == AnchorsOf(ordered, limit, types)
             top == Filled(ordered, limit, anchors)
  <1>1. Selected(ordered, limit, route) = top BY Zenon DEF Selected, Filled, AnchorsOf
  <1>2. Listing(types) BY AnchorsListed
  <1> HIDE DEF types
  <1>3. /\ anchors \in Picks(ordered, limit)
        /\ \A m \in ToSet(anchors) : Foremost(ordered, m) /\ Type(m) \in ToSet(types)
    BY <1>2, AnchorsPicked
  <1> HIDE DEF anchors
  <1>4. Follows(ordered, limit, anchors, DOMAIN ordered, top) BY <1>3, OthersPicked
  <1> HIDE DEF top
  <1>5. /\ Len(ordered) \in Nat /\ DOMAIN ordered = 1..Len(ordered)
        /\ top \in Seq(ToSet(ordered)) /\ Len(top) <= limit
        /\ \A i, j \in DOMAIN top : Key(top[i]) = Key(top[j]) => i = j
    BY <1>4 DEF Listing, Follows, Picks
  <1>6. Len(top) \in Nat /\ DOMAIN top = 1..Len(top) BY <1>5
  <1>7. ToSet(top) \subseteq ToSet(ordered)
    <2>1. \A i \in DOMAIN top : top[i] \in ToSet(ordered) BY <1>5, <1>6
    <2>2. QED BY <2>1 DEF ToSet
  <1>8. Cardinality(Keys(top)) = Len(top) BY <1>5, <1>6, KeysCounted
  <1>9. Len(top) = LeastOf(limit, Cardinality(Keys(ordered)))
    <2>1. Keys(top) \subseteq Keys(ordered) BY <1>7 DEF Keys
    <2>2. IsFiniteSet(Keys(ordered)) /\ Cardinality(Keys(ordered)) \in Nat BY <1>5, ListFinite
    <2>3. Len(top) <= Cardinality(Keys(ordered)) BY <1>8, <2>1, <2>2, FS_Subset
    <2>4. CASE Len(top) = limit BY <2>3, <2>4 DEF LeastOf
    <2>5. CASE \A j \in DOMAIN ordered : Key(ordered[j]) \in Keys(top)
      <3>1. Keys(ordered) \subseteq Keys(top) BY <2>5 DEF Keys, ToSet
      <3>2. Keys(ordered) = Keys(top) BY <2>1, <3>1
      <3>3. Len(top) = Cardinality(Keys(ordered)) BY <1>8, <3>2
      <3>4. QED BY <1>5, <2>2, <3>3 DEF LeastOf
    <2>6. QED BY <1>4, <2>4, <2>5 DEF Follows
  <1>10. ASSUME NEW out \in ToSet(ordered) \ ToSet(top), NEW in \in ToSet(top),
                Place(ordered, out) < Place(ordered, in)
         PROVE  \/ \E same \in ToSet(top) : Key(same) = Key(out)
                \/ Foremost(ordered, in) /\ Type(in) \in ToSet(types)
    <2>1. CASE in \in ToSet(anchors) BY <1>3, <2>1
    <2>2. CASE in \notin ToSet(anchors)
      <3>1. PICK p \in DOMAIN ordered :
              ordered[p] = in /\ \A j \in DOMAIN ordered : j < p => Key(ordered[j]) \in Keys(top)
        BY <1>4, <2>2 DEF Follows
      <3>2. Place(ordered, in) = p BY <3>1, Placed
      <3>3. Place(ordered, out) \in DOMAIN ordered /\ ordered[Place(ordered, out)] = out BY Placed
      <3>4. Key(out) \in Keys(top) BY <1>10, <3>1, <3>2, <3>3
      <3>5. QED BY <3>4 DEF Keys
    <2>3. QED BY <2>1, <2>2
  <1>11. QED BY <1>1, <1>7, <1>8, <1>9, <1>10 DEF ForemostOf, types

\* What the policies keep from a list of candidates.
Unsuppressed(ms, project) ==
    \A m \in ms : /\ Traits[m].class # "pending"
                  /\ project /\ Traits[m].class = "test" => \A o \in ms : Traits[o].class # "primary"

LEMMA SmallSample ==
    ASSUME NEW n \in Nat, NEW ms, IsFiniteSet(ms), NEW s \in AtMost(n, ms)
    PROVE  s \subseteq ms /\ (n = 0 => s = {})
  <1>1. s \subseteq ms /\ Cardinality(s) = LeastOf(n, Cardinality(ms)) BY DEF AtMost
  <1>2. IsFiniteSet(s) BY <1>1, FS_Subset
  <1>3. Cardinality(ms) \in Nat BY FS_CardinalityType
  <1>4. n = 0 => Cardinality(s) = 0 BY <1>1, <1>3 DEF LeastOf
  <1>5. QED BY <1>1, <1>2, <1>4, FS_EmptySet

LEMMA RetainedUnsuppressed ==
    ASSUME NEW candidates, IsFiniteSet(candidates), NEW limit \in Nat, NEW project \in BOOLEAN,
           NEW kept \in Retained(candidates, limit, project)
    PROVE  kept \subseteq candidates /\ Unsuppressed(kept, project)
  <1> DEFINE primary == OfClass(candidates, "primary")
             ordinary == Cardinality(primary)
             low == IF ordinary >= (IF project THEN MostOf(2, limit - 1) ELSE limit) THEN 0 ELSE 1
             tests == IF project THEN (IF ordinary > 0 THEN 0 ELSE 1)
                      ELSE IF ordinary >= limit THEN 0 ELSE MostOf(1, limit \div 2)
  <1>1. \A class : OfClass(candidates, class) \subseteq candidates BY DEF OfClass
  <1>2. \A class : IsFiniteSet(OfClass(candidates, class)) BY <1>1, FS_Subset
  <1>3. ordinary \in Nat BY <1>2, FS_CardinalityType
  <1>4. low \in Nat OBVIOUS
  <1>5. tests \in Nat
    <2>1. limit \div 2 \in Nat OBVIOUS
    <2>2. QED BY <2>1 DEF MostOf
  <1>6. kept \in {primary \cup l \cup t : l \in AtMost(low, OfClass(candidates, "low")),
                                        t \in AtMost(tests, OfClass(candidates, "test"))}
    BY SMT DEF Retained
  <1> DEFINE lows == AtMost(low, OfClass(candidates, "low"))
             samples == AtMost(tests, OfClass(candidates, "test"))
  <1>7. PICK l \in lows, t \in samples : kept = primary \cup l \cup t
    <2> HIDE DEF lows, samples, primary
    <2>1. kept \in {primary \cup l \cup t : l \in lows, t \in samples} BY SMT, <1>6 DEF lows, samples
    <2>2. QED BY <2>1
  <1>8. project /\ primary # {} => tests = 0
    <2>1. primary # {} => ordinary # 0 BY <1>2, FS_EmptySet
    <2>2. QED BY <1>3, <2>1
  <1> HIDE DEF low, tests
  <1>9. l \subseteq OfClass(candidates, "low") BY <1>2, <1>4, SmallSample
  <1>10. t \subseteq OfClass(candidates, "test") /\ (tests = 0 => t = {}) BY <1>2, <1>5, SmallSample
  <1>11. kept \subseteq candidates BY <1>1, <1>7, <1>9, <1>10
  <1>12. \A m \in kept : Traits[m].class # "pending" BY <1>7, <1>9, <1>10 DEF OfClass
  <1>13. ASSUME project, NEW m \in kept, Traits[m].class = "test", NEW o \in kept
         PROVE  Traits[o].class # "primary"
    <2>1. m \in t BY <1>7, <1>9, <1>13 DEF OfClass
    <2>2. primary = {} BY <1>8, <1>10, <1>13, <2>1
    <2>3. QED BY <1>7, <1>9, <1>10, <2>2 DEF OfClass
  <1>14. QED BY <1>11, <1>12, <1>13 DEF Unsuppressed

LEMMA CandidatesOfPool ==
    ASSUME NEW pool, NEW strategy, NEW query, NEW project
    PROVE  Candidates(pool, strategy, query, project) \subseteq pool
  BY DEF Candidates, Loaded, FullText

LEMMA RankedOfKept ==
    ASSUME NEW strategy \in {"structured", "keyword", "hybrid"}, NEW kept, NEW query,
           NEW found \in Rankable(strategy, kept, query)
    PROVE  found \subseteq kept
  <1>1. Matched(kept, query) \subseteq kept BY DEF Matched
  <1>2. QED BY <1>1 DEF Rankable

LEMMA OrderedIsListing ==
    ASSUME NEW ms, IsFiniteSet(ms), NEW joined, NEW project, NEW ordered \in HighFirst(ms, joined, project)
    PROVE  Listing(ordered) /\ ToSet(ordered) \subseteq ms
  <1> DEFINE n == Cardinality(ms)
  <1>1. ordered \in SetToSeqs(ms) BY DEF HighFirst
  <1>2. ordered \in [1..n -> ms] /\ \A i, j \in 1..n : i # j => ordered[i] # ordered[j]
    BY <1>1, Zenon DEF SetToSeqs
  <1>3. n \in Nat BY FS_CardinalityType
  <1> HIDE DEF n
  <1>4. ordered \in Seq(ms) BY <1>2, <1>3, SeqDef
  <1>5. Len(ordered) \in Nat /\ DOMAIN ordered = 1..Len(ordered) BY <1>4
  <1>6. DOMAIN ordered = 1..n BY <1>2
  <1>7. \A i \in DOMAIN ordered : ordered[i] \in ms BY <1>2, <1>6
  <1>8. \A i, j \in DOMAIN ordered : ordered[i] = ordered[j] => i = j BY <1>2, <1>6
  <1>9. QED BY <1>5, <1>7, <1>8 DEF Listing, ToSet

-----------------------------------------------------------------------------
\* What holds of a selection, however it came to be.
Done(sel) ==
    /\ ForemostOf(sel.ordered, sel.limit, sel.route, sel.top)
    /\ Unsuppressed(ToSet(sel.ordered) \ sel.joined, sel.project)

LEMMA NothingDone == Done(NoSelection)
  <1> DEFINE none == <<>>
  <1>1. Len(none) = 0 /\ DOMAIN none = {} OBVIOUS
  <1> HIDE DEF none
  <1>2. ToSet(none) = {} BY <1>1 DEF ToSet
  <1>3. Keys(none) = {} BY <1>2 DEF Keys
  <1>4. Cardinality({}) = 0 BY FS_EmptySet
  <1>5. LeastOf(0, 0) = 0 BY DEF LeastOf
  <1>6. ForemostOf(none, 0, "none", none) BY <1>1, <1>2, <1>3, <1>4, <1>5 DEF ForemostOf
  <1>7. Unsuppressed({}, FALSE) BY DEF Unsuppressed
  <1>8. NoSelection = [ordered |-> none, joined |-> {}, limit |-> 0, route |-> "none",
                       project |-> FALSE, top |-> none]
    BY DEF NoSelection, none
  <1>9. QED BY <1>2, <1>6, <1>7, <1>8 DEF Done

LEMMA RecalledDone ==
    ASSUME NEW pool \in SUBSET Pool, NEW mode \in {"structured", "keyword", "hybrid"},
           NEW semantic \in BOOLEAN, NEW query, NEW limit \in Nat, NEW project \in BOOLEAN, NEW route,
           Recalled(pool, mode, semantic, query, limit, project, route)
    PROVE  Done(selection')
  <1> DEFINE strategy == Strategy(mode, semantic)
             candidates == Candidates(pool, strategy, query, project)
             gives(kept, found, joined, ordered) ==
               selection' = [ordered |-> ordered, joined |-> joined, limit |-> limit, route |-> route,
                             project |-> project, top |-> Selected(ordered, limit, route)]
  <1>1. PICK kept \in Retained(candidates, limit, project) :
          \E found \in Rankable(strategy, kept, query) : \E joined \in Joining(strategy, found) :
          \E ordered \in HighFirst(found \cup joined, joined, project) :
            gives(kept, found, joined, ordered)
    BY Zenon DEF Recalled
  <1> HIDE DEF gives
  <1>2. PICK found \in Rankable(strategy, kept, query) : \E joined \in Joining(strategy, found) :
          \E ordered \in HighFirst(found \cup joined, joined, project) :
            gives(kept, found, joined, ordered)
    BY Zenon, <1>1
  <1>3. PICK joined \in Joining(strategy, found) :
          \E ordered \in HighFirst(found \cup joined, joined, project) :
            gives(kept, found, joined, ordered)
    BY Zenon, <1>2
  <1>4. PICK ordered \in HighFirst(found \cup joined, joined, project) :
            gives(kept, found, joined, ordered)
    BY Zenon, <1>3
  <1>5. strategy \in {"structured", "keyword", "hybrid"} BY DEF Strategy
  <1>6. candidates \subseteq Pool BY CandidatesOfPool
  <1> HIDE DEF strategy, candidates
  <1>7. IsFiniteSet(candidates) BY <1>6, FS_Subset, SelectionAssumption
  <1>8. kept \subseteq candidates /\ Unsuppressed(kept, project) BY <1>7, RetainedUnsuppressed
  <1>9. found \subseteq kept BY <1>5, RankedOfKept
  <1>10. joined \subseteq Pool BY SelectionAssumption DEF Joining
  <1>11. IsFiniteSet(found \cup joined)
    <2>1. found \cup joined \subseteq Pool BY <1>6, <1>8, <1>9, <1>10
    <2>2. QED BY <2>1, FS_Subset, SelectionAssumption
  <1>12. Listing(ordered) /\ ToSet(ordered) \subseteq found \cup joined BY <1>11, OrderedIsListing
  <1>13. ForemostOf(ordered, limit, route, Selected(ordered, limit, route)) BY <1>12, SelectedForemost
  <1>14. ToSet(ordered) \ joined \subseteq kept BY <1>9, <1>12
  <1>15. Unsuppressed(ToSet(ordered) \ joined, project) BY <1>8, <1>14 DEF Unsuppressed
  <1> DEFINE top == Selected(ordered, limit, route)
  <1> HIDE DEF top
  <1>16. selection' = [ordered |-> ordered, joined |-> joined, limit |-> limit, route |-> route,
                       project |-> project, top |-> top]
    BY <1>4 DEF gives, top
  <1>17. ForemostOf(ordered, limit, route, top) BY <1>13 DEF top
  <1>18. QED BY <1>15, <1>16, <1>17 DEF Done

LEMMA LeastNat == \A x, y \in Nat : LeastOf(x, y) \in Nat BY DEF LeastOf

LEMMA IntentLimitNat ==
    ASSUME NEW need \in {"light", "targeted", "deep"}, NEW asked \in Nat, NEW route
    PROVE  IntentLimit(need, asked, route) \in Nat
  <1>1. NeededLimit(need, asked) \in Nat BY DEF NeededLimit, LeastOf, MostOf
  <1>2. RouteLimit(route) \in Nat BY DEF RouteLimit
  <1>3. QED BY <1>1, <1>2, LeastNat, SelectionAssumption DEF IntentLimit

\* The need of a message is one of the known ones, whatever a model makes of it.
Needs == {"none", "light", "targeted", "deep"}
LEMMA IntentTypeKnown ==
    ASSUME NEW signs
    PROVE  IntentType(signs) \in {"correction", "preference", "status_update", "planning",
                                  "instruction", "question", "other"}
  <1> DEFINE found == {i \in DOMAIN Families : Families[i] \in signs}
  <1>1. IntentType(signs) = IF found = {} THEN "other" ELSE Families[Min(found)] BY DEF IntentType
  <1>2. CASE found = {} BY <1>1, <1>2
  <1>3. CASE found # {}
    <2>1. found \subseteq 1..6 BY DEF Families
    <2>2. found \subseteq Nat BY <2>1
    <2>3. \E i \in found : \A j \in found : i <= j BY <1>3, <2>2, LeastNatural
    <2>4. Min(found) \in 1..6 BY <2>1, <2>3 DEF Min
    <2>5. \A i \in 1..6 : Families[i] \in {"correction", "preference", "status_update", "planning",
                                           "instruction", "question", "other"}
      BY DEF Families
    <2>6. QED BY <1>1, <1>3, <2>4, <2>5
  <1>4. QED BY <1>2, <1>3

LEMMA NeedKnown ==
    ASSUME NEW signs, NEW enrichment \in Enrichment, NEW fallback,
           NEW intent \in Analyzed(signs, enrichment, fallback)
    PROVE  intent.need \in Needs
  <1> DEFINE plain == Heuristics(signs)
  <1>1. plain.need \in Needs
    <2>1. plain.need = MemoryNeed(IntentType(signs), signs) BY DEF Heuristics
    <2>2. QED BY <2>1, IntentTypeKnown DEF MemoryNeed, Needs
  <1>2. "need" \in DOMAIN plain BY DEF Heuristics
  <1>3. ASSUME NEW parts, NEW answer, answer = Enriched(plain, Usable(parts)) PROVE answer.need \in Needs
    <2> DEFINE usable == Usable(parts)
    <2>1. "need" \in DOMAIN usable => usable["need"] \in Needs
      <3> DEFINE known(part) ==
                   CASE part = "type" -> parts[part] \in ToSet(Families) \cup {"other"}
                     [] part = "need" -> parts[part] \in {"none", "light", "targeted", "deep"}
                     [] OTHER -> TRUE
      <3>1. usable = [part \in {p \in DOMAIN parts : known(p)} |-> parts[part]]
        BY Zenon DEF Usable
      <3>2. known("need") => parts["need"] \in Needs BY DEF Needs
      <3> HIDE DEF known, usable
      <3>3. QED BY <3>1, <3>2
    <2>2. answer["need"] = IF "need" \in DOMAIN usable THEN usable["need"] ELSE plain["need"]
      <3> HIDE DEF usable, plain
      <3>1. answer = Enriched(plain, usable) BY <1>3 DEF usable, plain
      <3>2. QED BY <1>2, <3>1 DEF Enriched
    <2> HIDE DEF usable, plain
    <2>3. QED BY <1>1, <2>1, <2>2
  <1>4. intent = plain \/ \E parts : intent = Enriched(plain, Usable(parts))
    <2>1. enrichment.kind \in {"unused", "failed", "answered"}
      BY DEF Enrichment, Unused, Failed, Answered
    <2> DEFINE merged == Enriched(plain, Usable(enrichment.parts))
    <2>2. Analyzed(signs, enrichment, fallback) \subseteq {plain, merged}
      <3> HIDE DEF merged, plain
      <3>1. Analyzed(signs, enrichment, fallback) =
              CASE enrichment.kind = "unused" -> {plain}
                [] enrichment.kind = "failed" -> IF fallback THEN {plain} ELSE {}
                [] enrichment.kind = "answered" -> {merged}
        BY Zenon DEF Analyzed, merged, plain
      <3>2. QED BY <2>1, <3>1
    <2>3. intent \in {plain, merged} BY <2>2
    <2>4. QED BY <2>3
  <1>5. QED BY <1>1, <1>3, <1>4

LEMMA SelectionDone ==
    ASSUME [SelectionNext]_selection, Done(selection)
    PROVE  Done(selection')
  <1>1. CASE UNCHANGED selection BY <1>1
  <1>2. CASE SelectionNext
    <2>1. PICK query \in Seq(STRING), asked \in Nat, semantic \in BOOLEAN, scoped \in BOOLEAN,
               signalled \in BOOLEAN, scores \in UNION {[kinds -> Nat] : kinds \in SUBSET RouteKinds} :
            \/ \E mode \in {"structured", "keyword", "hybrid"} :
                 Recall(mode, semantic, query, asked, scores, scoped, signalled)
            \/ \E signs \in SUBSET (ToSet(Families) \cup {"cue"}), enrichment \in Enrichment,
                 fallback, long \in BOOLEAN :
               \E intent \in Analyzed(signs, enrichment, fallback) :
                 RecallForIntent(semantic, intent, query, long, asked, scores, scoped, signalled)
      BY <1>2, Zenon DEF SelectionNext
    <2>2. ASSUME NEW mode \in {"structured", "keyword", "hybrid"},
                 Recall(mode, semantic, query, asked, scores, scoped, signalled)
          PROVE  Done(selection')
      <3> DEFINE route == Route(scores, scoped, signalled)
                 limit == LeastOf(asked, MostRecalled)
                 project == signalled \/ route # "none"
      <3>1. Recalled(Pool, mode, semantic, query, limit, project, route) BY <2>2, Zenon DEF Recall
      <3>2. limit \in Nat BY LeastNat, SelectionAssumption
      <3>3. project \in BOOLEAN OBVIOUS
      <3>4. Pool \in SUBSET Pool OBVIOUS
      <3> HIDE DEF route, limit, project
      <3>5. QED BY <3>1, <3>2, <3>3, <3>4, RecalledDone
    <2>3. ASSUME NEW signs, NEW enrichment \in Enrichment, NEW fallback, NEW long \in BOOLEAN,
                 NEW intent \in Analyzed(signs, enrichment, fallback),
                 RecallForIntent(semantic, intent, query, long, asked, scores, scoped, signalled)
          PROVE  Done(selection')
      <3> DEFINE oriented == signalled \/ intent.type \in {"planning", "status_update"}
                 route == Route(scores, scoped, oriented)
                 project == oriented \/ route # "none"
                 mode == IF intent.need = "deep" THEN "hybrid" ELSE "keyword"
                 pool == Filtered(RouteTypes(route) \cup intent.types, Lifecycles(intent.need, project))
                 limit == IntentLimit(intent.need, asked, route)
      <3>1. CASE intent.need = "none"
        <4>1. selection' = NoSelection BY <2>3, <3>1 DEF RecallForIntent
        <4>2. QED BY <4>1, NothingDone
      <3>2. CASE intent.need # "none"
        <4>1. PICK meant \in IntentQueries(intent.need, query, long) :
                Recalled(pool, mode, semantic, IF route = "none" THEN meant ELSE Append(meant, RouteWord),
                         limit, project, route)
          BY <2>3, <3>2, Zenon DEF RecallForIntent
        <4> DEFINE asking == IF route = "none" THEN meant ELSE Append(meant, RouteWord)
        <4>2. Recalled(pool, mode, semantic, asking, limit, project, route) BY <4>1
        <4>3. intent.need \in {"light", "targeted", "deep"} BY <3>2, NeedKnown DEF Needs
        <4>4. limit \in Nat BY <4>3, IntentLimitNat
        <4>5. project \in BOOLEAN /\ mode \in {"structured", "keyword", "hybrid"} OBVIOUS
        <4>6. pool \in SUBSET Pool BY DEF Filtered
        <4> HIDE DEF asking, limit, project, mode, pool, route
        <4>7. QED BY <4>2, <4>4, <4>5, <4>6, RecalledDone
      <3>3. QED BY <3>1, <3>2
    <2>4. QED BY <2>1, <2>2, <2>3
  <1>3. QED BY <1>1, <1>2

\* The inductive invariant: each recall determines the whole of selection anew.
SelectionInv == Done(selection)

LEMMA SelectionInvariant == SelectionSpec => []SelectionInv
  <1>1. SelectionInit => SelectionInv BY NothingDone DEF SelectionInit, SelectionInv
  <1>2. SelectionInv /\ [SelectionNext]_selection => SelectionInv'
    BY SelectionDone DEF SelectionInv
  <1>3. QED BY <1>1, <1>2, PTL DEF SelectionSpec

\* What a recall returns is what the loops of selectTopRanked are for
\* (retrieval/strategies/structured.ts): as many as the limit and the contents
\* allow, each content once, none passed over but for the same content or for
\* the first of an anchor's type, whatever was ranked in whatever order.
THEOREM RecallsTakeForemost == SelectionSpec => []ForemostSelected
  <1>1. SelectionInv => ForemostSelected
    <2> SUFFICES ASSUME SelectionInv PROVE ForemostSelected OBVIOUS
    <2>1. ForemostOf(selection.ordered, selection.limit, selection.route, selection.top)
      BY DEF SelectionInv, Done
    <2>2. QED BY <2>1, Zenon DEF ForemostOf, ForemostSelected, Keys, Key, Type, Place, Foremost
  <1>2. QED BY <1>1, SelectionInvariant, PTL

\* Only a relation leads a recall to a memory that the candidate policies keep
\* from it (retrieval/strategies/policy.ts): one that is contradicted, or a test sample
\* beside an ordinary memory in a recall about a project.
THEOREM SuppressedNeverRecalled == SelectionSpec => []SuppressedStaysOut
  <1>1. SelectionInv => SuppressedStaysOut
    <2> SUFFICES ASSUME SelectionInv PROVE SuppressedStaysOut OBVIOUS
    <2>1. /\ ToSet(selection.top) \subseteq ToSet(selection.ordered)
          /\ Unsuppressed(ToSet(selection.ordered) \ selection.joined, selection.project)
      BY DEF SelectionInv, Done, ForemostOf
    <2>2. QED BY <2>1 DEF Unsuppressed, SuppressedStaysOut
  <1>2. QED BY <1>1, SelectionInvariant, PTL
=============================================================================
