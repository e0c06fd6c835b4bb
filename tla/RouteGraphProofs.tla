-------------------------- MODULE RouteGraphProofs --------------------------
(***************************************************************************)
(* The shortest-path search on any graph: the search that has returned has *)
(* the cost and the path of a cheapest way to the target.                  *)
(***************************************************************************)
EXTENDS RouteGraph, FiniteSetTheorems, WellFoundedInduction, TLAPS

USE Zenon

\* A path with one more predecessor pushed, read from its start (path.reverse).
LEMMA Prepended ==
  ASSUME NEW S, NEW x \in S, NEW q \in Seq(S)
  PROVE  /\ <<x>> \o q \in Seq(S)
         /\ Len(<<x>> \o q) = Len(q) + 1
         /\ (<<x>> \o q)[1] = x
         /\ \A i \in 2..(Len(q) + 1) : (<<x>> \o q)[i] = q[i - 1]
  BY SMTT(30)

-----------------------------------------------------------------------------
\* No entry of the heap is cheaper than the one popped last.
HeapIsDearer == \A e \in heap : current.cost <= e.cost

\* The neighbours left to look at are those of the node popped last, and that
\* node is not reached for less.
TodoAreNeighbours ==
    todo # {} => /\ current.node \in Vertices /\ current.cost = distances[current.node]
                 /\ path = <<>>
                 /\ \A m \in todo : <<current.node, m>> \in DOMAIN edges

\* An entry is no cheaper than the distance of its node, which it once was.
EntriesAbove ==
    \A e \in heap : e.node \in Vertices /\ distances[e.node] <= e.cost /\ e.cost < Infinity

\* A link that has been looked at does not lead to a node for less.
Relaxed(u, m) == distances[m] <= distances[u] + edges[<<u, m>>]

\* A node that has been reached waits in the heap, or all links that leave it have
\* been looked at but those that are still to do.
Explored ==
    \A u \in Vertices : distances[u] < Infinity =>
        \/ [cost |-> distances[u], node |-> u] \in heap
        \/ path # <<>> /\ u = target
        \/ \A m \in Vertices : <<u, m>> \in DOMAIN edges =>
               Relaxed(u, m) \/ (u = current.node /\ m \in todo)

\* The target waits in the heap until it is popped.
TargetWaits ==
    /\ path = <<>> /\ distances[target] < Infinity =>
           [cost |-> distances[target], node |-> target] \in heap
    /\ path # <<>> => distances[target] = current.cost /\ current.cost < Infinity

\* The predecessors explain the distances, and those of nodes that are final only.
PredecessorsAreTight ==
    /\ distances[start] = 0
    /\ \A m \in Vertices :
           IF predecessors[m] = NoNode THEN m # start => distances[m] = Infinity
           ELSE LET u == predecessors[m]
                IN  /\ <<u, m>> \in DOMAIN edges
                    /\ distances[u] <= current.cost
                    /\ distances[m] = distances[u] + edges[<<u, m>>]

\* The nodes can be numbered so that a predecessor comes before its node.
Numbers(rank) ==
    /\ \A m \in Vertices : predecessors[m] # NoNode => rank[predecessors[m]] < rank[m]
    /\ \A i, j \in DOMAIN path : i < j => rank[path[i]] < rank[path[j]]

Acyclic == \E rank \in [Vertices -> Nat] : Numbers(rank)

\* The walk back.
Traced ==
    /\ path # <<>> => path[Len(path)] = target
    /\ \A i \in 1..(Len(path) - 1) : predecessors[path[i + 1]] = path[i]
    /\ done => IF path = <<>> THEN heap = {} /\ todo = {}
               ELSE predecessors[path[1]] = NoNode

IInv ==
    /\ SearchTypeOK
    /\ HeapIsDearer /\ TodoAreNeighbours /\ EntriesAbove
    /\ Explored /\ TargetWaits
    /\ PredecessorsAreTight /\ Acyclic
    /\ Traced

-----------------------------------------------------------------------------
\* The order of the natural numbers is well founded.
LEMMA LessIsWellFounded ==
    \E R : IsWellFoundedOn(R, Nat) /\ \A x, y \in Nat : x < y => <<x, y>> \in R
  <1>1. \A x, y \in Nat : x < y => <<x, y>> \in OpToRel(<, Nat)
    BY DEF OpToRel
  <1> QED
    BY <1>1, NatLessThanWellFounded

\* Induction, as the least counterexample: a set of numbers has a least one.
LEMMA LeastNat ==
    ASSUME NEW T, T \subseteq Nat, T # {}
    PROVE  \E m \in T : \A k \in T : m <= k
  <1>1. PICK R : IsWellFoundedOn(R, Nat) /\ \A x, y \in Nat : x < y => <<x, y>> \in R
    BY LessIsWellFounded
  <1>2. \E m \in T : \A k \in T : ~(<<k, m>> \in R)
    <2>1. IsWellFoundedOn(R, Nat)
      BY <1>1
    <2> QED
      BY <2>1, WFMin
  <1>3. PICK m \in T : \A k \in T : ~(<<k, m>> \in R)
    BY <1>2
  <1>4. ASSUME NEW k \in T PROVE m <= k
    <2>1. k \in Nat /\ m \in Nat
      OBVIOUS
    <2>2. ~(k < m)
      BY <1>1, <1>3, <2>1
    <2> QED
      BY <2>1, <2>2, SMTT(30)
  <1> QED
    BY <1>4

\* A link joins two nodes, and its cost is a natural number.
LEMMA LinkCost ==
    ASSUME SearchTypeOK, NEW x \in DOMAIN edges
    PROVE  edges[x] \in Costs /\ edges[x] \in Nat /\ x \in Vertices \X Vertices
  <1>1. PICK L \in SUBSET Links : edges \in [L -> Costs]
    BY DEF SearchTypeOK, RouteGraphs
  <1> QED
    BY <1>1, GraphAssumption

\* The search begins with the start node at distance 0.
LEMMA InitIInv == SearchInit => IInv
  <1> SUFFICES ASSUME SearchInit PROVE IInv
    OBVIOUS
  <1>0. 0 < Infinity
    <2>1. PICK c \in Nat : c * Cardinality(Vertices) < Infinity
      BY GraphAssumption, SMTT(30)
    <2>2. PICK n \in Nat : n = Cardinality(Vertices)
      BY GraphAssumption, FS_CardinalityType
    <2>3. c * n \in Nat
      BY SMTT(30)
    <2> QED
      BY <2>1, <2>2, <2>3, GraphAssumption, SMTT(30)
  <1>1. start \in Vertices /\ target \in Vertices /\ Infinity \in Nat /\ NoNode \notin Vertices
    BY GraphAssumption
  <1>2. distances \in [Vertices -> 0..Infinity] /\ predecessors \in [Vertices -> Vertices \cup {NoNode}]
    BY <1>1, SMTT(30) DEF SearchInit
  <1>3. heap \subseteq SearchState /\ current \in SearchState
    BY <1>1, SMTT(30) DEF SearchInit, SearchState
  <1>4. SearchTypeOK
    <2>1. path \in Seq(Vertices)
      BY SMTT(30) DEF SearchInit
    <2>2. edges \in RouteGraphs /\ todo \subseteq Vertices /\ done \in BOOLEAN
      BY DEF SearchInit
    <2> QED
      BY <1>2, <1>3, <2>1, <2>2 DEF SearchTypeOK
  <1>5. HeapIsDearer /\ TodoAreNeighbours
    BY SMTT(30) DEF SearchInit, HeapIsDearer, TodoAreNeighbours
  <1>6. EntriesAbove
    BY <1>0, <1>1, SMTT(30) DEF SearchInit, EntriesAbove
  <1>7. Explored /\ TargetWaits
    <2>1. \A u \in Vertices : distances[u] < Infinity =>
              u = start /\ [cost |-> distances[u], node |-> u] \in heap
      BY <1>1, SMTT(30) DEF SearchInit
    <2> QED
      BY <1>1, <2>1 DEF SearchInit, Explored, TargetWaits
  <1>8. PredecessorsAreTight
    BY <1>1 DEF SearchInit, PredecessorsAreTight
  <1>9. Acyclic
    <2>1. [n \in Vertices |-> 0] \in [Vertices -> Nat]
      OBVIOUS
    <2>2. Numbers([n \in Vertices |-> 0])
      BY SMTT(30) DEF SearchInit, Numbers
    <2> QED
      BY <2>1, <2>2 DEF Acyclic
  <1>10. Traced
    BY SMTT(30) DEF SearchInit, Traced
  <1> QED
    BY <1>4, <1>5, <1>6, <1>7, <1>8, <1>9, <1>10, SMTT(30) DEF IInv

\* What any pop of the heap does: the entry is no dearer than those that stay.
Pops(e) ==
    /\ e \in pop
    /\ heap' = heap \ {e} /\ current' = e
    /\ UNCHANGED <<edges, distances, predecessors, done>>
    /\ todo = {} /\ path = <<>> /\ ~done

\* The state after a pop, but for what the iteration begins.
LEMMA PopKeeps ==
    ASSUME IInv, NEW e, Pops(e)
    PROVE  /\ e \in heap /\ e \in SearchState /\ e.node \in Vertices
           /\ e.cost \in Nat /\ distances[e.node] \in Nat
           /\ distances[e.node] <= e.cost /\ e.cost < Infinity
           /\ \A f \in heap : e.cost <= f.cost
           /\ current.cost \in Nat /\ current'.cost >= current.cost
           /\ HeapIsDearer' /\ EntriesAbove' /\ PredecessorsAreTight'
  <1>1. e \in heap /\ \A f \in heap : e.cost <= f.cost
    BY DEF Pops, pop
  <1>2. e \in SearchState /\ e.node \in Vertices /\ distances[e.node] <= e.cost /\ e.cost < Infinity
    BY <1>1 DEF IInv, SearchTypeOK, EntriesAbove
  <1>3. e.cost \in Nat /\ current.cost \in Nat /\ distances \in [Vertices -> Nat]
    BY <1>2, GraphAssumption, SMTT(30) DEF IInv, SearchTypeOK, SearchState
  <1>4. current.cost <= e.cost
    BY <1>1 DEF IInv, HeapIsDearer
  <1>5. HeapIsDearer' /\ EntriesAbove'
    BY <1>1 DEF IInv, HeapIsDearer, EntriesAbove, Pops
  <1>6. PredecessorsAreTight'
    <2>1. \A u \in Vertices : distances[u] <= current.cost => distances[u] <= e.cost
      BY <1>3, <1>4, SMTT(30)
    <2>2. \A m \in Vertices : predecessors[m] # NoNode => predecessors[m] \in Vertices
      BY DEF IInv, SearchTypeOK
    <2> QED
      BY <2>1, <2>2 DEF IInv, PredecessorsAreTight, Pops
  <1> QED
    BY <1>1, <1>2, <1>3, <1>4, <1>5, <1>6, SMTT(30) DEF Pops

\* The target is popped at its distance (graph.rs:87-91).
LEMMA ReachIInv ==
    ASSUME IInv, reach_target
    PROVE  IInv' /\ current'.cost >= current.cost /\ UNCHANGED distances
  <1>1. PICK e \in pop : e.node = target /\ heap' = heap \ {e} /\ current' = e
    BY DEF reach_target
  <1>2. Pops(e)
    BY <1>1 DEF reach_target, searching, Pops
  <1>3. path' = <<target>> /\ todo' = {} /\ todo = {} /\ path = <<>> /\ target \in Vertices
    BY GraphAssumption DEF reach_target, searching
  <1>4. /\ e \in heap /\ e \in SearchState /\ e.cost \in Nat /\ distances[target] \in Nat
        /\ distances[target] <= e.cost /\ e.cost < Infinity
        /\ \A f \in heap : e.cost <= f.cost
        /\ current'.cost >= current.cost
        /\ HeapIsDearer' /\ EntriesAbove' /\ PredecessorsAreTight'
    BY <1>1, <1>2, PopKeeps
  <1>5. SearchTypeOK'
    BY <1>2, <1>3, <1>4, SMTT(30) DEF IInv, SearchTypeOK, Pops
  <1>6. TodoAreNeighbours'
    BY <1>3 DEF TodoAreNeighbours
  <1>7. Explored'
    <2> SUFFICES ASSUME NEW u \in Vertices, distances[u] < Infinity, u # target
                 PROVE  \/ [cost |-> distances[u], node |-> u] \in heap'
                        \/ \A m \in Vertices : <<u, m>> \in DOMAIN edges => Relaxed(u, m)
      BY <1>2, <1>3 DEF Explored, Relaxed, Pops
    <2>1. CASE [cost |-> distances[u], node |-> u] \in heap
      BY <1>1, <1>2, <2>1, SMTT(30) DEF Pops
    <2>2. CASE ~([cost |-> distances[u], node |-> u] \in heap)
      BY <1>3, <2>2 DEF IInv, Explored
    <2> QED
      BY <2>1, <2>2
  <1>8. TargetWaits'
    <2>1. distances[target] < Infinity
      BY <1>4, GraphAssumption, SMTT(30)
    <2>2. [cost |-> distances[target], node |-> target] \in heap
      BY <1>3, <2>1 DEF IInv, TargetWaits
    <2>3. e.cost <= distances[target]
      BY <1>4, <2>2
    <2>4. e.cost = distances[target]
      BY <1>4, <2>3, SMTT(30)
    <2> QED
      BY <1>2, <1>3, <1>4, <2>4, SMTT(30) DEF TargetWaits, Pops
  <1>9. Acyclic'
    <2>1. PICK rank \in [Vertices -> Nat] : Numbers(rank)
      BY DEF IInv, Acyclic
    <2>2. Numbers(rank)'
      BY <1>2, <1>3, <2>1, SMTT(30) DEF Numbers, Pops
    <2> QED
      BY <2>2 DEF Acyclic
  <1>10. Traced'
    BY <1>2, <1>3, SMTT(30) DEF Traced, Pops
  <1> QED
    BY <1>2, <1>4, <1>5, <1>6, <1>7, <1>8, <1>9, <1>10, SMTT(30) DEF IInv, Pops

\* Any other node: its links are looked at, or the entry was overtaken
\* (graph.rs:100-108).
LEMMA VisitIInv ==
    ASSUME IInv, visit
    PROVE  IInv' /\ current'.cost >= current.cost /\ UNCHANGED distances
  <1>1. PICK e \in pop :
            /\ e.node # target /\ heap' = heap \ {e} /\ current' = e
            /\ todo' = {m \in Vertices : <<e.node, m>> \in DOMAIN edges /\ e.cost <= distances[e.node]}
    BY DEF visit
  <1>2. Pops(e) /\ path' = path
    BY <1>1 DEF visit, searching, Pops
  <1>4. /\ e \in heap /\ e \in SearchState /\ e.node \in Vertices
        /\ e.cost \in Nat /\ distances[e.node] \in Nat
        /\ distances[e.node] <= e.cost /\ e.cost < Infinity
        /\ \A f \in heap : e.cost <= f.cost
        /\ current'.cost >= current.cost
        /\ HeapIsDearer' /\ EntriesAbove' /\ PredecessorsAreTight'
    BY <1>2, PopKeeps
  <1>5. SearchTypeOK'
    BY <1>1, <1>2, <1>4 DEF IInv, SearchTypeOK, Pops
  <1>6. TodoAreNeighbours'
    <2> SUFFICES ASSUME todo' # {} PROVE TodoAreNeighbours'
      BY DEF TodoAreNeighbours
    <2>1. e.cost = distances[e.node]
      <3>1. PICK m \in todo' : TRUE
        OBVIOUS
      <3>2. e.cost <= distances[e.node]
        BY <1>1, <3>1
      <3> QED
        BY <1>4, <3>2, SMTT(30)
    <2> QED
      BY <1>1, <1>2, <1>4, <2>1 DEF TodoAreNeighbours, Pops
  <1>7. Explored'
    <2> SUFFICES ASSUME NEW u \in Vertices, distances[u] < Infinity
                 PROVE  \/ [cost |-> distances[u], node |-> u] \in heap'
                        \/ \A m \in Vertices : <<u, m>> \in DOMAIN edges =>
                               Relaxed(u, m) \/ (u = e.node /\ m \in todo')
      BY <1>1, <1>2 DEF Explored, Relaxed, Pops
    <2>1. CASE [cost |-> distances[u], node |-> u] = e
      BY <1>1, <1>4, <2>1, SMTT(30)
    <2>2. CASE [cost |-> distances[u], node |-> u] \in heap /\ [cost |-> distances[u], node |-> u] # e
      BY <1>1, <2>2
    <2>3. CASE ~([cost |-> distances[u], node |-> u] \in heap)
      BY <1>2, <2>3 DEF IInv, Explored, Pops
    <2> QED
      BY <2>1, <2>2, <2>3
  <1>8. TargetWaits'
    BY <1>1, <1>2, SMTT(30) DEF IInv, TargetWaits, Pops
  <1>9. Acyclic'
    <2>1. PICK rank \in [Vertices -> Nat] : Numbers(rank)
      BY DEF IInv, Acyclic
    <2>2. Numbers(rank)'
      BY <1>2, <2>1 DEF Numbers, Pops
    <2> QED
      BY <2>2 DEF Acyclic
  <1>10. Traced'
    BY <1>2, SMTT(30) DEF Traced, Pops
  <1> QED
    BY <1>2, <1>4, <1>5, <1>6, <1>7, <1>8, <1>9, <1>10, SMTT(30) DEF IInv, Pops


\* A neighbour is reached at no less than the cost of the popped entry: only a
\* node that is not final, and so leads to no other, gets a new distance and
\* predecessor (graph.rs:108-121).
LEMMA RelaxIInv ==
    ASSUME IInv, relax
    PROVE  /\ IInv'
           /\ current' = current
           /\ \A n \in Vertices : distances[n] <= current.cost => distances'[n] = distances[n]
  <1>1. PICK m \in todo :
            LET next_cost == current.cost + edges[<<current.node, m>>]
            IN  /\ todo' = todo \ {m}
                /\ IF cheaper(m, next_cost)
                   THEN /\ distances' = [distances EXCEPT ![m] = next_cost]
                        /\ predecessors' = [predecessors EXCEPT ![m] = current.node]
                        /\ heap' = heap \cup {[cost |-> next_cost, node |-> m]}
                   ELSE UNCHANGED <<distances, predecessors, heap>>
    BY DEF relax
  <1>2. UNCHANGED <<edges, current, done, path>>
    BY DEF relax
  <1>c. PICK v : v = current.node
    OBVIOUS
  <1>3. /\ m \in Vertices /\ v \in Vertices /\ v # NoNode /\ path = <<>> /\ ~done
        /\ current.cost = distances[v]
        /\ \A k \in todo : <<v, k>> \in DOMAIN edges
        /\ current.cost \in Nat /\ distances \in [Vertices -> Nat] /\ Infinity \in Nat
        /\ \A n \in Vertices : distances[n] <= Infinity
    BY <1>c, GraphAssumption, SMTT(30) DEF IInv, SearchTypeOK, SearchState, TodoAreNeighbours, Traced
  <1>n. PICK next \in Nat : next = current.cost + edges[<<v, m>>] /\ next >= current.cost
    <2>1. edges[<<v, m>>] \in Nat
      BY <1>3, LinkCost DEF IInv
    <2> QED
      BY <1>3, <2>1, SMTT(30)
  <1>4. todo' = todo \ {m}
    BY <1>1
  <1>5. CASE cheaper(m, next)
    <2>1. /\ distances' = [distances EXCEPT ![m] = next]
          /\ predecessors' = [predecessors EXCEPT ![m] = v]
          /\ heap' = heap \cup {[cost |-> next, node |-> m]}
      BY <1>1, <1>5, <1>c, <1>n, SMTT(30)
    <2>2. next < distances[m] /\ next < Infinity
      BY <1>3, <1>5, SMTT(30) DEF cheaper
    <2>3. m # v /\ m # start /\ ~(distances[m] <= current.cost)
      <3>1. distances[start] = 0 /\ start \in Vertices
        BY GraphAssumption DEF IInv, PredecessorsAreTight
      <3> QED
        BY <3>1, <1>3, <1>n, <2>2, SMTT(30)
    <2>4. /\ distances'[m] = next /\ distances'[v] = distances[v] /\ distances'[start] = distances[start]
          /\ \A n \in Vertices : n # m => distances'[n] = distances[n]
          /\ \A n \in Vertices : distances'[n] <= distances[n] /\ distances'[n] \in Nat
      BY <1>3, <2>1, <2>2, <2>3, GraphAssumption, SMTT(30)
    <2>5. SearchTypeOK'
      <3>1. next \in 0..Infinity /\ [cost |-> next, node |-> m] \in SearchState
        BY <1>3, <2>2, SMTT(30) DEF SearchState
      <3> QED
        BY <1>2, <1>3, <1>4, <2>1, <3>1 DEF IInv, SearchTypeOK
    <2>6. HeapIsDearer'
      BY <1>2, <1>n, <2>1, SMTT(30) DEF IInv, HeapIsDearer
    <2>7. TodoAreNeighbours'
      BY <1>2, <1>3, <1>4, <1>c, <2>4 DEF TodoAreNeighbours
    <2>8. EntriesAbove'
      <3> SUFFICES ASSUME NEW e \in heap'
                   PROVE  e.node \in Vertices /\ distances'[e.node] <= e.cost /\ e.cost < Infinity
        BY DEF EntriesAbove
      <3>1. CASE e \in heap
        <4>1. /\ e.node \in Vertices /\ distances[e.node] <= e.cost /\ e.cost < Infinity
              /\ e.cost \in Nat
          BY <3>1, <1>3, SMTT(30) DEF IInv, SearchTypeOK, SearchState, EntriesAbove
        <4> QED
          BY <4>1, <1>3, <2>4, SMTT(30)
      <3>2. CASE e = [cost |-> next, node |-> m]
        BY <3>2, <1>3, <2>2, <2>4, SMTT(30)
      <3> QED
        BY <2>1, <3>1, <3>2, SMTT(30)
    <2>9. Explored'
      <3> SUFFICES ASSUME NEW u \in Vertices, distances'[u] < Infinity,
                          ~([cost |-> distances'[u], node |-> u] \in heap'),
                          NEW k \in Vertices, <<u, k>> \in DOMAIN edges
                   PROVE  Relaxed(u, k)' \/ (u = v /\ k \in todo')
        BY <1>2, <1>c DEF Explored
      <3>1. u # m
        BY <2>1, <2>4, SMTT(30)
      <3>2. distances'[u] = distances[u]
        BY <3>1, <2>4
      <3>3. Relaxed(u, k) \/ (u = v /\ k \in todo)
        BY <3>2, <2>1, <1>3, <1>c, SMTT(30) DEF IInv, Explored
      <3>4. edges[<<u, k>>] \in Nat
        BY LinkCost DEF IInv
      <3>5. CASE Relaxed(u, k)
        BY <3>2, <3>4, <3>5, <1>2, <1>3, <2>4, SMTT(30) DEF Relaxed
      <3>6. CASE u = v /\ k = m
        BY <3>2, <3>6, <1>2, <1>3, <1>n, <2>4, SMTT(30) DEF Relaxed
      <3> QED
        BY <3>3, <3>5, <3>6, <1>4, SMTT(30)
    <2>10. TargetWaits'
      <3>1. target \in Vertices
        BY GraphAssumption
      <3>2. CASE target = m
        BY <3>2, <1>2, <1>3, <2>1, <2>4, SMTT(30) DEF TargetWaits
      <3>3. CASE target # m
        BY <3>1, <3>3, <1>2, <1>3, <2>1, <2>4, SMTT(30) DEF IInv, TargetWaits
      <3> QED
        BY <3>2, <3>3
    <2>p. /\ predecessors'[m] = v
          /\ \A n \in Vertices : n # m => predecessors'[n] = predecessors[n]
      BY <1>3, <2>1, SMTT(30) DEF IInv, SearchTypeOK
    <2>q. ASSUME NEW n \in Vertices, n # m, predecessors[n] # NoNode
          PROVE  /\ predecessors[n] \in Vertices /\ predecessors[n] # m
                 /\ <<predecessors[n], n>> \in DOMAIN edges
                 /\ distances[predecessors[n]] <= current.cost
                 /\ distances[n] = distances[predecessors[n]] + edges[<<predecessors[n], n>>]
      BY <2>q, <2>3, SMTT(30) DEF IInv, SearchTypeOK, PredecessorsAreTight
    <2>11. PredecessorsAreTight'
      <3>1. distances'[start] = 0
        BY <2>4 DEF IInv, PredecessorsAreTight
      <3> SUFFICES ASSUME NEW n \in Vertices
                   PROVE  (IF predecessors[n] = NoNode THEN n # start => distances[n] = Infinity
                           ELSE /\ <<predecessors[n], n>> \in DOMAIN edges
                                /\ distances[predecessors[n]] <= current.cost
                                /\ distances[n] = distances[predecessors[n]]
                                                      + edges[<<predecessors[n], n>>])'
        BY <3>1 DEF PredecessorsAreTight
      <3>2. CASE n = m
        BY <3>2, <1>2, <1>3, <1>n, <2>4, <2>p, SMTT(30)
      <3>3. CASE n # m /\ predecessors[n] = NoNode
        BY <3>3, <2>4, <2>p DEF IInv, PredecessorsAreTight
      <3>4. CASE n # m /\ predecessors[n] # NoNode
        BY <3>4, <1>2, <2>4, <2>p, <2>q, SMTT(30)
      <3> QED
        BY <3>2, <3>3, <3>4, SMTT(30)
    <2>12. Acyclic'
      <3>1. PICK rank \in [Vertices -> Nat] : Numbers(rank)
        BY DEF IInv, Acyclic
      <3>r. PICK r \in Nat : r = rank[v] + 1
        BY <1>3, SMTT(30)
      <3>2. PICK new \in [Vertices -> Nat] : new = [rank EXCEPT ![m] = r]
        BY <1>3
      <3>3. new[m] = rank[v] + 1 /\ \A n \in Vertices : n # m => new[n] = rank[n]
        BY <1>3, <3>2, <3>r, SMTT(30)
      <3>4. ASSUME NEW n \in Vertices, predecessors'[n] # NoNode
            PROVE  new[predecessors'[n]] < new[n]
        <4>1. CASE n = m
          BY <4>1, <3>3, <1>3, <2>3, <2>p, SMTT(30)
        <4>2. CASE n # m
          <5>1. predecessors[n] # NoNode /\ predecessors'[n] = predecessors[n]
            BY <4>2, <3>4, <2>p
          <5>2. rank[predecessors[n]] < rank[n]
            BY <5>1, <3>1 DEF Numbers
          <5> QED
            BY <4>2, <5>1, <5>2, <3>3, <2>q
        <4> QED
          BY <4>1, <4>2
      <3>5. Numbers(new)'
        BY <3>4, <1>2, <1>3, SMTT(30) DEF Numbers
      <3> QED
        BY <3>5 DEF Acyclic
    <2>13. Traced'
      BY <1>2, <1>3, SMTT(30) DEF Traced
    <2> QED
      BY <2>3, <2>4, <2>5, <2>6, <2>7, <2>8, <2>9, <2>10, <2>11, <2>12, <2>13, <1>2 DEF IInv
  <1>6. CASE ~cheaper(m, next)
    <2>1. UNCHANGED <<distances, predecessors, heap>>
      BY <1>1, <1>6, <1>c, <1>n
    <2>2. distances[m] <= next
      BY <1>3, <1>6, SMTT(30) DEF cheaper
    <2>3. SearchTypeOK'
      BY <1>2, <1>4, <2>1 DEF IInv, SearchTypeOK
    <2>4. TodoAreNeighbours'
      BY <1>2, <1>3, <1>4, <1>c, <2>1 DEF TodoAreNeighbours
    <2>5. HeapIsDearer' /\ EntriesAbove' /\ TargetWaits' /\ PredecessorsAreTight'
      BY <1>2, <2>1 DEF IInv, HeapIsDearer, EntriesAbove, TargetWaits, PredecessorsAreTight
    <2>6. Explored'
      <3> SUFFICES ASSUME NEW u \in Vertices, distances[u] < Infinity,
                          ~([cost |-> distances[u], node |-> u] \in heap),
                          NEW k \in Vertices, <<u, k>> \in DOMAIN edges
                   PROVE  Relaxed(u, k) \/ (u = v /\ k \in todo')
        BY <1>2, <1>c, <2>1 DEF Explored, Relaxed
      <3>1. Relaxed(u, k) \/ (u = v /\ k \in todo)
        BY <1>3, <1>c DEF IInv, Explored
      <3>2. Relaxed(v, m)
        BY <1>3, <1>n, <2>2 DEF Relaxed
      <3> QED
        BY <3>1, <3>2, <1>4
    <2>7. Acyclic'
      <3>1. PICK rank \in [Vertices -> Nat] : Numbers(rank)
        BY DEF IInv, Acyclic
      <3>2. Numbers(rank)'
        BY <1>2, <2>1, <3>1 DEF Numbers
      <3> QED
        BY <3>2 DEF Acyclic
    <2>8. Traced'
      BY <1>2, <1>3, SMTT(30) DEF Traced
    <2> QED
      BY <1>2, <2>1, <2>3, <2>4, <2>5, <2>6, <2>7, <2>8 DEF IInv
  <1> QED
    BY <1>5, <1>6


\* The walk back goes from a node to its predecessor (graph.rs:91-97).
LEMMA TraceIInv ==
    ASSUME IInv, trace
    PROVE  IInv' /\ UNCHANGED <<current, distances>>
  <1>1. UNCHANGED <<edges, distances, predecessors, heap, current, todo>> /\ path # <<>> /\ ~done
    BY DEF trace
  <1>2. path \in Seq(Vertices) /\ Len(path) \in Nat /\ Len(path) > 0 /\ path[1] \in Vertices
    BY <1>1, SMTT(30) DEF IInv, SearchTypeOK
  <1>3. PICK pred : pred = predecessors[path[1]] /\ pred \in Vertices \cup {NoNode}
    BY <1>2 DEF IInv, SearchTypeOK
  <1>4. Head(path) = path[1]
    BY <1>2, SMTT(30)
  <1>5. PICK rank \in [Vertices -> Nat] : Numbers(rank)
    BY DEF IInv, Acyclic
  <1>6. HeapIsDearer' /\ EntriesAbove' /\ PredecessorsAreTight'
    BY <1>1 DEF IInv, HeapIsDearer, EntriesAbove, PredecessorsAreTight
  <1>7. todo = {}
    BY <1>1 DEF IInv, TodoAreNeighbours
  <1>8. TodoAreNeighbours'
    BY <1>1, <1>7 DEF TodoAreNeighbours
  <1>9. CASE pred # NoNode
    <2>1. path' = <<pred>> \o path /\ UNCHANGED done /\ pred \in Vertices
      BY <1>3, <1>4, <1>9 DEF trace
    <2>3. PICK k \in Nat : k = Len(path) /\ k > 0
      BY <1>2
    <2>4. /\ path' \in Seq(Vertices) /\ Len(path') = k + 1 /\ path'[1] = pred
          /\ \A i \in 2..(k + 1) : path'[i] = path[i - 1]
      BY <1>2, <2>1, <2>3, Prepended, SMTT(30)
    <2>5. path' # <<>> /\ DOMAIN path' = 1..(k + 1) /\ DOMAIN path = 1..k
      BY <1>2, <2>3, <2>4, SMTT(30)
    <2>6. SearchTypeOK'
      BY <1>1, <2>1, <2>4 DEF IInv, SearchTypeOK
    <2>7. Explored' /\ TargetWaits'
      BY <1>1, <2>5 DEF IInv, Explored, TargetWaits, Relaxed
    <2>8. Numbers(rank)'
      <3>1. \A m \in Vertices : predecessors'[m] # NoNode => rank[predecessors'[m]] < rank[m]
        BY <1>1, <1>5 DEF Numbers
      <3>2. ASSUME NEW i \in 1..(k + 1), NEW j \in 1..(k + 1), i < j
            PROVE  rank[path'[i]] < rank[path'[j]]
        <4>1. j - 1 \in 1..k /\ path'[j] = path[j - 1]
          BY <2>4, <3>2, SMTT(30)
        <4>2. CASE i = 1
          <5>1. rank[pred] < rank[path[1]]
            BY <1>2, <1>3, <1>5, <1>9 DEF Numbers
          <5>2. 1 \in 1..k /\ (1 < j - 1 => rank[path[1]] < rank[path[j - 1]])
            BY <1>5, <2>3, <2>5, <4>1, SMTT(30) DEF Numbers
          <5>3. path[1] \in Vertices /\ path[j - 1] \in Vertices
            BY <1>2, <2>3, <4>1, SMTT(30)
          <5>4. rank[pred] \in Nat /\ rank[path[1]] \in Nat /\ rank[path[j - 1]] \in Nat
            BY <2>1, <5>3
          <5>5. 1 < j - 1 \/ j - 1 = 1
            BY <4>1, SMTT(30)
          <5>6. rank[pred] < rank[path[j - 1]]
            <6>1. CASE j - 1 = 1
              BY <5>1, <6>1
            <6>2. CASE 1 < j - 1
              <7>1. rank[path[1]] < rank[path[j - 1]]
                BY <5>2, <6>2
              <7> QED
                BY <5>1, <5>4, <7>1, SMTT(30)
            <6> QED
              BY <5>5, <6>1, <6>2
          <5> QED
            BY <2>4, <4>1, <4>2, <5>6
        <4>3. CASE i # 1
          <5>1. i - 1 \in 1..k /\ path'[i] = path[i - 1] /\ i - 1 < j - 1
            BY <2>4, <3>2, <4>3, SMTT(30)
          <5> QED
            BY <1>5, <2>5, <4>1, <5>1, SMTT(30) DEF Numbers
        <4> QED
          BY <4>2, <4>3
      <3> QED
        BY <2>5, <3>1, <3>2 DEF Numbers
    <2>9. Acyclic'
      BY <2>8 DEF Acyclic
    <2>10. Traced'
      <3>1. path'[k + 1] = target
        <4>1. k + 1 \in 2..(k + 1) /\ (k + 1) - 1 = k /\ path[k] = target
          BY <1>1, <2>3, SMTT(30) DEF IInv, Traced
        <4> QED
          BY <2>4, <4>1
      <3>2. ASSUME NEW i \in 1..k PROVE predecessors'[path'[i + 1]] = path'[i]
        <4>1. path'[i + 1] = path[i]
          <5>1. i + 1 \in 2..(k + 1) /\ (i + 1) - 1 = i
            BY SMTT(30)
          <5> QED
            BY <2>4, <5>1
        <4>2. CASE i = 1
          BY <1>1, <1>3, <2>4, <4>1, <4>2, SMTT(30)
        <4>3. CASE i # 1
          <5>1. i - 1 \in 1..(k - 1) /\ path'[i] = path[i - 1] /\ (i - 1) + 1 = i
            BY <2>4, <4>3, SMTT(30)
          <5>2. predecessors[path[(i - 1) + 1]] = path[i - 1]
            BY <5>1, <2>3 DEF IInv, Traced
          <5> QED
            BY <1>1, <4>1, <5>1, <5>2, SMTT(30)
        <4> QED
          BY <4>2, <4>3, SMTT(30)
      <3> QED
        BY <1>1, <2>1, <2>4, <2>5, <3>1, <3>2, SMTT(30) DEF Traced
    <2> QED
      BY <1>1, <1>6, <1>8, <2>6, <2>7, <2>9, <2>10, SMTT(30) DEF IInv
  <1>10. CASE pred = NoNode
    <2>1. done' = TRUE /\ UNCHANGED path
      BY <1>3, <1>4, <1>10 DEF trace
    <2>2. SearchTypeOK'
      BY <1>1, <2>1, SMTT(30) DEF IInv, SearchTypeOK
    <2>3. Explored' /\ TargetWaits'
      BY <1>1, <2>1, SMTT(30) DEF IInv, Explored, TargetWaits, Relaxed
    <2>4. Numbers(rank)'
      BY <1>1, <1>5, <2>1, SMTT(30) DEF Numbers
    <2>5. Acyclic'
      BY <2>4 DEF Acyclic
    <2>6. Traced'
      BY <1>1, <1>3, <1>10, <2>1 DEF IInv, Traced
    <2> QED
      BY <1>1, <1>6, <1>8, <2>2, <2>3, <2>5, <2>6, SMTT(30) DEF IInv
  <1> QED
    BY <1>9, <1>10

\* A step that only returns None, or none at all.
LEMMA RestIInv ==
    ASSUME IInv, exhausted \/ UNCHANGED searchVars
    PROVE  IInv' /\ UNCHANGED <<current, distances>>
  <1>1. UNCHANGED <<edges, distances, predecessors, heap, current, todo, path>>
    BY DEF exhausted, searchVars
  <1>2. /\ done' \in BOOLEAN
        /\ done' => done \/ (path = <<>> /\ heap = {} /\ todo = {})
    <2>1. CASE exhausted
      BY <2>1 DEF exhausted, searching
    <2>2. CASE UNCHANGED searchVars
      BY <2>2 DEF searchVars, IInv, SearchTypeOK
    <2> QED
      BY <2>1, <2>2
  <1>3. SearchTypeOK'
    BY <1>1, <1>2 DEF IInv, SearchTypeOK
  <1>4. HeapIsDearer' /\ EntriesAbove' /\ PredecessorsAreTight' /\ TodoAreNeighbours'
    BY <1>1 DEF IInv, HeapIsDearer, EntriesAbove, PredecessorsAreTight, TodoAreNeighbours
  <1>5. Explored' /\ TargetWaits'
    BY <1>1 DEF IInv, Explored, TargetWaits, Relaxed
  <1>6. PICK rank \in [Vertices -> Nat] : Numbers(rank)
    BY DEF IInv, Acyclic
  <1>7. Numbers(rank)'
    BY <1>1, <1>6 DEF Numbers
  <1>8. Acyclic'
    BY <1>7 DEF Acyclic
  <1>9. Traced'
    BY <1>1, <1>2 DEF IInv, Traced
  <1> QED
    BY <1>1, <1>3, <1>4, <1>5, <1>8, <1>9, SMTT(30) DEF IInv

\* One step of the search.
LEMMA StepIInv ==
    ASSUME IInv, [SearchNext]_searchVars
    PROVE  /\ IInv'
           /\ current'.cost >= current.cost
           /\ \A n \in Vertices : distances[n] <= current.cost => distances'[n] = distances[n]
  <1>0. current.cost >= current.cost
    BY GraphAssumption, SMTT(30) DEF IInv, SearchTypeOK, SearchState
  <1>1. CASE reach_target
    BY <1>1, ReachIInv
  <1>2. CASE visit
    BY <1>2, VisitIInv
  <1>3. CASE relax
    BY <1>0, <1>3, RelaxIInv
  <1>4. CASE trace
    BY <1>0, <1>4, TraceIInv
  <1>5. CASE exhausted \/ UNCHANGED searchVars
    BY <1>0, <1>5, RestIInv
  <1> QED
    BY <1>1, <1>2, <1>3, <1>4, <1>5, SMTT(30) DEF SearchNext, Returned

\* The inductive invariant of the search (graph.rs:74-128).
THEOREM Invariance == SearchSpec => []IInv
  <1>1. IInv /\ [SearchNext]_searchVars => IInv'
    BY StepIInv
  <1> QED
    BY <1>1, InitIInv, PTL DEF SearchSpec

\* A node is final once an entry at least as dear has been popped: so the path
\* returned at the first pop of the target may be trusted (graph.rs:86-97).
THEOREM SettledIsFinalHolds == SearchSpec => SettledIsFinal
  <1> DEFINE Final == /\ current'.cost >= current.cost
                      /\ \A n \in Vertices : distances[n] <= current.cost => distances'[n] = distances[n]
  <1>1. IInv /\ [SearchNext]_searchVars => [Final]_searchVars
    BY StepIInv
  <1> QED
    BY <1>1, Invariance, PTL DEF SearchSpec, SettledIsFinal


-----------------------------------------------------------------------------
\* p is a path of the graph, and c has the costs of its first n beginnings.
IsPath(p) ==
    /\ p \in Seq(Vertices) /\ Len(p) >= 1
    /\ \A i \in 2..Len(p) : <<p[i - 1], p[i]>> \in DOMAIN edges

Sums(p, n, c) ==
    /\ c \in [1..n -> Nat]
    /\ c[1] = 0
    /\ \A i \in 2..n : c[i] = c[i - 1] + edges[<<p[i - 1], p[i]>>]

\* The costs of all beginnings of a path: by induction on their length.
LEMMA SumsExist ==
    ASSUME SearchTypeOK, NEW p, IsPath(p)
    PROVE  \E c : Sums(p, Len(p), c)
  <1> DEFINE T == {n \in 1..Len(p) : ~\E c : Sums(p, n, c)}
  <1>0. p \in Seq(Vertices) /\ Len(p) \in Nat /\ Len(p) >= 1
    BY SMTT(30) DEF IsPath
  <1> SUFFICES ASSUME T # {} PROVE FALSE
    BY <1>0, SMTT(30)
  <1>1. T \subseteq Nat
    BY <1>0, SMTT(30)
  <1>2. PICK n \in T : \A k \in T : n <= k
    BY <1>1, LeastNat
  <1>3. n \in 1..Len(p) /\ ~\E c : Sums(p, n, c)
    OBVIOUS
  <1> HIDE DEF T
  <1>4. CASE n = 1
    <2>1. Sums(p, n, [i \in 1..1 |-> 0])
      BY <1>4, SMTT(30) DEF Sums
    <2> QED
      BY <1>3, <2>1
  <1>5. CASE n # 1
    <2>1. n - 1 \in 1..Len(p) /\ ~(n <= n - 1)
      BY <1>0, <1>3, <1>5, SMTT(30)
    <2>2. PICK c : Sums(p, n - 1, c)
      BY <1>2, <2>1 DEF T
    <2>3. edges[<<p[n - 1], p[n]>>] \in Nat
      <3>1. <<p[n - 1], p[n]>> \in DOMAIN edges
        BY <1>0, <1>3, <1>5, SMTT(30) DEF IsPath
      <3> QED
        BY <3>1, LinkCost
    <2>4. PICK x \in Nat : x = c[n - 1] + edges[<<p[n - 1], p[n]>>]
      <3>1. c[n - 1] \in Nat
        BY <2>1, <2>2, SMTT(30) DEF Sums
      <3> QED
        BY <2>3, <3>1, SMTT(30)
    <2>5. PICK d : d = [i \in 1..n |-> IF i = n THEN x ELSE c[i]]
      OBVIOUS
    <2>6. \A i \in 1..(n - 1) : d[i] = c[i] /\ c[i] \in Nat
      BY <1>0, <1>3, <2>2, <2>5, SMTT(30) DEF Sums
    <2>7. d \in [1..n -> Nat] /\ d[n] = x
      <3>1. ASSUME NEW i \in 1..n PROVE (IF i = n THEN x ELSE c[i]) \in Nat
        BY <1>0, <1>3, <2>6, SMTT(30)
      <3> QED
        BY <2>5, <3>1, <1>0, <1>3, SMTT(30)
    <2>8. d[1] = 0
      BY <1>0, <1>3, <1>5, <2>2, <2>6, SMTT(30) DEF Sums
    <2>9. ASSUME NEW i \in 2..n PROVE d[i] = d[i - 1] + edges[<<p[i - 1], p[i]>>]
      <3>1. CASE i = n
        BY <3>1, <2>1, <2>4, <2>6, <2>7, SMTT(30)
      <3>2. CASE i # n
        <4>1. i \in 2..(n - 1) /\ i \in 1..(n - 1) /\ i - 1 \in 1..(n - 1)
          BY <1>0, <1>3, <3>2, SMTT(30)
        <4> QED
          BY <4>1, <2>2, <2>6 DEF Sums
      <3> QED
        BY <3>1, <3>2
    <2>10. Sums(p, n, d)
      BY <2>7, <2>8, <2>9 DEF Sums
    <2> QED
      BY <1>3, <2>10
  <1> QED
    BY <1>4, <1>5

\* What makes a function the recursive one in PathCost.
Unfolds(p, c) ==
    c = [i \in 1..Len(p) |-> IF i = 1 THEN 0 ELSE c[i - 1] + edges[<<p[i - 1], p[i]>>]]

\* PathCost is the last of those costs.
LEMMA PathCostIsSum ==
    ASSUME SearchTypeOK, NEW p, IsPath(p)
    PROVE  \E c : Sums(p, Len(p), c) /\ PathCost(p) = c[Len(p)]
  <1>0. p \in Seq(Vertices) /\ Len(p) \in Nat /\ Len(p) >= 1
    BY SMTT(30) DEF IsPath
  <1>1. PICK c : Sums(p, Len(p), c)
    BY SumsExist
  <1>2. Unfolds(p, c)
    <2>1. ASSUME NEW i \in 1..Len(p)
          PROVE  c[i] = IF i = 1 THEN 0 ELSE c[i - 1] + edges[<<p[i - 1], p[i]>>]
      BY <1>0, <1>1, SMTT(30) DEF Sums
    <2>2. c = [i \in 1..Len(p) |-> c[i]]
      BY <1>1 DEF Sums
    <2> QED
      BY <2>1, <2>2 DEF Unfolds
  <1> DEFINE g == CHOOSE h : Unfolds(p, h)
  <1>3. Unfolds(p, g)
    BY <1>2
  <1>4. PathCost(p) = g[Len(p)]
    BY DEF PathCost, Unfolds
  <1> HIDE DEF g
  <1>5. g[1] = 0 /\ \A i \in 2..Len(p) : g[i] = g[i - 1] + edges[<<p[i - 1], p[i]>>]
    <2>1. ASSUME NEW i \in 1..Len(p)
          PROVE  g[i] = IF i = 1 THEN 0 ELSE g[i - 1] + edges[<<p[i - 1], p[i]>>]
      BY <1>3 DEF Unfolds
    <2>2. 1 \in 1..Len(p) /\ \A i \in 2..Len(p) : i \in 1..Len(p) /\ i # 1
      BY <1>0, SMTT(30)
    <2> QED
      BY <2>1, <2>2
  <1>6. ASSUME NEW i \in 1..Len(p) PROVE g[i] = c[i]
    <2> DEFINE T == {k \in 1..Len(p) : g[k] # c[k]}
    <2> SUFFICES ASSUME T # {} PROVE FALSE
      OBVIOUS
    <2>t. T \subseteq Nat
      BY <1>0, SMTT(30)
    <2>1. PICK n \in T : \A k \in T : n <= k
      BY <2>t, LeastNat
    <2>2. n \in 1..Len(p) /\ g[n] # c[n]
      OBVIOUS
    <2>3. n # 1
      BY <2>2, <1>1, <1>5 DEF Sums
    <2>4. n \in 2..Len(p) /\ n - 1 \in 1..Len(p) /\ ~(n <= n - 1)
      BY <1>0, <2>2, <2>3, SMTT(30)
    <2>5. g[n - 1] = c[n - 1]
      BY <2>1, <2>4
    <2> QED
      BY <1>1, <1>5, <2>2, <2>4, <2>5 DEF Sums
  <1>7. g[Len(p)] = c[Len(p)]
    BY <1>0, <1>6, SMTT(30)
  <1> QED
    BY <1>1, <1>4, <1>7

\* Costs go up along a path, and stay below Infinity on one that is no longer
\* than there are nodes.
LEMMA SumsGrow ==
    ASSUME SearchTypeOK, NEW p, IsPath(p), NEW c, Sums(p, Len(p), c), Len(p) <= Cardinality(Vertices)
    PROVE  c[Len(p)] < Infinity
  <1>0. p \in Seq(Vertices) /\ Len(p) \in Nat /\ Len(p) >= 1
    BY SMTT(30) DEF IsPath
  <1>1. PICK N \in Nat : N = Cardinality(Vertices)
    BY GraphAssumption, FS_CardinalityType
  <1>2. PICK b \in Nat : b * N < Infinity /\ \A d \in Costs : d <= b
    BY <1>1, GraphAssumption, SMTT(30)
  <1>3. ASSUME NEW i \in 1..Len(p) PROVE c[i] <= b * i
    <2> DEFINE T == {k \in 1..Len(p) : ~(c[k] <= b * k)}
    <2> SUFFICES ASSUME T # {} PROVE FALSE
      OBVIOUS
    <2>t. T \subseteq Nat
      BY <1>0, SMTT(30)
    <2>1. PICK n \in T : \A k \in T : n <= k
      BY <2>t, LeastNat
    <2>2. n \in 1..Len(p) /\ ~(c[n] <= b * n)
      OBVIOUS
    <2> HIDE DEF T
    <2>3. n # 1
      <3>1. b * 1 = b
        BY SMTT(30)
      <3> QED
        BY <3>1, <2>2, SMTT(30) DEF Sums
    <2>4. n \in 2..Len(p) /\ n - 1 \in 1..Len(p) /\ ~(n <= n - 1)
      BY <1>0, <2>2, <2>3, SMTT(30)
    <2>5. c[n - 1] <= b * (n - 1)
      BY <2>1, <2>4 DEF T
    <2>6. PICK e \in Nat : e = edges[<<p[n - 1], p[n]>>] /\ e <= b
      <3>1. <<p[n - 1], p[n]>> \in DOMAIN edges
        BY <2>4 DEF IsPath
      <3> QED
        BY <3>1, <1>2, LinkCost
    <2>7. c[n] = c[n - 1] + e /\ c[n] \in Nat /\ c[n - 1] \in Nat
      BY <2>4, <2>2, <2>6 DEF Sums
    <2>8. b * n = b * (n - 1) + b /\ b * (n - 1) \in Nat
      BY <2>4, <1>0, SMTT(30)
    <2> QED
      BY <2>2, <2>5, <2>6, <2>7, <2>8, SMTT(30)
  <1>4. c[Len(p)] <= b * Len(p) /\ c[Len(p)] \in Nat
    BY <1>0, <1>3, SMTT(30) DEF Sums
  <1>5. b * Len(p) <= b * N
    <2>1. PICK k \in Nat : N = Len(p) + k
      <3>1. N - Len(p) \in Nat
        BY <1>0, <1>1, SMTT(30)
      <3> QED
        BY <3>1, <1>0, SMTT(30)
    <2>2. b * N = b * Len(p) + b * k /\ b * k \in Nat /\ b * Len(p) \in Nat
      BY <2>1, <1>0, SMTT(30)
    <2> QED
      BY <2>2, SMTT(30)
  <1>6. b * N \in Nat /\ b * Len(p) \in Nat /\ Infinity \in Nat
    BY <1>0, GraphAssumption, SMTT(30)
  <1> QED
    BY <1>2, <1>4, <1>5, <1>6, SMTT(30)


\* The paths that the result is held against.
LEMMA SimplePathFacts ==
    ASSUME NEW p \in SimplePaths
    PROVE  /\ IsPath(p) /\ Len(p) <= Cardinality(Vertices)
           /\ p[1] = start /\ p[Len(p)] = target
  <1>1. PICK k \in 1..Cardinality(Vertices) : p \in [1..k -> Vertices]
    BY DEF SimplePaths
  <1>2. Cardinality(Vertices) \in Nat
    BY GraphAssumption, FS_CardinalityType
  <1>3. k \in Nat /\ k >= 1 /\ k <= Cardinality(Vertices)
    BY <1>2, SMTT(30)
  <1>4. p \in Seq(Vertices) /\ Len(p) = k
    BY <1>1, <1>3, SMTT(30)
  <1>5. p[1] = start /\ p[Len(p)] = target
        /\ \A i \in 1..(Len(p) - 1) : <<p[i], p[i + 1]>> \in DOMAIN edges
    BY DEF SimplePaths
  <1>6. ASSUME NEW i \in 2..Len(p) PROVE <<p[i - 1], p[i]>> \in DOMAIN edges
    <2>1. i - 1 \in 1..(Len(p) - 1) /\ (i - 1) + 1 = i
      BY <1>3, <1>4, SMTT(30)
    <2> QED
      BY <1>5, <2>1
  <1> QED
    BY <1>3, <1>4, <1>5, <1>6 DEF IsPath

\* No path undercuts the distances: as far as nodes below D have been explored,
\* by induction along the path.
LEMMA NoPathUndercuts ==
    ASSUME IInv, NEW D \in Nat, D <= distances[target],
           \A u, m \in Vertices : distances[u] < D /\ <<u, m>> \in DOMAIN edges => Relaxed(u, m),
           NEW p \in SimplePaths
    PROVE  D <= PathCost(p)
  <1>1. /\ IsPath(p) /\ p[1] = start /\ p[Len(p)] = target
        /\ p \in Seq(Vertices) /\ Len(p) \in Nat /\ Len(p) >= 1
    BY SimplePathFacts, SMTT(30) DEF IsPath
  <1>2. SearchTypeOK /\ distances \in [Vertices -> Nat] /\ distances[start] = 0
    BY GraphAssumption, SMTT(30) DEF IInv, SearchTypeOK, PredecessorsAreTight
  <1>3. PICK c : Sums(p, Len(p), c) /\ PathCost(p) = c[Len(p)]
    BY <1>1, <1>2, PathCostIsSum
  <1>4. ASSUME NEW i \in 1..Len(p), c[i] < D PROVE distances[p[i]] <= c[i]
    <2> DEFINE T == {k \in 1..Len(p) : c[k] < D /\ ~(distances[p[k]] <= c[k])}
    <2> SUFFICES ASSUME T # {} PROVE FALSE
      BY <1>4
    <2>t. T \subseteq Nat
      BY <1>1, SMTT(30)
    <2>1. PICK n \in T : \A k \in T : n <= k
      BY <2>t, LeastNat
    <2>2. n \in 1..Len(p) /\ c[n] < D /\ ~(distances[p[n]] <= c[n])
      OBVIOUS
    <2> HIDE DEF T
    <2>3. n # 1
      BY <1>1, <1>2, <1>3, <2>2, SMTT(30) DEF Sums
    <2>4. n \in 2..Len(p) /\ n - 1 \in 1..Len(p) /\ ~(n <= n - 1)
      BY <1>1, <2>2, <2>3, SMTT(30)
    <2>5. <<p[n - 1], p[n]>> \in DOMAIN edges /\ p[n - 1] \in Vertices /\ p[n] \in Vertices
      BY <1>1, <2>4, SMTT(30) DEF IsPath
    <2>6. PICK e \in Nat : e = edges[<<p[n - 1], p[n]>>]
      BY <1>2, <2>5, LinkCost
    <2>7. c[n] = c[n - 1] + e /\ c[n] \in Nat /\ c[n - 1] \in Nat
      BY <1>3, <2>2, <2>4, <2>6 DEF Sums
    <2>8. c[n - 1] < D
      BY <2>2, <2>7, SMTT(30)
    <2>9. distances[p[n - 1]] <= c[n - 1]
      BY <2>1, <2>4, <2>8 DEF T
    <2>10. distances[p[n - 1]] < D /\ distances[p[n - 1]] \in Nat /\ distances[p[n]] \in Nat
      BY <1>2, <2>5, <2>7, <2>8, <2>9, SMTT(30)
    <2>11. distances[p[n]] <= distances[p[n - 1]] + e
      BY <2>5, <2>6, <2>10 DEF Relaxed
    <2>12. PICK x \in Nat, y \in Nat, z \in Nat :
               /\ x = distances[p[n - 1]] /\ y = distances[p[n]] /\ z = c[n - 1]
      BY <2>7, <2>10
    <2>13. x <= z /\ y <= x + e
      BY <2>9, <2>11, <2>12
    <2>14. ~(y <= z + e)
      BY <2>2, <2>7, <2>12
    <2> QED
      BY <2>6, <2>12, <2>13, <2>14, SMTT(30)
  <1>5. c[Len(p)] \in Nat /\ Len(p) \in 1..Len(p) /\ distances[target] \in Nat
    BY <1>1, <1>2, <1>3, GraphAssumption, SMTT(30) DEF Sums
  <1>6. c[Len(p)] < D => distances[target] <= c[Len(p)]
    BY <1>1, <1>4, <1>5
  <1> QED
    BY <1>3, <1>5, <1>6, SMTT(30)

\* The path that is returned is one of the graph's, and costs what the distance
\* of the target says.
LEMMA ReturnedPath ==
    ASSUME IInv, done, path # <<>>
    PROVE  path \in SimplePaths /\ PathCost(path) = distances[target]
  <1>1. path \in Seq(Vertices) /\ Len(path) \in Nat /\ Len(path) >= 1
    BY SMTT(30) DEF IInv, SearchTypeOK
  <1>2. SearchTypeOK /\ distances \in [Vertices -> Nat] /\ distances[start] = 0
    BY GraphAssumption, SMTT(30) DEF IInv, SearchTypeOK, PredecessorsAreTight
  <1>3. path[Len(path)] = target /\ predecessors[path[1]] = NoNode
    BY DEF IInv, Traced
  <1>4. ASSUME NEW i \in 2..Len(path)
        PROVE  /\ <<path[i - 1], path[i]>> \in DOMAIN edges
               /\ distances[path[i]] = distances[path[i - 1]] + edges[<<path[i - 1], path[i]>>]
    <2>1. i - 1 \in 1..(Len(path) - 1) /\ (i - 1) + 1 = i
      BY <1>1, SMTT(30)
    <2>2. predecessors[path[i]] = path[i - 1]
      BY <2>1 DEF IInv, Traced
    <2>3. path[i] \in Vertices /\ path[i - 1] \in Vertices /\ path[i - 1] # NoNode
      BY <1>1, GraphAssumption, SMTT(30)
    <2> QED
      BY <2>2, <2>3 DEF IInv, PredecessorsAreTight
  <1>5. IsPath(path)
    BY <1>1, <1>4 DEF IsPath
  <1>6. PICK c : Sums(path, Len(path), c) /\ PathCost(path) = c[Len(path)]
    BY <1>2, <1>5, PathCostIsSum
  <1>7. ASSUME NEW i \in 1..Len(path)
        PROVE  distances[path[i]] = distances[path[1]] + c[i]
    <2> DEFINE T == {k \in 1..Len(path) : distances[path[k]] # distances[path[1]] + c[k]}
    <2> SUFFICES ASSUME T # {} PROVE FALSE
      OBVIOUS
    <2>t. T \subseteq Nat
      BY <1>1, SMTT(30)
    <2>1. PICK n \in T : \A k \in T : n <= k
      BY <2>t, LeastNat
    <2>2. n \in 1..Len(path) /\ distances[path[n]] # distances[path[1]] + c[n]
      OBVIOUS
    <2> HIDE DEF T
    <2>a. PICK a \in Nat : a = distances[path[1]]
      BY <1>1, <1>2, SMTT(30)
    <2>3. n # 1
      BY <1>6, <2>2, <2>a, SMTT(30) DEF Sums
    <2>4. n \in 2..Len(path) /\ n - 1 \in 1..Len(path) /\ ~(n <= n - 1)
      BY <1>1, <2>2, <2>3, SMTT(30)
    <2>6. PICK e \in Nat : e = edges[<<path[n - 1], path[n]>>]
      BY <1>2, <1>4, <2>4, LinkCost
    <2>7. c[n] = c[n - 1] + e /\ c[n] \in Nat /\ c[n - 1] \in Nat
      BY <1>6, <2>2, <2>4, <2>6 DEF Sums
    <2>8. distances[path[n - 1]] = a + c[n - 1]
      BY <2>1, <2>4, <2>a DEF T
    <2>9. distances[path[n]] = distances[path[n - 1]] + e
      BY <1>4, <2>4, <2>6
    <2> QED
      BY <2>2, <2>7, <2>8, <2>9, <2>a, SMTT(30)
  <1>8. path[1] = start
    <2>1. c[Len(path)] \in Nat /\ Len(path) \in 1..Len(path)
      BY <1>1, <1>6, SMTT(30) DEF Sums
    <2>2. distances[target] = distances[path[1]] + c[Len(path)]
      BY <1>3, <1>7, <2>1
    <2>3. distances[target] < Infinity
      BY DEF IInv, TargetWaits
    <2>4. distances[path[1]] \in Nat /\ path[1] \in Vertices
      BY <1>1, <1>2, SMTT(30)
    <2>5. distances[path[1]] # Infinity
      BY <2>1, <2>2, <2>3, <2>4, GraphAssumption, SMTT(30)
    <2> QED
      BY <1>3, <2>4, <2>5 DEF IInv, PredecessorsAreTight
  <1>9. PathCost(path) = distances[target]
    <2>1. c[Len(path)] \in Nat /\ Len(path) \in 1..Len(path)
      BY <1>1, <1>6, SMTT(30) DEF Sums
    <2>2. distances[target] = distances[path[1]] + c[Len(path)]
      BY <1>3, <1>7, <2>1
    <2> QED
      BY <1>2, <1>6, <1>8, <2>1, <2>2, SMTT(30)
  <1>10. IsInjective(path)
    <2>1. PICK rank \in [Vertices -> Nat] : Numbers(rank)
      BY DEF IInv, Acyclic
    <2>2. ASSUME NEW i \in DOMAIN path, NEW j \in DOMAIN path, path[i] = path[j]
          PROVE  i = j
      <3>1. i \in Nat /\ j \in Nat /\ path[i] \in Vertices /\ rank[path[i]] \in Nat
        BY <1>1, SMTT(30)
      <3>2. ~(i < j) /\ ~(j < i)
        BY <2>1, <2>2, <3>1, SMTT(30) DEF Numbers
      <3> QED
        BY <3>1, <3>2, SMTT(30)
    <2> QED
      BY <2>2 DEF IsInjective
  <1>11. Len(path) <= Cardinality(Vertices)
    <2>1. IsFiniteSet(Vertices) /\ Cardinality(Vertices) \in Nat
      BY GraphAssumption, FS_CardinalityType
    <2>2. IsFiniteSet(1..Len(path)) /\ Cardinality(1..Len(path)) = Len(path)
      BY <1>1, FS_Interval, SMTT(30)
    <2>3. path \in [1..Len(path) -> Vertices]
      BY <1>1, SMTT(30)
    <2>4. ~\E x, y \in 1..Len(path) : x # y /\ path[x] = path[y]
      BY <1>1, <1>10, SMTT(30) DEF IsInjective
    <2>5. ~(Cardinality(Vertices) < Cardinality(1..Len(path)))
      BY <2>1, <2>2, <2>3, <2>4, FS_PigeonHole, SMTT(30)
    <2> QED
      BY <1>1, <2>1, <2>2, <2>5, SMTT(30)
  <1>12. path \in UNION {[1..k -> Vertices] : k \in 1..Cardinality(Vertices)}
    <2>1. Len(path) \in 1..Cardinality(Vertices)
      <3>1. Cardinality(Vertices) \in Nat
        BY GraphAssumption, FS_CardinalityType
      <3> QED
        BY <1>1, <1>11, <3>1, SMTT(30)
    <2>2. path \in [1..Len(path) -> Vertices]
      BY <1>1, SMTT(30)
    <2> QED
      BY <2>1, <2>2
  <1>13. ASSUME NEW i \in 1..(Len(path) - 1) PROVE <<path[i], path[i + 1]>> \in DOMAIN edges
    <2>1. i + 1 \in 2..Len(path) /\ (i + 1) - 1 = i
      BY <1>1, SMTT(30)
    <2> QED
      BY <1>4, <2>1
  <1> QED
    BY <1>3, <1>8, <1>9, <1>10, <1>12, <1>13, SMTT(30) DEF SimplePaths

\* find_shortest_path returns a path that no other one undercuts, and None only
\* if there is none, on every graph and whatever the ties (graph.rs:74-128).
THEOREM ShortestPathHolds == SearchSpec => []ShortestPath
  <1>1. IInv => ShortestPath
    <2> SUFFICES ASSUME IInv, done PROVE ShortestPath
      BY DEF ShortestPath
    <2>0. /\ target \in Vertices /\ Infinity \in Nat /\ distances \in [Vertices -> Nat]
          /\ current.cost \in Nat
          /\ \A n \in Vertices : distances[n] <= Infinity
      BY GraphAssumption, SMTT(30) DEF IInv, SearchTypeOK, SearchState
    <2>1. CASE path = <<>>
      <3>1. heap = {} /\ todo = {}
        BY <2>1 DEF IInv, Traced
      <3>2. distances[target] = Infinity
        BY <2>0, <2>1, <3>1, SMTT(30) DEF IInv, TargetWaits
      <3>3. \A u, m \in Vertices : distances[u] < Infinity /\ <<u, m>> \in DOMAIN edges => Relaxed(u, m)
        BY <2>1, <3>1 DEF IInv, Explored
      <3>4. ASSUME NEW p \in SimplePaths PROVE FALSE
        <4>1. Infinity <= PathCost(p)
          BY <2>0, <3>2, <3>3, NoPathUndercuts, SMTT(30)
        <4>2. IsPath(p) /\ Len(p) <= Cardinality(Vertices) /\ SearchTypeOK
          BY SimplePathFacts DEF IInv
        <4>3. PICK c : Sums(p, Len(p), c) /\ PathCost(p) = c[Len(p)]
          BY <4>2, PathCostIsSum
        <4>4. c[Len(p)] < Infinity
          BY <4>2, <4>3, SumsGrow
        <4>5. c[Len(p)] \in Nat
          BY <4>2, <4>3, SMTT(30) DEF Sums, IsPath
        <4> QED
          BY <2>0, <4>1, <4>3, <4>4, <4>5, SMTT(30)
      <3> QED
        BY <2>1, <3>4 DEF ShortestPath
    <2>2. CASE path # <<>>
      <3>1. path \in SimplePaths /\ PathCost(path) = distances[target]
        BY <2>2, ReturnedPath
      <3>2. distances[target] = current.cost
        BY <2>2 DEF IInv, TargetWaits
      <3>3. todo = {}
        BY <2>2 DEF IInv, TodoAreNeighbours
      <3>4. ASSUME NEW u \in Vertices, NEW m \in Vertices, distances[u] < distances[target],
                   <<u, m>> \in DOMAIN edges
            PROVE  Relaxed(u, m)
        <4>1. distances[u] < Infinity /\ u # target
          BY <2>0, <3>4, SMTT(30)
        <4>2. ~([cost |-> distances[u], node |-> u] \in heap)
          <5>1. ~(current.cost <= distances[u])
            BY <2>0, <3>2, <3>4, SMTT(30)
          <5> QED
            BY <5>1 DEF IInv, HeapIsDearer
        <4> QED
          BY <3>3, <3>4, <4>1, <4>2 DEF IInv, Explored
      <3>5. ASSUME NEW p \in SimplePaths PROVE distances[target] <= PathCost(p)
        BY <2>0, <3>4, NoPathUndercuts, SMTT(30)
      <3> QED
        BY <3>1, <3>5 DEF ShortestPath
    <2> QED
      BY <2>1, <2>2
  <1> QED
    BY <1>1, Invariance, PTL

=============================================================================
