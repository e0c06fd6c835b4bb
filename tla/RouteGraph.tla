----------------------------- MODULE RouteGraph -----------------------------
(***************************************************************************)
(* find_shortest_path of crates/omnimesh-routing/src/graph.rs: Dijkstra's  *)
(* algorithm with a heap that may hold several entries of a node, on any   *)
(* graph over Vertices, its nodes.  The order in which entries of equal    *)
(* cost leave the BinaryHeap, and in which a HashMap lists the neighbours, *)
(* is a choice.                                                            *)
(*                                                                         *)
(* A cost is a natural number; 0 is one of them, since a link of no        *)
(* latency costs nothing.  f64::MAX, the distance of a node that the map   *)
(* has not, is Infinity.  An entry is pushed only when it lowers the       *)
(* distance of its node, so no two entries are equal and the heap is a set.*)
(* The walk back from the target puts each node before those it has, where *)
(* the code appends them and reverses the list when it returns.            *)
(***************************************************************************)
EXTENDS Naturals, Sequences, Functions, FiniteSets

CONSTANTS Vertices, NoNode, start, target,
          Links,      \* the pairs of nodes that may have a link
          Costs,      \* the costs that LinkMetrics::cost may compute
          Infinity    \* larger than the cost of any path

ASSUME GraphAssumption ==
    /\ {start, target} \subseteq Vertices /\ NoNode \notin Vertices
    /\ Links \subseteq Vertices \X Vertices
    /\ Costs \subseteq Nat
    /\ Infinity \in Nat
    /\ IsFiniteSet(Vertices)
    /\ \E c \in 0..Infinity : /\ c * Cardinality(Vertices) < Infinity
                              /\ \A d \in Costs : d <= c

VARIABLES edges,         \* the cost of each link that the graph has
          distances,
          predecessors,  \* NoNode where the map has no entry
          heap,
          current,       \* the entry popped last
          todo,          \* its neighbours still to be looked at
          done, path     \* whether the call has returned; <<>> is None, or
                         \* that the target has not been popped

searchVars == <<edges, distances, predecessors, heap, current, todo, done, path>>

SearchState == [cost : 0..Infinity, node : Vertices \cup {NoNode}]

RouteGraphs == UNION {[L -> Costs] : L \in SUBSET Links}

SearchInit ==
    /\ edges \in RouteGraphs
    /\ distances = [n \in Vertices |-> IF n = start THEN 0 ELSE Infinity]
    /\ predecessors = [n \in Vertices |-> NoNode]
    /\ heap = {[cost |-> 0, node |-> start]}
    /\ current = [cost |-> 0, node |-> NoNode]
    /\ todo = {}
    /\ done = FALSE
    /\ path = <<>>

-----------------------------------------------------------------------------
\* The entries that heap.pop() may return.
pop == {e \in heap : \A f \in heap : e.cost <= f.cost}

\* The loop goes on: neither the target nor the end has been reached.
searching == ~done /\ path = <<>>

\* The iteration that pops the target begins the path there.
reach_target ==
    /\ searching /\ todo = {}
    /\ \E e \in pop : /\ e.node = target
                      /\ heap' = heap \ {e}
                      /\ current' = e
    /\ path' = <<target>>
    /\ UNCHANGED <<edges, distances, predecessors, todo, done>>

\* The loop that walks back along the predecessors, and the return.  Its bound
\* is never met.
trace ==
    /\ ~done /\ path # <<>> /\ Len(path) <= Cardinality(Vertices)
    /\ LET pred == predecessors[Head(path)]
       IN  IF pred # NoNode THEN path' = <<pred>> \o path /\ UNCHANGED done
           ELSE done' = TRUE /\ UNCHANGED path
    /\ UNCHANGED <<edges, distances, predecessors, heap, current, todo>>

\* Plausible bug: the entry is looked at and left in the heap.
visitPeek ==
    /\ searching /\ todo = {}
    /\ \E e \in pop :
           /\ e.node # target
           /\ current' = e
           /\ todo' = {m \in Vertices : /\ <<e.node, m>> \in DOMAIN edges
                                       /\ e.cost <= distances[e.node]}
    /\ UNCHANGED <<edges, distances, predecessors, heap, done, path>>

\* Any other iteration: an entry that a cheaper one has overtaken is skipped.
visit ==
    /\ searching /\ todo = {}
    /\ \E e \in pop :
           /\ e.node # target
           /\ heap' = heap \ {e}
           /\ current' = e
           /\ todo' = {m \in Vertices : /\ <<e.node, m>> \in DOMAIN edges
                                       /\ e.cost <= distances[e.node]}
    /\ UNCHANGED <<edges, distances, predecessors, done, path>>

\* Plausible bug: a node reached once is never improved.
cheaperFirst(m, next_cost) == distances[m] = Infinity

cheaper(m, next_cost) == next_cost < distances[m]

\* The body of the loop over the neighbours.
relax ==
    /\ \E m \in todo :
           LET next_cost == current.cost + edges[<<current.node, m>>]
           IN  /\ todo' = todo \ {m}
               /\ IF cheaper(m, next_cost)
                  THEN /\ distances' = [distances EXCEPT ![m] = next_cost]
                       /\ predecessors' = [predecessors EXCEPT ![m] = current.node]
                       /\ heap' = heap \cup {[cost |-> next_cost, node |-> m]}
                  ELSE UNCHANGED <<distances, predecessors, heap>>
    /\ UNCHANGED <<edges, current, done, path>>

\* The heap is empty: None.
exhausted ==
    /\ searching /\ todo = {} /\ heap = {}
    /\ done' = TRUE
    /\ UNCHANGED <<edges, distances, predecessors, heap, current, todo, path>>

Returned == done /\ UNCHANGED searchVars

SearchNext == reach_target \/ trace \/ visit \/ relax \/ exhausted \/ Returned

SearchSpec == SearchInit /\ [][SearchNext]_searchVars

\* The search is one synchronous call.
FairSearch == SearchSpec /\ WF_searchVars(SearchNext)

-----------------------------------------------------------------------------
\* Types of the search state.
SearchTypeOK ==
    /\ edges \in RouteGraphs
    /\ distances \in [Vertices -> 0..Infinity]
    /\ predecessors \in [Vertices -> Vertices \cup {NoNode}]
    /\ heap \subseteq SearchState /\ current \in SearchState
    /\ todo \subseteq Vertices
    /\ path \in Seq(Vertices)
    /\ done \in BOOLEAN

\* The reference: the paths of the graph that visit no node twice.
SimplePaths ==
    {p \in UNION {[1..k -> Vertices] : k \in 1..Cardinality(Vertices)} :
        /\ p[1] = start /\ p[Len(p)] = target
        /\ IsInjective(p)
        /\ \A i \in 1..(Len(p) - 1) : <<p[i], p[i + 1]>> \in DOMAIN edges}

PathCost(p) ==
    LET cost[i \in 1..Len(p)] == IF i = 1 THEN 0 ELSE cost[i - 1] + edges[<<p[i - 1], p[i]>>]
    IN  cost[Len(p)]

\* The call returns None when the target is unreachable and otherwise a path of
\* the graph that no other path undercuts, whatever the ties (graph.rs:74-128).
ShortestPath ==
    done => \/ path = <<>> /\ SimplePaths = {}
            \/ path \in SimplePaths /\ \A p \in SimplePaths : PathCost(path) <= PathCost(p)

\* Entries leave the heap in order of cost, and a node no dearer than the last
\* of them is never improved afterwards: this is why the search may stop at the target
\* (graph.rs:86-97) and why an overtaken entry may be skipped (graph.rs:100-104).
SettledIsFinal ==
    [][/\ current'.cost >= current.cost
       /\ \A n \in Vertices : distances[n] <= current.cost => distances'[n] = distances[n]]_searchVars

\* A search whose loop has begun returns, on graphs with cycles of cost 0 too
\* (graph.rs:86-124).
SearchReturns == []<>(current.node # NoNode => done)
=============================================================================
