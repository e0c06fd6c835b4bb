----------------------------- MODULE MCRouting -----------------------------
(***************************************************************************)
(* The routing layer: gossip on the line of nodes A - B - C, a router with *)
(* tasks whose calls on a link race, and the search of a graph with a      *)
(* source, a target and two vertices between them (direct, two-hop and     *)
(* three-hop paths, and a cycle off the target).  They share no state:     *)
(* part says which of them moves in a behaviour, the others rest.          *)
(***************************************************************************)
EXTENDS Routing, RouteGraph

VARIABLE part

allVars == <<vars, routerVars, searchVars, part>>

Both(S) == S \cup {<<a[2], a[1]>> : a \in S}

Three == {"A", "B", "C"}
ThreeLine == Both({<<"A", "B">>, <<"B", "C">>})

\* A link of the node at the end, two hops from C, and one of the node in the
\* middle.
Along == {<<"A", "B">>, <<"B", "C">>}

Four == {"s", "a", "b", "t"}
FourLinks == {<<"s", "a">>, <<"s", "b">>, <<"s", "t">>, <<"a", "b">>, <<"b", "a">>,
              <<"a", "t">>, <<"b", "t">>}

MCInit ==
    /\ part \in {"mesh", "router", "graph"}
    /\ Init
    /\ Router!Init
    /\ SearchInit
    /\ part # "graph" => DOMAIN edges = {}

MCNext ==
    /\ \/ part = "mesh" /\ Next /\ UNCHANGED <<routerVars, searchVars>>
       \/ part = "mesh" /\ ~ENABLED Next /\ UNCHANGED allVars  \* the bounds are reached
       \/ part = "router" /\ Router!Next /\ UNCHANGED <<vars, searchVars>>
       \/ part = "graph" /\ SearchNext /\ UNCHANGED <<vars, routerVars>>
    /\ UNCHANGED part

MCSpec == MCInit /\ [][MCNext]_allVars /\ (part = "graph" => WF_searchVars(SearchNext))

\* The mesh, without the others.
MeshSpec ==
    /\ MCInit /\ part = "mesh"
    /\ [][Next /\ UNCHANGED <<routerVars, searchVars, part>>]_allVars
    /\ Fairness
=============================================================================
