-------------------------------- MODULE Rpc --------------------------------
(***************************************************************************)
(* RpcService of two or more nodes that call each other (crates/omnimesh-  *)
(* service/src/lib.rs:130-226), over the SDK's send_message, which may     *)
(* fail, or succeed and yet lose the message with its session.  Messages   *)
(* are not ordered: requests are served by spawned tasks.                  *)
(*                                                                         *)
(* A call stands for its request, and the answer to it is the call itself: *)
(* what a caller gets back is right when it names the caller's own call.   *)
(***************************************************************************)
EXTENDS Naturals, FiniteSets

CONSTANTS Nodes,
          Calls,         \* invocations of RpcService::call
          Caller, Callee,
          MaxRestarts    \* bound on the restarts of each node

ASSUME RpcAssumption ==
    /\ Caller \in [Calls -> Nodes]
    /\ Callee \in [Calls -> Nodes]
    /\ MaxRestarts \in Nat

VARIABLES next_request_id,   \* per node
          pending_requests,  \* per node: request ids with a response sender
          call,              \* state of each call
          wire,              \* requests and responses on the way
          serving,           \* requests that a spawned task is handling
          restarts,
          lost               \* history: calls whose request or response is lost

vars == <<next_request_id, pending_requests, call, wire, serving, restarts, lost>>

Idle == [at |-> "idle"]

\* A request or response about call c carries the request id c was given.
Packets == [type : {"request", "response"}, id : Nat, of : Calls]

Init ==
    /\ next_request_id = [n \in Nodes |-> 1]
    /\ pending_requests = [n \in Nodes |-> {}]
    /\ call = [c \in Calls |-> Idle]
    /\ wire = {}
    /\ serving = {}
    /\ restarts = [n \in Nodes |-> 0]
    /\ lost = {}

-----------------------------------------------------------------------------
\* Plausible bug: the counter is read without being advanced.
fetch_addLost(n) == next_request_id[n]

fetch_add(n) == next_request_id[n] + 1

\* create_request: an id is taken and its sender registered before anything is
\* sent.
create_request(c) ==
    LET n == Caller[c]
        id == next_request_id[n]
    IN  /\ call[c] = Idle
        /\ next_request_id' = [next_request_id EXCEPT ![n] = fetch_add(n)]
        /\ pending_requests' = [pending_requests EXCEPT ![n] = @ \cup {id}]
        /\ call' = [call EXCEPT ![c] = [at |-> "sending", id |-> id]]
        /\ UNCHANGED <<wire, serving, restarts, lost>>

\* send_message: the call waits for the response, which may be there already,
\* or returns the error, which leaves its entry in pending_requests.
send_message(c) ==
    /\ call[c].at \in {"sending", "early"}
    /\ \/ /\ call' = [call EXCEPT ![c].at = IF @ = "sending" THEN "waiting" ELSE "answered"]
          /\ wire' = wire \cup {[type |-> "request", id |-> call[c].id, of |-> c]}
       \/ /\ call' = [call EXCEPT ![c].at = "failed"]
          /\ UNCHANGED wire
    /\ UNCHANGED <<next_request_id, pending_requests, serving, restarts, lost>>

\* handle_message with a request: a task is spawned for it.
handle_request(p) ==
    /\ p \in wire /\ p.type = "request"
    /\ wire' = wire \ {p}
    /\ serving' = serving \cup {p}
    /\ UNCHANGED <<next_request_id, pending_requests, call, restarts, lost>>

\* The spawned task answers, with a result or with the handler's error; an
\* error of send_message is ignored.
respond(p) ==
    /\ p \in serving
    /\ serving' = serving \ {p}
    /\ wire' = wire \cup {[p EXCEPT !.type = "response"]}
    /\ UNCHANGED <<next_request_id, pending_requests, call, restarts, lost>>

\* Plausible bug: the entry is read, not removed.
removeNot(n, id) == pending_requests

\* Plausible bug: a response clears the whole map.
removeAll(n, id) == [pending_requests EXCEPT ![n] = {}]

remove(n, id) == [pending_requests EXCEPT ![n] = @ \ {id}]

\* handle_message with a response: the entry is removed and the response is
\* handed to the call that registered it; an id without an entry is ignored.
handle_response(p) ==
    LET n == Caller[p.of]
        mine == {c \in Calls : /\ Caller[c] = n /\ p.id \in pending_requests[n]
                               /\ call[c].at \in {"sending", "waiting"}
                               /\ call[c].id = p.id}
    IN  /\ p \in wire /\ p.type = "response"
        /\ wire' = wire \ {p}
        /\ pending_requests' = remove(n, p.id)
        /\ call' = [c \in Calls |->
                       IF c \in mine
                       THEN [at |-> IF call[c].at = "sending" THEN "early" ELSE "answered",
                             id |-> p.id, by |-> p.of]
                       ELSE call[c]]
        /\ UNCHANGED <<next_request_id, serving, restarts, lost>>

\* The caller's session dies with a message on it, or the response cannot be
\* sent.
lose(p) ==
    /\ p \in wire
    /\ wire' = wire \ {p}
    /\ lost' = lost \cup {p.of}
    /\ UNCHANGED <<next_request_id, pending_requests, call, serving, restarts>>

\* The application gives up on a call (a timeout around it, a select!): the
\* receiver goes, the entry stays.
abandon(c) ==
    /\ call[c].at \in {"sending", "early", "waiting"}
    /\ call' = [call EXCEPT ![c].at = "abandoned"]
    /\ UNCHANGED <<next_request_id, pending_requests, wire, serving, restarts, lost>>

\* The node stops and starts again: request ids begin at 1 again.  Requests it
\* was serving are gone; those it sent are still being served, and the answers
\* reach it over its new session.
restart(n) ==
    /\ restarts[n] < MaxRestarts
    /\ restarts' = [restarts EXCEPT ![n] = @ + 1]
    /\ next_request_id' = [next_request_id EXCEPT ![n] = 1]
    /\ pending_requests' = [pending_requests EXCEPT ![n] = {}]
    /\ call' = [c \in Calls |-> IF Caller[c] = n /\ call[c].at \in {"sending", "early", "waiting"}
                                THEN [call[c] EXCEPT !.at = "abandoned"] ELSE call[c]]
    /\ serving' = {p \in serving : Callee[p.of] # n}
    /\ wire' = {p \in wire : n \notin {Caller[p.of], Callee[p.of]}}
    /\ lost' = lost \cup {p.of : p \in (wire \ wire') \cup (serving \ serving')}

CallStep(c) == create_request(c) \/ send_message(c)

PacketStep(p) == handle_request(p) \/ handle_response(p) \/ respond(p)

Next ==
    \/ \E c \in Calls : CallStep(c) \/ abandon(c)
    \/ \E p \in wire \cup serving : PacketStep(p) \/ lose(p)
    \/ \E n \in Nodes : restart(n)

Spec == Init /\ [][Next]_vars

\* The tasks that make a call, serve a request and handle a message are
\* polled.  Nothing makes the application call, a message get lost, a caller
\* give up or a node restart.  The ids in use are at most one per call.
Fairness ==
    /\ \A c \in Calls : WF_vars(send_message(c))
    /\ \A p \in [type : {"request", "response"}, id : 1..Cardinality(Calls), of : Calls] :
           WF_vars(PacketStep(p))

FairSpec == Spec /\ Fairness

-----------------------------------------------------------------------------
\* Types of the services, calls and messages.
TypeOK ==
    /\ next_request_id \in [Nodes -> Nat \ {0}]
    /\ pending_requests \in [Nodes -> SUBSET Nat]
    /\ call \in [Calls ->
           {Idle}
           \cup [at : {"sending", "waiting", "failed", "abandoned"}, id : Nat]
           \cup [at : {"early", "answered", "failed", "abandoned"}, id : Nat, by : Calls]]
    /\ wire \in SUBSET Packets
    /\ serving \in SUBSET Packets
    /\ restarts \in [Nodes -> 0..MaxRestarts]
    /\ lost \subseteq Calls

\* What a call returns is the answer to its own request, however many calls
\* overlap, answer out of order or are given up (lib.rs:149-158, 219-221), as
\* long as the caller has not restarted: then ids are used again.
AnswerIsOwn ==
    \A c \in Calls : call[c].at = "answered" /\ restarts[Caller[c]] = 0 => call[c].by = c

\* Every call that waits has its sender registered, and a sender without a
\* waiting call is one whose request could not be sent or that was given up:
\* these are the only entries that leak (lib.rs:150-151).
PendingAccounted ==
    /\ \A c \in Calls : call[c].at \in {"sending", "waiting"}
                            => call[c].id \in pending_requests[Caller[c]]
    /\ \A n \in Nodes : \A id \in pending_requests[n] :
           \E c \in Calls : /\ Caller[c] = n /\ call[c] # Idle /\ call[c].id = id
                            /\ call[c].at \in {"sending", "waiting", "failed", "abandoned"}

\* No call waits for good, unless one of its messages was lost: call has no
\* other way to hang (lib.rs:149-158), as long as the callee's handler returns
\* (lib.rs:197) and the session loops of the two nodes get on, which is the
\* subject of module Session.
CallsReturn ==
    \A c \in Calls : []<>(call[c].at = "waiting" => c \in lost)
=============================================================================
