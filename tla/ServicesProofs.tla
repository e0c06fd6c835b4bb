--------------------------- MODULE ServicesProofs ---------------------------
(***************************************************************************)
(* The services of a node: proofs for any nodes, calls, restarts, topics   *)
(* and subscribers.                                                        *)
(*                                                                         *)
(* Rpc: a response finds its own call because of where ids come from: no   *)
(* two calls of a node have the same one until the node restarts, and a    *)
(* packet carries the id of the call it is about.  Chat: the place of the  *)
(* reader says exactly what it has printed.  PubSub: a walk over the       *)
(* senders of a topic keeps new subscribers out, so that everyone it has   *)
(* not come to yet lacks its message and no other.                         *)
(***************************************************************************)
EXTENDS Services, TLAPS

USE Zenon

\* The node that made the call has not restarted.
Fresh(c) == restarts[Caller[c]] = 0

\* Ids are below the counter, and different for different calls.
IdsAreDistinct ==
    /\ \A c \in Calls : Fresh(c) /\ call[c] # Idle => call[c].id < next_request_id[Caller[c]]
    /\ \A c, d \in Calls : /\ Fresh(c) /\ Caller[c] = Caller[d]
                           /\ call[c] # Idle /\ call[d] # Idle /\ call[c].id = call[d].id
                           => c = d

\* A packet carries the id of its call.
PacketsMatch ==
    \A p \in wire \cup serving : Fresh(p.of) => call[p.of] # Idle /\ call[p.of].id = p.id

\* An answer, also one that came early, is the call's own.
AnswersMatch ==
    \A c \in Calls : Fresh(c) /\ call[c].at \in {"early", "answered"} => call[c].by = c

IInv == TypeOK /\ PendingAccounted /\ IdsAreDistinct /\ PacketsMatch /\ AnswersMatch

\* Every call is in one of the states of RpcService::call.
LEMMA CallFacts ==
    ASSUME TypeOK, NEW c \in Calls
    PROVE  /\ call[c] = Idle \/ call[c].id \in Nat
           /\ call[c] = Idle <=> call[c].at = "idle"
           /\ call[c].at \in {"early", "answered"} => call[c].by \in Calls
           /\ call[c].at \in {"idle", "sending", "waiting", "failed", "abandoned",
                              "early", "answered"}
  BY SMTT(30) DEF TypeOK, Idle

\* Changing where a call is leaves its id and its answer alone.
LEMMA SetAt ==
    ASSUME TypeOK, NEW c \in Calls,
           NEW x \in {"waiting", "answered", "failed", "abandoned"},
           x = "waiting" => call[c].at = "sending",
           x = "answered" => call[c].at = "early",
           call[c].at \in {"sending", "early", "waiting"},
           NEW r, r = [call[c] EXCEPT !.at = x]
    PROVE  /\ r.at = x /\ r.id = call[c].id
           /\ x = "answered" => r.by = call[c].by
           /\ r \in [at : {"sending", "waiting", "failed", "abandoned"}, id : Nat]
                  \cup [at : {"early", "answered", "failed", "abandoned"}, id : Nat, by : Calls]
           /\ r # Idle
  <1>1. CASE call[c] \in [at : {"sending", "waiting", "failed", "abandoned"}, id : Nat]
    BY <1>1 DEF Idle
  <1>2. CASE call[c] \in [at : {"early", "answered", "failed", "abandoned"}, id : Nat, by : Calls]
    BY <1>2 DEF Idle
  <1> QED
    BY <1>1, <1>2, SMTT(30) DEF TypeOK, Idle

\* Nothing is pending and nothing is on the way at first.
LEMMA InitIInv == Init => IInv
  <1> SUFFICES ASSUME Init PROVE IInv
    OBVIOUS
  <1>1. TypeOK
    BY RpcAssumption, SMTT(30) DEF Init, TypeOK
  <1>2. \A c \in Calls : call[c] = Idle /\ call[c].at = "idle"
    BY DEF Init, Idle
  <1> QED
    BY <1>1, <1>2 DEF Init, IInv, PendingAccounted, IdsAreDistinct, PacketsMatch, AnswersMatch

\* A new call gets an id that no call of its node has (lib.rs:160-175).
LEMMA CreateIInv ==
    ASSUME IInv, NEW c \in Calls, create_request(c)
    PROVE  IInv'
  <1> DEFINE n == Caller[c]
             id == next_request_id[n]
  <1>1. /\ call[c] = Idle /\ call[c].at = "idle"
        /\ next_request_id' = [next_request_id EXCEPT ![n] = id + 1]
        /\ pending_requests' = [pending_requests EXCEPT ![n] = @ \cup {id}]
        /\ call' = [call EXCEPT ![c] = [at |-> "sending", id |-> id]]
        /\ UNCHANGED <<wire, serving, restarts, lost>>
    BY SMTT(30) DEF create_request, fetch_add, Idle
  <1>2. n \in Nodes /\ id \in Nat \ {0}
    BY RpcAssumption DEF IInv, TypeOK
  <1>3. TypeOK'
    BY <1>1, <1>2, SMTT(30) DEF IInv, TypeOK
  <1>4. /\ call'[c].at = "sending" /\ call'[c].id = id /\ call'[c] # Idle
        /\ \A d \in Calls : d # c => call'[d] = call[d]
        /\ pending_requests'[n] = pending_requests[n] \cup {id}
        /\ \A m \in Nodes : m # n => /\ pending_requests'[m] = pending_requests[m]
                                     /\ next_request_id'[m] = next_request_id[m]
        /\ next_request_id'[n] = id + 1
    BY <1>1, <1>2 DEF IInv, TypeOK, Idle
  <1>5. PendingAccounted'
    BY <1>1, <1>2, <1>4, RpcAssumption, SMTT(30) DEF IInv, PendingAccounted
  <1>6. IdsAreDistinct'
    <2>1. \A d \in Calls : Fresh(d)' => Fresh(d)
      BY <1>1 DEF Fresh
    <2>2. ASSUME NEW d \in Calls, d # c, Fresh(d), Caller[d] = n, call[d] # Idle
          PROVE  call[d].id < id /\ call[d].id \in Nat
      BY <2>2, CallFacts DEF IInv, IdsAreDistinct
    <2>3. \A d \in Calls : Fresh(d)' /\ call'[d] # Idle
                              => call'[d].id < next_request_id'[Caller[d]]
      BY <1>2, <1>4, <2>1, <2>2, RpcAssumption, SMTT(30) DEF IInv, IdsAreDistinct
    <2>4. \A d, e \in Calls : /\ Fresh(d)' /\ Caller[d] = Caller[e]
                              /\ call'[d] # Idle /\ call'[e] # Idle
                              /\ call'[d].id = call'[e].id
                              => d = e
      <3> SUFFICES ASSUME NEW d \in Calls, NEW e \in Calls, Fresh(d)', Caller[d] = Caller[e],
                          call'[d] # Idle, call'[e] # Idle, call'[d].id = call'[e].id
                   PROVE  d = e
        OBVIOUS
      <3>1. Fresh(d) /\ Fresh(e)
        BY <2>1 DEF Fresh
      <3>2. CASE d # c /\ e # c
        BY <1>4, <3>1, <3>2, SMTT(30) DEF IInv, IdsAreDistinct
      <3>3. CASE d = c /\ e # c
        BY <1>2, <1>4, <2>2, <3>1, <3>3, SMTT(30)
      <3>4. CASE d # c /\ e = c
        BY <1>2, <1>4, <2>2, <3>1, <3>4, SMTT(30)
      <3> QED
        BY <3>2, <3>3, <3>4
    <2> QED
      BY <2>3, <2>4 DEF IdsAreDistinct
  <1>7. PacketsMatch'
    <2>1. \A p \in wire \cup serving : p.of \in Calls
      BY DEF IInv, TypeOK, Packets
    <2> QED
      BY <1>1, <1>4, <2>1, SMTT(30) DEF IInv, PacketsMatch, Fresh
  <1>8. AnswersMatch'
    BY <1>1, <1>4 DEF IInv, AnswersMatch, Fresh
  <1> QED
    BY <1>3, <1>5, <1>6, <1>7, <1>8 DEF IInv

\* A call that moves on keeps its id, and its answer if it has one; a call that
\* ends without an answer leaves its entry (lib.rs:149-158).
LEMMA MoveIInv ==
    ASSUME IInv, NEW c \in Calls, NEW x \in {"waiting", "answered", "failed", "abandoned"},
           call[c].at \in {"sending", "early", "waiting"},
           x = "waiting" => call[c].at = "sending",
           x = "answered" => call[c].at = "early",
           call' = [call EXCEPT ![c].at = x],
           UNCHANGED <<next_request_id, pending_requests, serving, restarts, lost>>,
           \/ wire' = wire
           \/ wire' = wire \cup {[type |-> "request", id |-> call[c].id, of |-> c]}
    PROVE  IInv'
  <1>1. call' = [call EXCEPT ![c] = [call[c] EXCEPT !.at = x]]
    BY DEF IInv, TypeOK
  <1>2. /\ call'[c].at = x /\ call'[c].id = call[c].id
        /\ x = "answered" => call'[c].by = call[c].by
        /\ call'[c] \in [at : {"sending", "waiting", "failed", "abandoned"}, id : Nat]
               \cup [at : {"early", "answered", "failed", "abandoned"}, id : Nat, by : Calls]
        /\ call'[c] # Idle
        /\ \A d \in Calls : d # c => call'[d] = call[d]
    BY <1>1, SetAt, SMTT(30) DEF IInv, TypeOK
  <1>3. call[c] # Idle /\ call[c].id \in Nat
    BY CallFacts DEF IInv, Idle
  <1>4. TypeOK'
    <2>1. wire' \subseteq Packets
      BY <1>3, SMTT(30) DEF IInv, TypeOK, Packets
    <2>2. call' \in [Calls -> {Idle}
               \cup [at : {"sending", "waiting", "failed", "abandoned"}, id : Nat]
               \cup [at : {"early", "answered", "failed", "abandoned"}, id : Nat, by : Calls]]
      BY <1>1, <1>2, SMTT(30) DEF IInv, TypeOK
    <2> QED
      BY <2>1, <2>2 DEF IInv, TypeOK
  <1>5. PendingAccounted'
    <2>1. \A d \in Calls : call'[d].at \in {"sending", "waiting"}
                              => call'[d].id \in pending_requests'[Caller[d]]
      BY <1>2, SMTT(30) DEF IInv, PendingAccounted
    <2>2. ASSUME NEW m \in Nodes, NEW i \in pending_requests[m]
          PROVE  \E d \in Calls : /\ Caller[d] = m /\ call'[d] # Idle /\ call'[d].id = i
                                  /\ call'[d].at \in {"sending", "waiting", "failed", "abandoned"}
      <3>1. PICK d \in Calls : /\ Caller[d] = m /\ call[d] # Idle /\ call[d].id = i
                               /\ call[d].at \in {"sending", "waiting", "failed", "abandoned"}
        BY SMTT(30) DEF IInv, PendingAccounted
      <3>2. CASE d = c
        BY <1>2, <3>1, <3>2
      <3>3. CASE d # c
        BY <1>2, <3>1, <3>3
      <3> QED
        BY <3>2, <3>3
    <2> QED
      BY <2>1, <2>2, SMTT(30) DEF PendingAccounted
  <1>6. \A d \in Calls : /\ call'[d] # Idle <=> call[d] # Idle
                         /\ call[d] # Idle => call'[d].id = call[d].id
                         /\ Fresh(d)' <=> Fresh(d)
    BY <1>2, <1>3 DEF Fresh
  <1>7. IdsAreDistinct'
    <2>1. ASSUME NEW d \in Calls, Fresh(d)', call'[d] # Idle
          PROVE  call'[d].id < next_request_id'[Caller[d]]
      BY <1>6, <2>1 DEF IInv, IdsAreDistinct, Fresh
    <2>2. ASSUME NEW d \in Calls, NEW e \in Calls, Fresh(d)', Caller[d] = Caller[e],
                 call'[d] # Idle, call'[e] # Idle, call'[d].id = call'[e].id
          PROVE  d = e
      BY <1>6, <2>2, SMTT(30) DEF IInv, IdsAreDistinct, Fresh
    <2> QED
      BY <2>1, <2>2 DEF IdsAreDistinct
  <1>8. PacketsMatch'
    <2>1. \A p \in wire' \cup serving : p.of \in Calls
      BY <1>4, SMTT(30) DEF IInv, TypeOK, Packets
    <2>2. \A p \in wire' : p \in wire \/ (p.of = c /\ p.id = call[c].id)
      BY SMTT(30)
    <2>3. ASSUME NEW p \in wire' \cup serving, Fresh(p.of)'
          PROVE  call'[p.of] # Idle /\ call'[p.of].id = p.id
      <3>1. CASE p \in wire \cup serving
        BY <1>6, <2>1, <2>3, <3>1 DEF IInv, PacketsMatch, Fresh
      <3>2. CASE p.of = c /\ p.id = call[c].id
        BY <1>2, <3>2
      <3> QED
        BY <2>2, <3>1, <3>2
    <2> QED
      BY <2>3 DEF PacketsMatch
  <1>9. AnswersMatch'
    BY <1>2, <1>6, SMTT(30) DEF IInv, AnswersMatch, Fresh
  <1> QED
    BY <1>4, <1>5, <1>7, <1>8, <1>9 DEF IInv

\* Serving a request, answering it and losing a message pass the id on
\* (lib.rs:189-214).
LEMMA PassIInv ==
    ASSUME IInv, NEW p \in wire \cup serving, handle_request(p) \/ respond(p) \/ lose(p)
    PROVE  IInv'
  <1>1. /\ UNCHANGED <<next_request_id, pending_requests, call, restarts>>
        /\ lost' \subseteq lost \cup {p.of}
    BY DEF handle_request, respond, lose
  <1>2. p \in Packets
    BY DEF IInv, TypeOK
  <1>3. [p EXCEPT !.type = "response"] \in Packets
    BY <1>2 DEF Packets
  <1>4. /\ [p EXCEPT !.type = "response"].of = p.of
        /\ [p EXCEPT !.type = "response"].id = p.id
    BY <1>2 DEF Packets
  <1>5. wire' \cup serving' \subseteq wire \cup serving \cup {[p EXCEPT !.type = "response"]}
    BY DEF handle_request, respond, lose
  <1>6. TypeOK'
    <2>1. wire' \subseteq Packets /\ serving' \subseteq Packets
      BY <1>3, <1>5 DEF IInv, TypeOK
    <2>2. lost' \subseteq Calls
      BY <1>1, <1>2 DEF IInv, TypeOK, Packets
    <2> QED
      BY <1>1, <2>1, <2>2 DEF IInv, TypeOK
  <1>7. PendingAccounted' /\ IdsAreDistinct' /\ AnswersMatch'
    BY <1>1, SMTT(30) DEF IInv, PendingAccounted, IdsAreDistinct, AnswersMatch, Fresh
  <1>8. PacketsMatch'
    <2>1. ASSUME NEW q \in wire' \cup serving', Fresh(q.of)'
          PROVE  call'[q.of] # Idle /\ call'[q.of].id = q.id
      <3>1. PICK r \in wire \cup serving : r.of = q.of /\ r.id = q.id
        BY <1>4, <1>5
      <3>2. Fresh(r.of)
        BY <1>1, <2>1, <3>1 DEF Fresh
      <3>3. call[r.of] # Idle /\ call[r.of].id = r.id
        BY <3>2 DEF IInv, PacketsMatch
      <3> QED
        BY <1>1, <3>1, <3>3
    <2> QED
      BY <2>1 DEF PacketsMatch
  <1> QED
    BY <1>6, <1>7, <1>8 DEF IInv

\* A response reaches the call it is about, and no other (lib.rs:215-222).
LEMMA ResponseIInv ==
    ASSUME IInv, NEW p \in wire \cup serving, handle_response(p)
    PROVE  IInv'
  <1> DEFINE n == Caller[p.of]
             mine == {c \in Calls : /\ Caller[c] = n /\ p.id \in pending_requests[n]
                                    /\ call[c].at \in {"sending", "waiting"}
                                    /\ call[c].id = p.id}
             got(c) == [at |-> IF call[c].at = "sending" THEN "early" ELSE "answered",
                        id |-> p.id, by |-> p.of]
  <1>1. /\ wire' \subseteq wire
        /\ pending_requests' = [pending_requests EXCEPT ![n] = @ \ {p.id}]
        /\ call' = [c \in Calls |-> IF c \in mine THEN got(c) ELSE call[c]]
        /\ UNCHANGED <<next_request_id, serving, restarts, lost>>
    BY DEF handle_response, remove
  <1>2. p.of \in Calls /\ p.id \in Nat /\ n \in Nodes
    BY RpcAssumption DEF IInv, TypeOK, Packets
  <1>3. TypeOK'
    <2>1. ASSUME NEW c \in Calls
          PROVE  got(c) \in [at : {"early", "answered", "failed", "abandoned"},
                             id : Nat, by : Calls]
      BY <1>2
    <2>2. call' \in [Calls -> {Idle}
               \cup [at : {"sending", "waiting", "failed", "abandoned"}, id : Nat]
               \cup [at : {"early", "answered", "failed", "abandoned"}, id : Nat, by : Calls]]
      <3> HIDE DEF mine, got
      <3> QED
        BY <1>1, <2>1 DEF IInv, TypeOK
    <2>3. pending_requests' \in [Nodes -> SUBSET Nat]
      BY <1>1, <1>2 DEF IInv, TypeOK
    <2>4. wire' \in SUBSET Packets
      BY <1>1 DEF IInv, TypeOK
    <2> QED
      BY <1>1, <2>2, <2>3, <2>4 DEF IInv, TypeOK
  <1>4. /\ \A c \in mine : /\ call'[c].at \in {"early", "answered"} /\ call'[c].id = p.id
                           /\ call'[c].by = p.of /\ call'[c] # Idle
                           /\ c \in Calls /\ Caller[c] = n /\ call[c].id = p.id
                           /\ call[c].at \in {"sending", "waiting"} /\ call[c] # Idle
        /\ \A c \in Calls : c \notin mine => call'[c] = call[c]
    BY <1>1, SMTT(30) DEF Idle
  <1>5. /\ pending_requests'[n] = pending_requests[n] \ {p.id}
        /\ \A m \in Nodes : m # n => pending_requests'[m] = pending_requests[m]
    BY <1>1, <1>2 DEF IInv, TypeOK
  <1>6. \A c \in Calls : /\ Caller[c] = n /\ call[c].id = p.id
                         /\ call[c].at \in {"sending", "waiting"}
                         => c \in mine
    BY DEF IInv, PendingAccounted
  <1> HIDE DEF mine, got
  <1>7. PendingAccounted'
    <2>1. ASSUME NEW c \in Calls, call'[c].at \in {"sending", "waiting"}
          PROVE  call'[c].id \in pending_requests'[Caller[c]]
      <3>1. c \notin mine /\ call'[c] = call[c]
        BY <1>4, <2>1
      <3>2. call[c].id \in pending_requests[Caller[c]] /\ Caller[c] \in Nodes
        BY <2>1, <3>1, RpcAssumption DEF IInv, PendingAccounted
      <3> QED
        BY <1>5, <1>6, <2>1, <3>1, <3>2
    <2>2. ASSUME NEW m \in Nodes, NEW i \in pending_requests'[m]
          PROVE  \E d \in Calls : /\ Caller[d] = m /\ call'[d] # Idle /\ call'[d].id = i
                                  /\ call'[d].at \in {"sending", "waiting", "failed", "abandoned"}
      <3>1. i \in pending_requests[m] /\ (m = n => i # p.id)
        BY <1>5
      <3>2. PICK d \in Calls : /\ Caller[d] = m /\ call[d] # Idle /\ call[d].id = i
                               /\ call[d].at \in {"sending", "waiting", "failed", "abandoned"}
        BY <3>1, SMTT(30) DEF IInv, PendingAccounted
      <3>3. d \notin mine
        BY <1>4, <3>1, <3>2
      <3> QED
        BY <1>4, <3>2, <3>3
    <2> QED
      BY <2>1, <2>2 DEF PendingAccounted
  <1>8. \A d \in Calls : /\ call'[d] # Idle <=> call[d] # Idle
                         /\ call[d] # Idle => call'[d].id = call[d].id
                         /\ Fresh(d)' <=> Fresh(d)
    BY <1>1, <1>4, SMTT(30) DEF Fresh
  <1>9. IdsAreDistinct'
    <2>1. ASSUME NEW d \in Calls, Fresh(d)', call'[d] # Idle
          PROVE  call'[d].id < next_request_id'[Caller[d]]
      BY <1>1, <1>8, <2>1 DEF IInv, IdsAreDistinct
    <2>2. ASSUME NEW d \in Calls, NEW e \in Calls, Fresh(d)', Caller[d] = Caller[e],
                 call'[d] # Idle, call'[e] # Idle, call'[d].id = call'[e].id
          PROVE  d = e
      BY <1>8, <2>2 DEF IInv, IdsAreDistinct
    <2> QED
      BY <2>1, <2>2 DEF IdsAreDistinct
  <1>10. PacketsMatch'
    <2>1. ASSUME NEW q \in wire' \cup serving', Fresh(q.of)'
          PROVE  call'[q.of] # Idle /\ call'[q.of].id = q.id
      <3>1. q \in wire \cup serving /\ q.of \in Calls
        BY <1>1 DEF IInv, TypeOK, Packets
      <3> QED
        BY <1>8, <2>1, <3>1 DEF IInv, PacketsMatch
    <2> QED
      BY <2>1 DEF PacketsMatch
  <1>11. AnswersMatch'
    <2>1. ASSUME NEW c \in Calls, Fresh(c), c \in mine
          PROVE  c = p.of
      <3>1. Fresh(p.of)
        BY <1>4, <2>1 DEF Fresh
      <3>2. call[p.of] # Idle /\ call[p.of].id = p.id
        BY <3>1 DEF IInv, PacketsMatch
      <3> QED
        BY <1>2, <1>4, <2>1, <3>1, <3>2, SMTT(30) DEF IInv, IdsAreDistinct
    <2>2. ASSUME NEW c \in Calls, Fresh(c)', call'[c].at \in {"early", "answered"}
          PROVE  call'[c].by = c
      <3>1. CASE c \in mine
        BY <1>4, <1>8, <2>1, <2>2, <3>1, SMTT(30)
      <3>2. CASE c \notin mine
        BY <1>4, <1>8, <2>2, <3>2, SMTT(30) DEF IInv, AnswersMatch
      <3> QED
        BY <3>1, <3>2
    <2> QED
      BY <2>2 DEF AnswersMatch
  <1> QED
    BY <1>3, <1>7, <1>9, <1>10, <1>11 DEF IInv

\* After a restart the node's calls are over, and it is not fresh any more.
LEMMA RestartIInv ==
    ASSUME IInv, NEW n \in Nodes, restart(n)
    PROVE  IInv'
  <1> DEFINE over(c) == Caller[c] = n /\ call[c].at \in {"sending", "early", "waiting"}
  <1>1. /\ restarts[n] < MaxRestarts
        /\ restarts' = [restarts EXCEPT ![n] = @ + 1]
        /\ next_request_id' = [next_request_id EXCEPT ![n] = 1]
        /\ pending_requests' = [pending_requests EXCEPT ![n] = {}]
        /\ call' = [c \in Calls |-> IF over(c) THEN [call[c] EXCEPT !.at = "abandoned"]
                                   ELSE call[c]]
        /\ wire' \subseteq wire /\ serving' \subseteq serving
        /\ lost' = lost \cup {p.of : p \in (wire \ wire') \cup (serving \ serving')}
    BY DEF restart
  <1>2. ASSUME NEW c \in Calls, over(c)
        PROVE  /\ call'[c].at = "abandoned" /\ call'[c] # Idle
               /\ call'[c] \in [at : {"sending", "waiting", "failed", "abandoned"}, id : Nat]
                     \cup [at : {"early", "answered", "failed", "abandoned"}, id : Nat, by : Calls]
    BY <1>1, <1>2, SetAt, SMTT(30) DEF IInv
  <1>3. \A c \in Calls : ~over(c) => call'[c] = call[c]
    BY <1>1
  <1>4. TypeOK'
    <2>1. restarts[n] \in 0..MaxRestarts /\ restarts[n] + 1 \in 0..MaxRestarts
      BY <1>1, RpcAssumption, SMTT(30) DEF IInv, TypeOK
    <2>2. restarts' \in [Nodes -> 0..MaxRestarts]
      BY <1>1, <2>1 DEF IInv, TypeOK
    <2>3. /\ next_request_id' \in [Nodes -> Nat \ {0}]
          /\ pending_requests' \in [Nodes -> SUBSET Nat]
      BY <1>1, SMTT(30) DEF IInv, TypeOK
    <2>4. ASSUME NEW c \in Calls
          PROVE  call'[c] \in {Idle}
                     \cup [at : {"sending", "waiting", "failed", "abandoned"}, id : Nat]
                     \cup [at : {"early", "answered", "failed", "abandoned"}, id : Nat, by : Calls]
      <3>1. CASE over(c)
        BY <1>2, <3>1
      <3>2. CASE ~over(c)
        BY <1>3, <3>2 DEF IInv, TypeOK
      <3> QED
        BY <3>1, <3>2
    <2>5. call' \in [Calls -> {Idle}
               \cup [at : {"sending", "waiting", "failed", "abandoned"}, id : Nat]
               \cup [at : {"early", "answered", "failed", "abandoned"}, id : Nat, by : Calls]]
      <3>1. call' = [c \in Calls |-> call'[c]]
        BY <1>1
      <3> QED
        BY <2>4, <3>1
    <2>6. lost' \subseteq Calls
      <3>1. \A p \in wire \cup serving : p.of \in Calls
        BY DEF IInv, TypeOK, Packets
      <3> QED
        BY <1>1, <3>1, SMTT(30) DEF IInv, TypeOK
    <2>7. wire' \in SUBSET Packets /\ serving' \in SUBSET Packets
      BY <1>1 DEF IInv, TypeOK
    <2> QED
      BY <2>2, <2>3, <2>5, <2>6, <2>7 DEF TypeOK
  <1>5. /\ pending_requests'[n] = {}
        /\ \A m \in Nodes : m # n => /\ pending_requests'[m] = pending_requests[m]
                                     /\ next_request_id'[m] = next_request_id[m]
                                     /\ restarts'[m] = restarts[m]
        /\ restarts'[n] # 0
    BY <1>1, RpcAssumption, SMTT(30) DEF IInv, TypeOK
  <1>6. \A c \in Calls : Caller[c] # n => call'[c] = call[c]
    BY <1>3
  <1>7. \A c \in Calls : Fresh(c)' => Fresh(c) /\ Caller[c] # n /\ call'[c] = call[c]
    BY <1>5, <1>6, RpcAssumption DEF Fresh
  <1>8. PendingAccounted'
    <2>1. ASSUME NEW c \in Calls, call'[c].at \in {"sending", "waiting"}
          PROVE  call'[c].id \in pending_requests'[Caller[c]]
      <3>1. ~over(c) /\ call'[c] = call[c]
        BY <1>2, <1>3, <2>1
      <3>2. Caller[c] # n /\ Caller[c] \in Nodes
        BY <2>1, <3>1, RpcAssumption
      <3> QED
        BY <1>5, <2>1, <3>1, <3>2 DEF IInv, PendingAccounted
    <2>2. ASSUME NEW m \in Nodes, NEW i \in pending_requests'[m]
          PROVE  \E d \in Calls : /\ Caller[d] = m /\ call'[d] # Idle /\ call'[d].id = i
                                  /\ call'[d].at \in {"sending", "waiting", "failed", "abandoned"}
      <3>1. m # n /\ i \in pending_requests[m]
        BY <1>5, <2>2
      <3> QED
        BY <1>6, <3>1, SMTT(30) DEF IInv, PendingAccounted
    <2> QED
      BY <2>1, <2>2 DEF PendingAccounted
  <1> HIDE DEF over
  <1>9. IdsAreDistinct'
    <2>1. ASSUME NEW d \in Calls, Fresh(d)', call'[d] # Idle
          PROVE  call'[d].id < next_request_id'[Caller[d]]
      BY <1>5, <1>7, <2>1, RpcAssumption DEF IInv, IdsAreDistinct
    <2>2. ASSUME NEW d \in Calls, NEW e \in Calls, Fresh(d)', Caller[d] = Caller[e],
                 call'[d] # Idle, call'[e] # Idle, call'[d].id = call'[e].id
          PROVE  d = e
      BY <1>6, <1>7, <2>2 DEF IInv, IdsAreDistinct
    <2> QED
      BY <2>1, <2>2 DEF IdsAreDistinct
  <1>10. PacketsMatch'
    <2>1. ASSUME NEW q \in wire' \cup serving', Fresh(q.of)'
          PROVE  call'[q.of] # Idle /\ call'[q.of].id = q.id
      <3>1. q \in wire \cup serving /\ q.of \in Calls
        BY <1>1 DEF IInv, TypeOK, Packets
      <3> QED
        BY <1>7, <2>1, <3>1 DEF IInv, PacketsMatch
    <2> QED
      BY <2>1 DEF PacketsMatch
  <1>11. AnswersMatch'
    BY <1>7 DEF IInv, AnswersMatch
  <1> QED
    BY <1>4, <1>8, <1>9, <1>10, <1>11 DEF IInv

\* The inductive invariant, and with it the types of the services, holds in
\* every behaviour of the calls, messages and restarts.
THEOREM Invariance == Spec => []IInv
  <1>1. IInv /\ [Next]_vars => IInv'
    <2> SUFFICES ASSUME IInv, [Next]_vars PROVE IInv'
      OBVIOUS
    <2>1. ASSUME NEW c \in Calls, create_request(c) PROVE IInv'
      BY <2>1, CreateIInv
    <2>2. ASSUME NEW c \in Calls, send_message(c) PROVE IInv'
      <3>1. CASE call' = [call EXCEPT ![c].at = "failed"] /\ UNCHANGED wire
        BY <2>2, <3>1, MoveIInv DEF send_message
      <3>2. CASE /\ call' = [call EXCEPT ![c].at = IF @ = "sending" THEN "waiting" ELSE "answered"]
                 /\ wire' = wire \cup {[type |-> "request", id |-> call[c].id, of |-> c]}
        <4>1. CASE call[c].at = "sending"
          <5>1. call' = [call EXCEPT ![c].at = "waiting"]
            BY <3>2, <4>1
          <5> QED
            BY <2>2, <3>2, <4>1, <5>1, MoveIInv DEF send_message
        <4>2. CASE call[c].at = "early"
          <5>1. call' = [call EXCEPT ![c].at = "answered"]
            BY <3>2, <4>2
          <5> QED
            BY <2>2, <3>2, <4>2, <5>1, MoveIInv DEF send_message
        <4> QED
          BY <2>2, <4>1, <4>2 DEF send_message
      <3> QED
        BY <2>2, <3>1, <3>2 DEF send_message
    <2>3. ASSUME NEW c \in Calls, abandon(c) PROVE IInv'
      BY <2>3, MoveIInv DEF abandon
    <2>4. ASSUME NEW p \in wire \cup serving, PacketStep(p) \/ lose(p) PROVE IInv'
      BY <2>4, PassIInv, ResponseIInv DEF PacketStep
    <2>5. ASSUME NEW n \in Nodes, restart(n) PROVE IInv'
      BY <2>5, RestartIInv
    <2>6. CASE UNCHANGED vars
      BY <2>6, SMTT(30) DEF vars, IInv, TypeOK, PendingAccounted, IdsAreDistinct, PacketsMatch,
                  AnswersMatch, Fresh
    <2> QED
      BY <2>1, <2>2, <2>3, <2>4, <2>5, <2>6 DEF Next, CallStep
  <1> QED
    BY <1>1, InitIInv, PTL DEF Spec

\* No call of a node that has not restarted returns another call's answer,
\* whatever the number of calls and the order of the answers (lib.rs:219-221).
THEOREM AnswersAreOwn == Spec => []AnswerIsOwn
  <1>1. IInv => AnswerIsOwn
    BY DEF IInv, AnswersMatch, AnswerIsOwn, Fresh
  <1> QED
    BY <1>1, Invariance, PTL

\* The only entries of pending_requests that leak are those of calls that
\* failed to send or were given up (lib.rs:150-151).
THEOREM PendingIsAccounted == Spec => []PendingAccounted
  <1>1. IInv => PendingAccounted
    BY DEF IInv
  <1> QED
    BY <1>1, Invariance, PTL
-----------------------------------------------------------------------------
(* Chat *)

\* What the channel carries: a peer and the number of its message.
ChatMessages == Nodes \X Nat

\* The reader's place, what it printed and what is in the channel.
ChatTypeOK ==
    /\ sent \in [Nodes -> Nat]
    /\ log \in Seq(ChatMessages)
    /\ printed \in Seq(ChatMessages)
    /\ chat_rx \in [at : {"none", "reading", "ended"}, from : Nat, pos : Nat]

\* The reader has printed all there is between where it began and where it is,
\* and a reader that has ended was more than the channel's capacity behind.
ReaderIsAt ==
    /\ chat_rx.pos = chat_rx.from + Len(printed)
    /\ chat_rx.pos <= Len(log)
    /\ chat_rx.at = "none" => printed = <<>>
    /\ \A i \in 1..Len(printed) : printed[i] = log[chat_rx.from + i]
    /\ chat_rx.at = "ended" => Len(log) > chat_rx.pos + Capacity

\* The channel has each peer's messages in the order they were handled.
LogIsOrdered ==
    /\ \A i \in 1..Len(log) : log[i][2] <= sent[log[i][1]]
    /\ \A i, j \in 1..Len(log) : i < j /\ log[i][1] = log[j][1] => log[i][2] < log[j][2]

ChatIInv == ChatTypeOK /\ ReaderIsAt /\ LogIsOrdered

\* Nothing is sent and nobody reads at first.
LEMMA ChatInit == Chat!Init => ChatIInv
  BY SMTT(30) DEF Chat!Init, ChatIInv, ChatTypeOK, ReaderIsAt, LogIsOrdered

\* handle_message puts a message behind all others of its peer, or nowhere.
LEMMA ChatHandled ==
    ASSUME ChatIInv, NEW p \in Nodes, Chat!handle_message(p)
    PROVE  ChatIInv'
  <1> DEFINE m == <<p, sent[p] + 1>>
  <1> USE DEF ChatIInv
  <1>1. /\ sent' = [sent EXCEPT ![p] = @ + 1]
        /\ sent'[p] = sent[p] + 1 /\ sent[p] \in Nat
        /\ UNCHANGED <<chat_rx, printed>>
        /\ log' = IF chat_rx.at = "reading" THEN Append(log, m) ELSE log
    BY DEF Chat!handle_message, ChatTypeOK
  <1>2. /\ m \in ChatMessages /\ m[1] = p /\ m[2] = sent[p] + 1
        /\ log \in Seq(ChatMessages) /\ Len(log) \in Nat
    BY <1>1, SMTT(30) DEF ChatTypeOK, ChatMessages
  <1>3. /\ chat_rx.from \in Nat /\ chat_rx.pos \in Nat
        /\ printed \in Seq(ChatMessages) /\ Len(printed) \in Nat
    BY SMTT(30) DEF ChatTypeOK
  <1>4. \A q \in Nodes : sent'[q] \in Nat /\ sent[q] <= sent'[q]
    BY <1>1, SMTT(30) DEF ChatTypeOK
  <1>5. \A i \in 1..Len(log) : log[i][1] \in Nodes /\ log[i][2] \in Nat /\ sent[log[i][1]] \in Nat
    <2> SUFFICES ASSUME NEW i \in 1..Len(log)
                 PROVE  log[i][1] \in Nodes /\ log[i][2] \in Nat /\ sent[log[i][1]] \in Nat
      OBVIOUS
    <2>1. log[i] \in ChatMessages
      BY <1>2, SMTT(30)
    <2> QED
      BY <2>1 DEF ChatTypeOK, ChatMessages
  <1> HIDE DEF m
  <1>6. CASE log' = log
    <2>1. ChatTypeOK'
      BY <1>1, <1>6, SMTT(30) DEF ChatTypeOK
    <2>2. ReaderIsAt'
      BY <1>1, <1>6 DEF ReaderIsAt
    <2>3. LogIsOrdered'
      BY <1>4, <1>5, <1>6, SMTT(30) DEF LogIsOrdered
    <2> QED
      BY <2>1, <2>2, <2>3
  <1>7. CASE log' = Append(log, m) /\ chat_rx.at = "reading"
    <2>1. /\ log' \in Seq(ChatMessages)
          /\ Len(log') = Len(log) + 1
          /\ \A i \in 1..Len(log) : log'[i] = log[i]
          /\ log'[Len(log) + 1] = m
      BY <1>2, <1>7, SMTT(30)
    <2>2. ChatTypeOK'
      BY <1>1, <2>1, SMTT(30) DEF ChatTypeOK
    <2>3. ReaderIsAt'
      <3>1. \A i \in 1..Len(printed) : chat_rx.from + i \in 1..Len(log)
        BY <1>2, <1>3, SMTT(30) DEF ReaderIsAt
      <3> QED
        BY <1>1, <1>2, <1>3, <1>7, <2>1, <3>1, SMTT(30) DEF ReaderIsAt
    <2>4. ASSUME NEW i \in 1..Len(log') PROVE log'[i][2] <= sent'[log'[i][1]]
      <3>1. CASE i \in 1..Len(log)
        BY <1>4, <1>5, <2>1, <3>1, SMTT(30) DEF LogIsOrdered
      <3>2. CASE i = Len(log) + 1
        BY <1>1, <1>2, <2>1, <3>2, SMTT(30)
      <3> QED
        BY <1>2, <2>1, <3>1, <3>2, SMTT(30)
    <2>5. ASSUME NEW i \in 1..Len(log'), NEW j \in 1..Len(log'), i < j, log'[i][1] = log'[j][1]
          PROVE  log'[i][2] < log'[j][2]
      <3>1. i \in 1..Len(log)
        BY <1>2, <2>1, <2>5, SMTT(30)
      <3>2. CASE j \in 1..Len(log)
        BY <2>1, <2>5, <3>1, <3>2 DEF LogIsOrdered
      <3>3. CASE j = Len(log) + 1
        <4>1. log[i][1] = p /\ log[i][2] <= sent[p]
          BY <1>2, <2>1, <2>5, <3>1, <3>3 DEF LogIsOrdered
        <4> QED
          BY <1>1, <1>2, <1>5, <2>1, <3>1, <3>3, <4>1, SMTT(30)
      <3> QED
        BY <1>2, <2>1, <3>2, <3>3, SMTT(30)
    <2>6. LogIsOrdered'
      BY <2>4, <2>5 DEF LogIsOrdered
    <2> QED
      BY <2>2, <2>3, <2>6
  <1> QED
    BY <1>1, <1>6, <1>7

\* recv prints the next message, or ends because the reader has been lapped.
LEMMA ChatReceived ==
    ASSUME ChatIInv, Chat!recv
    PROVE  ChatIInv'
  <1> USE DEF ChatIInv
  <1>1. /\ chat_rx \in [at : {"none", "reading", "ended"}, from : Nat, pos : Nat]
        /\ printed \in Seq(ChatMessages) /\ Len(printed) \in Nat
        /\ log \in Seq(ChatMessages) /\ Len(log) \in Nat
        /\ UNCHANGED <<sent, log>>
    BY SMTT(30) DEF ChatTypeOK, Chat!recv
  <1>2. LogIsOrdered'
    BY <1>1 DEF LogIsOrdered
  <1>3. CASE Chat!Missed > 0
    <2>1. chat_rx' = [chat_rx EXCEPT !.at = "ended"] /\ UNCHANGED printed
      BY <1>3 DEF Chat!recv
    <2>2. /\ chat_rx' \in [at : {"none", "reading", "ended"}, from : Nat, pos : Nat]
          /\ chat_rx'.from = chat_rx.from /\ chat_rx'.pos = chat_rx.pos
          /\ chat_rx'.at = "ended"
      BY <1>1, <2>1
    <2>3. Len(log) > chat_rx.pos + Capacity
      BY <1>1, <1>3, ServicesAssumption, SMTT(30) DEF Chat!Missed
    <2>4. ChatTypeOK'
      BY <1>1, <2>1, <2>2 DEF ChatTypeOK
    <2>5. ReaderIsAt'
      BY <1>1, <2>1, <2>2, <2>3 DEF ReaderIsAt
    <2> QED
      BY <1>2, <2>4, <2>5
  <1>4. CASE ~(Chat!Missed > 0)
    <2> DEFINE m == log[chat_rx.pos + 1]
    <2>1. /\ chat_rx' = [chat_rx EXCEPT !.pos = @ + 1] /\ printed' = Append(printed, m)
          /\ chat_rx.at = "reading" /\ chat_rx.pos < Len(log)
      BY <1>4 DEF Chat!recv
    <2>2. /\ chat_rx' \in [at : {"none", "reading", "ended"}, from : Nat, pos : Nat]
          /\ chat_rx'.from = chat_rx.from /\ chat_rx'.pos = chat_rx.pos + 1
          /\ chat_rx'.at = "reading"
      <3>1. chat_rx.pos + 1 \in Nat
        BY <1>1, SMTT(30)
      <3> DEFINE n == chat_rx.pos + 1
      <3>2. chat_rx' = [chat_rx EXCEPT !.pos = n]
        BY <2>1
      <3> HIDE DEF n
      <3>3. /\ chat_rx' \in [at : {"none", "reading", "ended"}, from : Nat, pos : Nat]
            /\ chat_rx'.from = chat_rx.from /\ chat_rx'.pos = n
            /\ chat_rx'.at = "reading"
        BY <1>1, <2>1, <3>1, <3>2 DEF n
      <3> QED
        BY <3>3 DEF n
    <2>3. m \in ChatMessages
      BY <1>1, <2>1, SMTT(30)
    <2> HIDE DEF m
    <2>4. /\ printed' \in Seq(ChatMessages)
          /\ Len(printed') = Len(printed) + 1
          /\ \A i \in 1..Len(printed) : printed'[i] = printed[i]
          /\ printed'[Len(printed) + 1] = m
      BY <1>1, <2>1, <2>3, SMTT(30)
    <2>5. ChatTypeOK'
      BY <1>1, <2>2, <2>4 DEF ChatTypeOK
    <2>6. chat_rx.pos = chat_rx.from + Len(printed)
      BY DEF ReaderIsAt
    <2>7. ASSUME NEW i \in 1..Len(printed') PROVE printed'[i] = log'[chat_rx'.from + i]
      <3>1. CASE i \in 1..Len(printed)
        BY <1>1, <2>2, <2>4, <3>1 DEF ReaderIsAt
      <3>2. CASE i = Len(printed) + 1
        BY <1>1, <2>2, <2>4, <2>6, <3>2, SMTT(30) DEF m
      <3> QED
        BY <1>1, <2>4, <3>1, <3>2, SMTT(30)
    <2>8. ReaderIsAt'
      BY <1>1, <2>1, <2>2, <2>4, <2>6, <2>7, SMTT(30) DEF ReaderIsAt
    <2> QED
      BY <1>2, <2>5, <2>8
  <1> QED
    BY <1>3, <1>4

\* Every step keeps the reader's place right.
LEMMA ChatInvariance == Chat!Spec => []ChatIInv
  <1>1. ChatIInv /\ [Chat!Next]_Chat!vars => ChatIInv'
    <2> SUFFICES ASSUME ChatIInv, [Chat!Next]_Chat!vars PROVE ChatIInv'
      OBVIOUS
    <2>1. CASE Chat!subscribe
      <3>1. /\ chat_rx' = [at |-> "reading", from |-> Len(log), pos |-> Len(log)]
            /\ UNCHANGED <<sent, log, printed>> /\ chat_rx.at = "none"
        BY <2>1 DEF Chat!subscribe
      <3>2. Len(log) \in Nat /\ printed = <<>>
        BY <3>1, SMTT(30) DEF ChatIInv, ChatTypeOK, ReaderIsAt
      <3>3. ChatTypeOK' /\ LogIsOrdered'
        BY <3>1, <3>2 DEF ChatIInv, ChatTypeOK, LogIsOrdered
      <3>4. chat_rx'.from = Len(log) /\ chat_rx'.pos = Len(log) /\ chat_rx'.at = "reading"
        BY <3>1
      <3>5. Len(printed') = 0
        BY <3>1, <3>2
      <3>6. ReaderIsAt'
        BY <3>1, <3>2, <3>4, <3>5, SMTT(30) DEF ReaderIsAt
      <3> QED
        BY <3>3, <3>6 DEF ChatIInv
    <2>2. CASE UNCHANGED Chat!vars
      BY <2>2 DEF Chat!vars, ChatIInv, ChatTypeOK, ReaderIsAt, LogIsOrdered
    <2> QED
      BY <2>1, <2>2, ChatHandled, ChatReceived DEF Chat!Next
  <1> QED
    BY <1>1, ChatInit, PTL DEF Chat!Spec

\* Two printouts are the same when their lines are.
LEMMA SameSequence ==
    ASSUME NEW S, NEW s \in Seq(S), NEW t \in Seq(S),
           Len(s) = Len(t), \A i \in 1..Len(s) : s[i] = t[i]
    PROVE  s = t
  BY SMTT(30)

\* A part of a sequence, by its elements.
LEMMA Window ==
    ASSUME NEW S, NEW s \in Seq(S), NEW a \in Nat, NEW k \in Nat, a + k <= Len(s)
    PROVE  /\ SubSeq(s, a + 1, a + k) \in Seq(S)
           /\ Len(SubSeq(s, a + 1, a + k)) = k
           /\ \A i \in 1..k : SubSeq(s, a + 1, a + k)[i] = s[a + i]
  BY SMTT(30)

\* For any peers, capacity and interleaving of their session loops with the
\* reader, the node prints every message handled since it subscribed, each
\* peer's in order, until it is more than the channel's capacity behind
\* (lib.rs:58-64, 92-98, main.rs:222-226).
THEOREM PrintoutIsGaplessHolds == Chat!Spec => []PrintoutIsGapless
  <1>1. ChatIInv => PrintoutIsGapless
    <2> SUFFICES ASSUME ChatIInv PROVE PrintoutIsGapless
      OBVIOUS
    <2> DEFINE from == chat_rx.from
               part == SubSeq(log, from + 1, from + Len(printed))
    <2>1. /\ from \in Nat /\ Len(printed) \in Nat /\ Len(log) \in Nat
          /\ printed \in Seq(ChatMessages) /\ log \in Seq(ChatMessages)
          /\ from + Len(printed) <= Len(log)
      BY SMTT(30) DEF ChatIInv, ChatTypeOK, ReaderIsAt
    <2>2. /\ part \in Seq(ChatMessages)
          /\ Len(part) = Len(printed)
          /\ \A i \in 1..Len(printed) : part[i] = log[from + i]
      <3> HIDE DEF from
      <3> QED
        BY <2>1, Window, SMTT(30)
    <2>3. \A i \in 1..Len(printed) : printed[i] = log[from + i] /\ from + i \in 1..Len(log)
      BY <2>1, SMTT(30) DEF ChatIInv, ReaderIsAt
    <2> HIDE DEF from, part
    <2>4. printed = part
      BY <2>1, <2>2, <2>3, SameSequence
    <2>5. ASSUME NEW i \in 1..Len(printed), NEW j \in 1..Len(printed),
                 i < j, printed[i][1] = printed[j][1]
          PROVE  printed[i][2] < printed[j][2]
      <3>1. from + i < from + j
        BY <2>1, <2>5, SMTT(30)
      <3> QED
        BY <2>3, <2>5, <3>1 DEF ChatIInv, LogIsOrdered
    <2>6. chat_rx.at = "ended" => Len(log) - (from + Len(printed)) > Capacity
      BY <2>1, ServicesAssumption, SMTT(30) DEF ChatIInv, ReaderIsAt, from
    <2> QED
      BY <2>4, <2>5, <2>6 DEF from, part, PrintoutIsGapless, Chat!PrintoutIsGapless
  <1> QED
    BY <1>1, ChatInvariance, PTL

-----------------------------------------------------------------------------
(* PubSub *)

\* What a subscriber's channel carries: a peer and the number of its message.
Publications == Nodes \X Nat

PubSubTypeOK ==
    /\ subscriptions \in [Topics -> Seq(Subscribers)]
    /\ published \in [Nodes -> Seq(Topics)]
    /\ walk \in [Nodes -> Nat]
    /\ given \in [Subscribers -> Seq(Publications)]
    /\ \A s \in Subscribers : since[s] # <<>> => since[s] \in [Nodes -> Nat]
    /\ DOMAIN since = Subscribers
    /\ dropped \subseteq Subscribers

\* Subscriber s is the i-th sender of its topic.
IsSender(s, i) ==
    i \in 1..Len(subscriptions[Topic[s]]) /\ subscriptions[Topic[s]][i] = s

\* The senders of a topic are its subscribers, each of them once; a channel is
\* empty before it is subscribed.
SendersMatch ==
    /\ \A t \in Topics : \A i \in 1..Len(subscriptions[t]) : Topic[subscriptions[t][i]] = t
    /\ \A s \in Subscribers :
           /\ since[s] # <<>> <=> \E i \in Nat : IsSender(s, i)
           /\ \A i, j \in Nat : IsSender(s, i) /\ IsSender(s, j) => i = j
           /\ since[s] = <<>> => given[s] = <<>>

\* A walk is at a sender of its topic, all of whose subscribers were there when
\* its message came.
WalksAreGuarded ==
    /\ \A p \in Nodes : walk[p] > 0 =>
           /\ published[p] # <<>>
           /\ walk[p] <= Len(subscriptions[PubSub!topic(p)])
    /\ \A p \in Nodes, s \in Subscribers : since[s] # <<>> =>
           /\ since[s][p] <= Len(published[p])
           /\ walk[p] > 0 /\ PubSub!topic(p) = Topic[s] => since[s][p] < Len(published[p])

\* The parts of SubscribersMissNothing, for one message and for one subscriber.
WasGiven(s, p, n) == \E i \in 1..Len(given[s]) : given[s][i][1] = p /\ given[s][i][2] = n

IsDue(s, p, n) ==
    /\ n \in 1..Len(published[p]) /\ n > since[s][p] /\ published[p][n] = Topic[s]
    /\ PubSub!Waiting(s, p) => n < Len(published[p])

Ordered(s) ==
    \A i, j \in 1..Len(given[s]) :
        i < j /\ given[s][i][1] = given[s][j][1] => given[s][i][2] < given[s][j][2]

Served(s) == Ordered(s) /\ \A p \in Nodes, n \in Nat : WasGiven(s, p, n) <=> IsDue(s, p, n)

AllServed == \A s \in Subscribers : s \notin dropped /\ since[s] # <<>> => Served(s)

PubSubIInv == PubSubTypeOK /\ SendersMatch /\ WalksAreGuarded /\ AllServed

\* Messages by number.
LEMMA GivenByNumber ==
    ASSUME NEW s, NEW p, NEW n
    PROVE  n \in PubSub!Given(s, p) <=> WasGiven(s, p, n)
  BY DEF PubSub!Given, WasGiven

\* What is due, by number.
LEMMA DueByNumber ==
    ASSUME NEW s, NEW p, NEW n
    PROVE  n \in PubSub!Due(s, p) <=> IsDue(s, p, n)
  BY DEF PubSub!Due, IsDue

\* The lengths of what has been published and given, and the numbers given.
LEMMA PubSubFacts ==
    ASSUME PubSubTypeOK
    PROVE  /\ \A p \in Nodes : published[p] \in Seq(Topics) /\ Len(published[p]) \in Nat
           /\ \A t \in Topics : subscriptions[t] \in Seq(Subscribers)
                                /\ Len(subscriptions[t]) \in Nat
           /\ \A s \in Subscribers : given[s] \in Seq(Publications) /\ Len(given[s]) \in Nat
           /\ \A s \in Subscribers : Topic[s] \in Topics
           /\ \A s \in Subscribers : \A p, n : WasGiven(s, p, n) => n \in Nat
           /\ \A s \in Subscribers, p \in Nodes : \A n : IsDue(s, p, n) => n \in Nat
  <1>1. \A s \in Subscribers : given[s] \in Seq(Publications) /\ Len(given[s]) \in Nat
    BY SMTT(30) DEF PubSubTypeOK
  <1>2. \A p \in Nodes : published[p] \in Seq(Topics) /\ Len(published[p]) \in Nat
    BY SMTT(30) DEF PubSubTypeOK
  <1>3. ASSUME NEW s \in Subscribers, NEW p, NEW n, WasGiven(s, p, n) PROVE n \in Nat
    <2>1. PICK i \in 1..Len(given[s]) : given[s][i][2] = n
      BY <1>3 DEF WasGiven
    <2>2. given[s][i] \in Publications
      BY <1>1, SMTT(30)
    <2> QED
      BY <2>1, <2>2 DEF Publications
  <1>4. ASSUME NEW s \in Subscribers, NEW p \in Nodes, NEW n, IsDue(s, p, n) PROVE n \in Nat
    BY <1>2, <1>4, SMTT(30) DEF IsDue
  <1> QED
    BY <1>1, <1>2, <1>3, <1>4, ServicesAssumption, SMTT(30) DEF PubSubTypeOK

\* SubscribersMissNothing says that everyone is served.
LEMMA MissNothingIsServed ==
    ASSUME PubSubTypeOK
    PROVE  SubscribersMissNothing <=> AllServed
  <1>1. ASSUME NEW s \in Subscribers, NEW p \in Nodes
        PROVE  PubSub!Given(s, p) = PubSub!Due(s, p)
                   <=> \A n \in Nat : WasGiven(s, p, n) <=> IsDue(s, p, n)
    <2>1. PubSub!Given(s, p) = PubSub!Due(s, p)
              <=> \A n : n \in PubSub!Given(s, p) <=> n \in PubSub!Due(s, p)
      OBVIOUS
    <2> QED
      BY <2>1, GivenByNumber, DueByNumber, PubSubFacts
  <1> QED
    BY <1>1 DEF SubscribersMissNothing, PubSub!SubscribersMissNothing, AllServed, Served, Ordered

\* A walk is over a message that has a known topic.
LEMMA WalkFacts ==
    ASSUME PubSubTypeOK, WalksAreGuarded, NEW p \in Nodes, walk[p] > 0
    PROVE  /\ walk[p] \in Nat \ {0}
           /\ Len(published[p]) \in Nat \ {0}
           /\ PubSub!topic(p) \in Topics
           /\ walk[p] \in 1..Len(subscriptions[PubSub!topic(p)])
  <1>1. /\ published[p] \in Seq(Topics) /\ published[p] # <<>> /\ walk[p] \in Nat
        /\ walk[p] <= Len(subscriptions[PubSub!topic(p)])
    BY DEF PubSubTypeOK, WalksAreGuarded
  <1>2. Len(published[p]) \in Nat \ {0}
    BY <1>1, SMTT(30)
  <1>3. PubSub!topic(p) \in Topics
    BY <1>1, <1>2, SMTT(30) DEF PubSub!topic
  <1>4. Len(subscriptions[PubSub!topic(p)]) \in Nat
    BY <1>3, PubSubFacts
  <1> QED
    BY <1>1, <1>2, <1>3, <1>4, SMTT(30)

\* Nobody has subscribed or published at first.
LEMMA PubSubInit == PubSub!Init => PubSubIInv
  <1> SUFFICES ASSUME PubSub!Init PROVE PubSubIInv
    OBVIOUS
  <1>1. PubSubTypeOK
    BY SMTT(30) DEF PubSub!Init, PubSubTypeOK
  <1>2. \A s \in Subscribers : subscriptions[Topic[s]] = <<>>
    BY ServicesAssumption DEF PubSub!Init
  <1>3. SendersMatch
    BY <1>2, SMTT(30) DEF PubSub!Init, SendersMatch, IsSender
  <1> QED
    BY <1>1, <1>3, SMTT(30) DEF PubSub!Init, PubSubIInv, WalksAreGuarded, AllServed

\* A walk that has yet to come to a subscriber is not past its sender.
LEMMA WaitingSender ==
    ASSUME PubSubTypeOK, NEW s \in Subscribers, NEW p \in Nodes
    PROVE  PubSub!Waiting(s, p) <=>
               /\ walk[p] > 0 /\ PubSub!topic(p) = Topic[s]
               /\ \E i \in Nat : IsSender(s, i) /\ walk[p] <= i
  <1>1. walk[p] \in Nat /\ Len(subscriptions[Topic[s]]) \in Nat
    BY PubSubFacts DEF PubSubTypeOK
  <1> QED
    BY <1>1, SMTT(30) DEF PubSub!Waiting, IsSender

\* A new subscriber comes behind all others, while no walk is over its topic.
LEMMA PubSubSubscribed ==
    ASSUME PubSubIInv, NEW u \in Subscribers, PubSub!subscribe(u)
    PROVE  PubSubIInv'
  <1> USE DEF PubSubIInv
  <1> DEFINE t == Topic[u]
  <1>1. /\ t \in Topics /\ since[u] = <<>>
        /\ \A p \in Nodes : walk[p] > 0 => PubSub!topic(p) # t
        /\ subscriptions' = [subscriptions EXCEPT ![t] = Append(@, u)]
        /\ since' = [since EXCEPT ![u] = [p \in Nodes |-> Len(published[p])]]
        /\ UNCHANGED <<published, walk, given, dropped>>
    BY ServicesAssumption DEF PubSub!subscribe, PubSub!entry
  <1>2. /\ DOMAIN since' = Subscribers
        /\ since'[u] = [p \in Nodes |-> Len(published[p])]
        /\ \A s \in Subscribers \ {u} : since'[s] = since[s]
    BY <1>1 DEF PubSubTypeOK
  <1>3. since'[u] # <<>> /\ since'[u] \in [Nodes -> Nat]
    <2>1. since'[u] \in [Nodes -> Nat]
      BY <1>2, PubSubFacts
    <2>2. DOMAIN since'[u] # {}
      BY <1>2, ServicesAssumption
    <2>3. DOMAIN << >> = {}
      BY SMTT(30)
    <2> QED
      BY <2>1, <2>2, <2>3
  <1>4. /\ subscriptions[t] \in Seq(Subscribers) /\ Len(subscriptions[t]) \in Nat
        /\ Len(subscriptions'[t]) = Len(subscriptions[t]) + 1
        /\ \A i \in 1..Len(subscriptions[t]) : subscriptions'[t][i] = subscriptions[t][i]
        /\ subscriptions'[t][Len(subscriptions[t]) + 1] = u
        /\ subscriptions'[t] \in Seq(Subscribers)
        /\ \A x \in Topics \ {t} : subscriptions'[x] = subscriptions[x]
    BY <1>1, PubSubFacts, SMTT(30) DEF PubSubTypeOK
  <1>5. PubSubTypeOK'
    <2>1. subscriptions' \in [Topics -> Seq(Subscribers)]
      BY <1>1, <1>4 DEF PubSubTypeOK
    <2> QED
      BY <1>1, <1>2, <1>3, <2>1 DEF PubSubTypeOK
  <1>6. \A s \in Subscribers : Topic[s] \in Topics
    BY ServicesAssumption
  <1>7. ASSUME NEW i \in Nat PROVE IsSender(u, i)' <=> i = Len(subscriptions[t]) + 1
    <2>1. i \in 1..Len(subscriptions[t]) => subscriptions[t][i] # u
      BY <1>1 DEF SendersMatch, IsSender
    <2> QED
      BY <1>4, <2>1, SMTT(30) DEF IsSender
  <1>8. ASSUME NEW s \in Subscribers \ {u}, NEW i \in Nat PROVE IsSender(s, i)' <=> IsSender(s, i)
    <2>1. CASE Topic[s] = t
      BY <1>4, <2>1, SMTT(30) DEF IsSender
    <2>2. CASE Topic[s] # t
      BY <1>4, <1>6, <2>2 DEF IsSender
    <2> QED
      BY <2>1, <2>2
  <1>9. SendersMatch'
    <2>1. ASSUME NEW x \in Topics, NEW i \in 1..Len(subscriptions'[x])
          PROVE  Topic[subscriptions'[x][i]] = x
      <3>1. CASE x # t
        BY <1>4, <3>1, SMTT(30) DEF SendersMatch
      <3>2. CASE x = t /\ i \in 1..Len(subscriptions[t])
        BY <1>4, <3>2, SMTT(30) DEF SendersMatch
      <3>3. CASE x = t /\ i = Len(subscriptions[t]) + 1
        BY <1>4, <3>3
      <3> QED
        BY <1>4, <3>1, <3>2, <3>3, SMTT(30)
    <2>2. ASSUME NEW s \in Subscribers
          PROVE  /\ since'[s] # <<>> <=> \E i \in Nat : IsSender(s, i)'
                 /\ \A i, j \in Nat : IsSender(s, i)' /\ IsSender(s, j)' => i = j
                 /\ since'[s] = <<>> => given'[s] = <<>>
      <3>1. CASE s = u
        <4>1. Len(subscriptions[t]) + 1 \in Nat
          BY <1>4, SMTT(30)
        <4> QED
          BY <1>3, <1>7, <3>1, <4>1
      <3>2. CASE s # u
        BY <1>1, <1>2, <1>8, <3>2 DEF SendersMatch
      <3> QED
        BY <3>1, <3>2
    <2> QED
      BY <2>1, <2>2 DEF SendersMatch
  <1>10. \A p \in Nodes : PubSub!topic(p)' = PubSub!topic(p)
    BY <1>1 DEF PubSub!topic
  <1>11. WalksAreGuarded'
    <2>1. ASSUME NEW p \in Nodes, walk'[p] > 0
          PROVE  published'[p] # <<>> /\ walk'[p] <= Len(subscriptions'[PubSub!topic(p)'])
      BY <1>1, <1>4, <1>10, <2>1, WalkFacts, SMTT(30) DEF WalksAreGuarded
    <2>2. ASSUME NEW p \in Nodes, NEW s \in Subscribers, since'[s] # <<>>
          PROVE  /\ since'[s][p] <= Len(published'[p])
                 /\ walk'[p] > 0 /\ PubSub!topic(p)' = Topic[s] => since'[s][p] < Len(published'[p])
      <3>1. CASE s = u
        BY <1>1, <1>2, <1>10, <3>1, PubSubFacts, SMTT(30)
      <3>2. CASE s # u
        BY <1>1, <1>2, <1>10, <2>2, <3>2 DEF WalksAreGuarded
      <3> QED
        BY <3>1, <3>2
    <2> QED
      BY <2>1, <2>2 DEF WalksAreGuarded
  <1>12. AllServed'
    <2> SUFFICES ASSUME NEW s \in Subscribers, s \notin dropped, since'[s] # <<>>
                 PROVE  Served(s)'
      BY <1>1 DEF AllServed
    <2>1. CASE s = u
      <3>1. given'[u] = <<>>
        BY <1>1 DEF SendersMatch
      <3>2. Len(given'[u]) = 0
        BY <3>1, SMTT(30)
      <3>3. \A p \in Nodes, n \in Nat : ~WasGiven(u, p, n)'
        BY <3>2, SMTT(30) DEF WasGiven
      <3>4. \A p \in Nodes, n \in Nat : ~IsDue(u, p, n)'
        BY <1>1, <1>2, PubSubFacts, SMTT(30) DEF IsDue
      <3>5. Ordered(u)'
        BY <3>2, SMTT(30) DEF Ordered
      <3> QED
        BY <2>1, <3>3, <3>4, <3>5 DEF Served
    <2>2. CASE s # u
      <3>1. Served(s)
        BY <1>2, <2>2 DEF AllServed
      <3>2. ASSUME NEW p \in Nodes PROVE PubSub!Waiting(s, p)' <=> PubSub!Waiting(s, p)
        <4>1. CASE Topic[s] = t
          BY <1>1, <1>10, <4>1 DEF PubSub!Waiting
        <4>2. CASE Topic[s] # t
          BY <1>1, <1>4, <1>6, <1>10, <4>2, SMTT(30) DEF PubSub!Waiting
        <4> QED
          BY <4>1, <4>2
      <3>3. \A p \in Nodes, n \in Nat : IsDue(s, p, n)' <=> IsDue(s, p, n)
        BY <1>1, <1>2, <2>2, <3>2 DEF IsDue
      <3> QED
        BY <1>1, <3>1, <3>3, SMTT(30) DEF Served, Ordered, WasGiven
    <2> QED
      BY <2>1, <2>2
  <1> QED
    BY <1>5, <1>9, <1>11, <1>12

\* A message of p is published: no subscriber of its topic is given it before
\* the walk has come to it, and no other is due it.
LEMMA PubSubHandled ==
    ASSUME PubSubIInv, NEW p \in Nodes, NEW t \in Topics, PubSub!handle_message(p, t)
    PROVE  PubSubIInv'
  <1> USE DEF PubSubIInv
  <1>1. /\ walk[p] = 0
        /\ published' = [published EXCEPT ![p] = Append(@, t)]
        /\ walk' = [walk EXCEPT ![p] = IF subscriptions[t] = <<>> THEN 0 ELSE 1]
        /\ UNCHANGED <<subscriptions, given, since, dropped>>
    BY DEF PubSub!handle_message
  <1>2. /\ published[p] \in Seq(Topics) /\ Len(published[p]) \in Nat
        /\ published'[p] \in Seq(Topics)
        /\ Len(published'[p]) = Len(published[p]) + 1
        /\ \A n \in 1..Len(published[p]) : published'[p][n] = published[p][n]
        /\ published'[p][Len(published[p]) + 1] = t
        /\ \A q \in Nodes \ {p} : published'[q] = published[q]
    BY <1>1, PubSubFacts, SMTT(30) DEF PubSubTypeOK
  <1>3. /\ walk'[p] = IF subscriptions[t] = <<>> THEN 0 ELSE 1
        /\ \A q \in Nodes \ {p} : walk'[q] = walk[q]
    BY <1>1 DEF PubSubTypeOK
  <1>4. PubSubTypeOK'
    <2>1. published' \in [Nodes -> Seq(Topics)]
      BY <1>1, <1>2 DEF PubSubTypeOK
    <2> QED
      BY <1>1, <2>1 DEF PubSubTypeOK
  <1>5. SendersMatch'
    BY <1>1, SMTT(30) DEF SendersMatch, IsSender
  <1>6. /\ PubSub!topic(p)' = t
        /\ \A q \in Nodes \ {p} : PubSub!topic(q)' = PubSub!topic(q)
    BY <1>2 DEF PubSub!topic
  <1>7. subscriptions[t] # <<>> => Len(subscriptions[t]) >= 1
    BY PubSubFacts, SMTT(30)
  <1>8. WalksAreGuarded'
    <2>1. ASSUME NEW q \in Nodes, walk'[q] > 0
          PROVE  published'[q] # <<>> /\ walk'[q] <= Len(subscriptions'[PubSub!topic(q)'])
      <3>1. CASE q = p
        BY <1>1, <1>2, <1>3, <1>6, <1>7, <2>1, <3>1, SMTT(30)
      <3>2. CASE q # p
        BY <1>1, <1>2, <1>3, <1>6, <2>1, <3>2, SMTT(30) DEF WalksAreGuarded
      <3> QED
        BY <3>1, <3>2
    <2>2. ASSUME NEW q \in Nodes, NEW s \in Subscribers, since'[s] # <<>>
          PROVE  /\ since'[s][q] <= Len(published'[q])
                 /\ walk'[q] > 0 /\ PubSub!topic(q)' = Topic[s] => since'[s][q] < Len(published'[q])
      <3>1. CASE q = p
        <4>1. since[s][p] \in Nat /\ since[s][p] <= Len(published[p])
          BY <1>1, <2>2 DEF WalksAreGuarded, PubSubTypeOK
        <4> QED
          BY <1>1, <1>2, <3>1, <4>1, SMTT(30)
      <3>2. CASE q # p
        BY <1>1, <1>2, <1>3, <1>6, <2>2, <3>2 DEF WalksAreGuarded
      <3> QED
        BY <3>1, <3>2
    <2> QED
      BY <2>1, <2>2 DEF WalksAreGuarded
  <1>9. ASSUME NEW s \in Subscribers, NEW q \in Nodes, NEW n \in Nat, since[s] # <<>>
        PROVE  IsDue(s, q, n)' <=> IsDue(s, q, n)
    <2>1. CASE q # p
      <3>1. PubSub!Waiting(s, q)' <=> PubSub!Waiting(s, q)
        BY <1>1, <1>3, <1>6, <2>1 DEF PubSub!Waiting
      <3> QED
        BY <1>1, <1>2, <2>1, <3>1 DEF IsDue
    <2>2. CASE q = p /\ Topic[s] = t
      <3>1. PICK i \in Nat : IsSender(s, i)
        BY <1>9 DEF SendersMatch
      <3>2. i \in 1..Len(subscriptions[t]) /\ subscriptions[t] # <<>>
        BY <2>2, <3>1, SMTT(30) DEF IsSender
      <3>3. PubSub!Waiting(s, p)'
        BY <1>1, <1>3, <1>6, <2>2, <3>1, <3>2, SMTT(30) DEF PubSub!Waiting, IsSender
      <3>4. ~PubSub!Waiting(s, p)
        BY <1>1, SMTT(30) DEF PubSub!Waiting
      <3> QED
        BY <1>1, <1>2, <2>2, <3>3, <3>4, SMTT(30) DEF IsDue
    <2>3. CASE q = p /\ Topic[s] # t
      <3>1. ~PubSub!Waiting(s, p)' /\ ~PubSub!Waiting(s, p)
        BY <1>1, <1>6, <2>3, SMTT(30) DEF PubSub!Waiting
      <3> QED
        BY <1>1, <1>2, <2>3, <3>1, SMTT(30) DEF IsDue
    <2> QED
      BY <2>1, <2>2, <2>3
  <1>10. AllServed'
    BY <1>1, <1>9, SMTT(30) DEF AllServed, Served, Ordered, WasGiven
  <1> QED
    BY <1>4, <1>5, <1>8, <1>10

\* The walk of p brings the message to the next sender, and goes on behind it.
LEMMA PubSubSent ==
    ASSUME PubSubIInv, NEW p \in Nodes, PubSub!send(p)
    PROVE  PubSubIInv'
  <1> USE DEF PubSubIInv
  <1> DEFINE m == <<p, Len(published[p])>>
  <1>0. walk[p] > 0
    BY DEF PubSub!send
  <1>topic. PICK t \in Topics : t = PubSub!topic(p)
    BY <1>0, WalkFacts
  <1>2. /\ walk[p] \in Nat \ {0} /\ Len(published[p]) \in Nat \ {0}
        /\ walk[p] \in 1..Len(subscriptions[t]) /\ Len(subscriptions[t]) \in Nat
    BY <1>0, <1>topic, WalkFacts, PubSubFacts
  <1>sender. PICK u \in Subscribers : u = subscriptions[t][walk[p]]
    BY <1>2, PubSubFacts, SMTT(30)
  <1>1. /\ walk[p] > 0
        /\ given' = IF u \in dropped THEN given ELSE [given EXCEPT ![u] = Append(@, m)]
        /\ walk' = [walk EXCEPT ![p] = IF @ = Len(subscriptions[t]) THEN 0 ELSE @ + 1]
        /\ UNCHANGED <<subscriptions, published, since, dropped>>
    BY <1>topic, <1>sender DEF PubSub!send
  <1>3. Topic[u] = t
    BY <1>2, <1>sender DEF SendersMatch
  <1>4. IsSender(u, walk[p]) /\ since[u] # <<>>
    BY <1>2, <1>3, <1>sender DEF IsSender, SendersMatch
  <1>5. m \in Publications /\ m[1] = p /\ m[2] = Len(published[p])
    BY <1>2 DEF Publications
  <1>6. /\ walk'[p] = IF walk[p] = Len(subscriptions[t]) THEN 0 ELSE walk[p] + 1
        /\ \A q \in Nodes \ {p} : walk'[q] = walk[q]
        /\ \A q \in Nodes : PubSub!topic(q)' = PubSub!topic(q)
    BY <1>1 DEF PubSubTypeOK, PubSub!topic
  <1> HIDE DEF m
  <1>7. PubSubTypeOK'
    <2>1. walk' \in [Nodes -> Nat]
      BY <1>1, <1>2, SMTT(30) DEF PubSubTypeOK
    <2>2. Append(given[u], m) \in Seq(Publications)
      BY <1>3, <1>5, PubSubFacts, SMTT(30)
    <2>3. given' \in [Subscribers -> Seq(Publications)]
      BY <1>1, <2>2 DEF PubSubTypeOK
    <2> QED
      BY <1>1, <2>1, <2>3 DEF PubSubTypeOK
  <1>8. SendersMatch'
    <2>1. \A s \in Subscribers : since[s] = <<>> => given'[s] = given[s]
      BY <1>1, <1>4 DEF PubSubTypeOK
    <2>2. \A s \in Subscribers, i \in Nat : IsSender(s, i)' <=> IsSender(s, i)
      BY <1>1 DEF IsSender
    <2>3. \A s \in Subscribers : since[s] = <<>> => given'[s] = <<>>
      BY <2>1 DEF SendersMatch
    <2> QED
      BY <1>1, <2>2, <2>3 DEF SendersMatch
  <1>9. WalksAreGuarded'
    <2>1. ASSUME NEW q \in Nodes, walk'[q] > 0
          PROVE  /\ walk[q] > 0
                 /\ published'[q] # <<>>
                 /\ walk'[q] <= Len(subscriptions'[PubSub!topic(q)'])
      <3>1. CASE q = p
        BY <1>1, <1>2, <1>topic, <1>6, <2>1, <3>1, SMTT(30) DEF WalksAreGuarded
      <3>2. CASE q # p
        BY <1>1, <1>6, <2>1, <3>2 DEF WalksAreGuarded
      <3> QED
        BY <3>1, <3>2
    <2> QED
      BY <1>1, <1>6, <2>1 DEF WalksAreGuarded
  <1>10. ASSUME NEW s \in Subscribers, NEW q \in Nodes, since[s] # <<>>, s # u \/ q # p
         PROVE  PubSub!Waiting(s, q)' <=> PubSub!Waiting(s, q)
    <2>1. CASE q # p
      BY <1>1, <1>6, <2>1 DEF PubSub!Waiting
    <2>2. CASE q = p /\ Topic[s] # t
      BY <1>6, <1>topic, <2>2 DEF PubSub!Waiting
    <2>3. CASE q = p /\ Topic[s] = t
      <3>1. PICK k \in Nat : IsSender(s, k)
        BY <1>10 DEF SendersMatch
      <3>2. k # walk[p] /\ k \in 1..Len(subscriptions[t])
        BY <1>sender, <1>10, <2>3, <3>1 DEF IsSender
      <3>3. \A i \in Nat : IsSender(s, i) <=> i = k
        BY <3>1 DEF SendersMatch
      <3>4. PubSub!Waiting(s, p) <=> walk[p] <= k
        BY <1>1, <1>topic, <2>3, <3>1, <3>3, WaitingSender, SMTT(30)
      <3>5. \A i \in Nat : IsSender(s, i)' <=> i = k
        BY <1>1, <3>3 DEF IsSender
      <3>6. PubSub!Waiting(s, p)' <=> walk'[p] > 0 /\ walk'[p] <= k
        <4>1. walk'[p] \in Nat /\ PubSub!topic(p)' = Topic[s]
          BY <1>2, <1>6, <1>topic, <2>3, SMTT(30)
        <4>2. \A i \in walk'[p]..Len(subscriptions[Topic[s]]) : walk'[p] > 0 => i \in Nat /\ i >= 1
          BY <1>2, <2>3, <4>1, SMTT(30)
        <4>3. k \in 1..Len(subscriptions[Topic[s]]) /\ subscriptions[Topic[s]][k] = s
          BY <3>1 DEF IsSender
        <4>4. \A i \in 1..Len(subscriptions[Topic[s]]) : subscriptions[Topic[s]][i] = s => i = k
          BY <1>2, <2>3, <3>3, SMTT(30) DEF IsSender
        <4> QED
          BY <1>1, <1>2, <2>3, <4>1, <4>2, <4>3, <4>4, SMTT(30) DEF PubSub!Waiting
      <3> QED
        BY <1>2, <1>6, <2>3, <3>2, <3>4, <3>6, SMTT(30)
    <2> QED
      BY <2>1, <2>2, <2>3
  <1>11. ASSUME NEW s \in Subscribers, NEW q \in Nodes, since[s] # <<>>, s # u \/ q # p, NEW n \in Nat
         PROVE  IsDue(s, q, n)' <=> IsDue(s, q, n)
    BY <1>1, <1>10, <1>11 DEF IsDue
  <1>12. PubSub!Waiting(u, p) /\ ~PubSub!Waiting(u, p)'
    <2>1. PubSub!Waiting(u, p)
      BY <1>1, <1>2, <1>3, <1>4, <1>topic, WaitingSender, SMTT(30)
    <2>2. \A i \in 1..Len(subscriptions[t]) : subscriptions[t][i] = u => i = walk[p]
      BY <1>2, <1>3, <1>4, SMTT(30) DEF SendersMatch, IsSender
    <2>3. \A i \in walk'[p]..Len(subscriptions[t]) : walk'[p] > 0 => subscriptions[t][i] # u
      BY <1>2, <1>6, <2>2, SMTT(30)
    <2>4. ~PubSub!Waiting(u, p)'
      BY <1>1, <1>3, <2>3 DEF PubSub!Waiting
    <2> QED
      BY <2>1, <2>4
  <1>13. ASSUME NEW n \in Nat PROVE IsDue(u, p, n)' <=> IsDue(u, p, n) \/ n = Len(published[p])
    <2>1. /\ since[u] \in [Nodes -> Nat] /\ since[u][p] < Len(published[p])
          /\ published[p][Len(published[p])] = Topic[u]
      BY <1>1, <1>3, <1>4, <1>topic DEF PubSubTypeOK, WalksAreGuarded, PubSub!topic
    <2> QED
      BY <1>1, <1>2, <1>12, <2>1, SMTT(30) DEF IsDue
  <1>14. AllServed'
    <2> SUFFICES ASSUME NEW s \in Subscribers, s \notin dropped, since[s] # <<>>
                 PROVE  Served(s)'
      BY <1>1 DEF AllServed
    <2>1. Served(s)
      BY DEF AllServed
    <2>2. CASE s # u
      <3>1. given'[s] = given[s]
        BY <1>1, <2>2 DEF PubSubTypeOK
      <3> QED
        BY <1>11, <2>1, <2>2, <3>1, SMTT(30) DEF Served, Ordered, WasGiven
    <2>3. CASE s = u
      <3>1. /\ given[u] \in Seq(Publications) /\ Len(given[u]) \in Nat
            /\ given'[u] = Append(given[u], m)
        BY <1>1, <1>3, <2>3, PubSubFacts DEF PubSubTypeOK
      <3>2. /\ Len(given'[u]) = Len(given[u]) + 1
            /\ \A i \in 1..Len(given[u]) : given'[u][i] = given[u][i]
            /\ given'[u][Len(given[u]) + 1] = m
        BY <1>5, <3>1, SMTT(30)
      <3>3. ASSUME NEW q \in Nodes, NEW n \in Nat
            PROVE  WasGiven(u, q, n)' <=> WasGiven(u, q, n) \/ (q = p /\ n = Len(published[p]))
        BY <1>5, <3>1, <3>2, SMTT(30) DEF WasGiven
      <3>4. ASSUME NEW q \in Nodes, NEW n \in Nat PROVE WasGiven(u, q, n)' <=> IsDue(u, q, n)'
        BY <1>4, <1>3, <1>11, <1>13, <2>1, <2>3, <3>3 DEF Served
      <3>5. ASSUME NEW i \in 1..Len(given[u]), given[u][i][1] = p
            PROVE  given[u][i][2] < Len(published[p])
        <4>1. WasGiven(u, p, given[u][i][2]) /\ given[u][i][2] \in Nat
          BY <1>3, <3>5, PubSubFacts DEF WasGiven
        <4> QED
          BY <1>12, <2>1, <2>3, <4>1 DEF Served, IsDue
      <3>6. Ordered(u)'
        <4> SUFFICES ASSUME NEW i \in 1..Len(given'[u]), NEW j \in 1..Len(given'[u]), i < j,
                            given'[u][i][1] = given'[u][j][1]
                     PROVE  given'[u][i][2] < given'[u][j][2]
          BY DEF Ordered
        <4>1. i \in 1..Len(given[u])
          BY <3>1, <3>2, SMTT(30)
        <4>2. CASE j \in 1..Len(given[u])
          BY <2>1, <2>3, <3>2, <4>1, <4>2 DEF Served, Ordered
        <4>3. CASE j = Len(given[u]) + 1
          BY <1>5, <3>2, <3>5, <4>1, <4>3
        <4> QED
          BY <3>1, <3>2, <4>2, <4>3, SMTT(30)
      <3> QED
        BY <2>3, <3>4, <3>6 DEF Served
    <2> QED
      BY <2>2, <2>3
  <1> QED
    BY <1>7, <1>8, <1>9, <1>14

\* The invariant of PubSub holds in every reachable state.
LEMMA PubSubInvariance == PubSub!Spec => []PubSubIInv
  <1>1. PubSubIInv /\ [PubSub!Next]_PubSub!vars => PubSubIInv'
    <2> SUFFICES ASSUME PubSubIInv, [PubSub!Next]_PubSub!vars PROVE PubSubIInv'
      OBVIOUS
    <2>1. ASSUME NEW s \in Subscribers, PubSub!drop(s) PROVE PubSubIInv'
      <3>1. /\ dropped' = dropped \cup {s}
            /\ UNCHANGED <<subscriptions, published, walk, given, since>>
        BY <2>1 DEF PubSub!drop
      <3>2. PubSubTypeOK' /\ SendersMatch'
        <4>1. PubSubTypeOK'
          BY <3>1, SMTT(30) DEF PubSubIInv, PubSubTypeOK
        <4>2. SendersMatch'
          BY <3>1, SMTT(30) DEF PubSubIInv, SendersMatch, IsSender
        <4> QED
          BY <4>1, <4>2
      <3>3. WalksAreGuarded'
        BY <3>1 DEF PubSubIInv, WalksAreGuarded, PubSub!topic
      <3>4. \A u \in Subscribers : Served(u) => Served(u)'
        BY <3>1, SMTT(30) DEF Served, Ordered, WasGiven, IsDue, PubSub!Waiting, PubSub!topic
      <3> QED
        BY <3>1, <3>2, <3>3, <3>4 DEF PubSubIInv, AllServed
    <2>2. CASE UNCHANGED PubSub!vars
      <3>1. PubSubTypeOK' /\ SendersMatch'
        BY <2>2, SMTT(30) DEF PubSub!vars, PubSubIInv, PubSubTypeOK, SendersMatch, IsSender
      <3>2. WalksAreGuarded'
        BY <2>2 DEF PubSub!vars, PubSubIInv, WalksAreGuarded, PubSub!topic
      <3>3. \A u \in Subscribers : Served(u) => Served(u)'
        BY <2>2, SMTT(30) DEF PubSub!vars, Served, Ordered, WasGiven, IsDue, PubSub!Waiting, PubSub!topic
      <3> QED
        BY <2>2, <3>1, <3>2, <3>3 DEF PubSub!vars, PubSubIInv, AllServed
    <2> QED
      BY <2>1, <2>2, PubSubSubscribed, PubSubHandled, PubSubSent DEF PubSub!Next
  <1> QED
    BY <1>1, PubSubInit, PTL DEF PubSub!Spec

\* For any peers, topics and subscribers, and however the session loops that
\* walk over the senders interleave with each other and with subscribe, a
\* subscriber that keeps its receiver gets what each peer published on its
\* topic since it subscribed, once and in order (lib.rs:255-262, 286-297).
THEOREM SubscribersMissNothingHolds == PubSub!Spec => []SubscribersMissNothing
  <1>1. PubSubIInv => SubscribersMissNothing
    BY MissNothingIsServed DEF PubSubIInv
  <1> QED
    BY <1>1, PubSubInvariance, PTL
=============================================================================
