--------------------------- MODULE SessionProofs ---------------------------
(***************************************************************************)
(* Session implements FifoChannel, for any number of senders and any       *)
(* capacities of the write queue and the connection.  Pongs overtake       *)
(* queued frames, so the frames on the connection are in no useful order.  *)
(* What holds is that every frame on its way is one that was encrypted and *)
(* carries its place in the history as its nonce.  A frame that opens is   *)
(* therefore the one whose turn it is.  Then: a frame is never at two      *)
(* places, and is at one while both session loops run.                     *)
(***************************************************************************)
EXTENDS Session, TLAPS

USE Zenon

\* Types of the histories and of what carries frames.
TypeOK ==
    /\ sent \in [Endpoints -> Seq(Frames)]
    /\ received \in [Endpoints -> Seq(Frames)]
    /\ queue \in [Endpoints -> Seq(Frames)]
    /\ conn \in [Endpoints -> Seq(Frames)]
    /\ task \in [Senders -> {Spawned, Idle, Done} \cup [at : {"enqueue"}, frame : Frames]]
    /\ loop \in [Endpoints -> {Select, Ponging, Done}
                               \cup [at : {"sending"}, frame : Frames]]

\* The frames that were encrypted at e.
Made(e) == {sent[e][i] : i \in 1..Len(sent[e])}

\* The nonce of a frame is its place in the history.
Numbered == \A e \in Endpoints : \A i \in 1..Len(sent[e]) : sent[e][i].nonce = i - 1

\* What a sender, a queue, a session loop or the connection holds was
\* encrypted at the end it comes from.
Genuine ==
    /\ \A s \in Senders : task[s].at = "enqueue" => task[s].frame \in Made(At[s])
    /\ \A e \in Endpoints :
        /\ loop[e].at = "sending" => loop[e].frame \in Made(e)
        /\ \A i \in 1..Len(queue[e]) : queue[e][i] \in Made(e)
        /\ \A i \in 1..Len(conn[e]) : conn[e][i] \in Made(Other[e])

IInv == TypeOK /\ Numbered /\ Genuine

\* The peer of an end is an end.
LEMMA OtherType == \A e \in Endpoints : Other[e] \in Endpoints
  BY SessionAssumption

\* A session starts with nothing sent and nothing on its way.
LEMMA InitIInv == Init => IInv
  <1> SUFFICES ASSUME Init PROVE IInv
    OBVIOUS
  <1> USE SessionAssumption DEF Init, Spawned, Idle, Select
  <1>1. TypeOK
    BY SMTT(30) DEF TypeOK
  <1>2. Numbered
    BY SMTT(30) DEF Numbered
  <1>3. Genuine
    BY SMTT(30) DEF Genuine
  <1> QED
    BY <1>1, <1>2, <1>3 DEF IInv

\* A step of Session encrypts one frame, numbered as NoiseTransport numbers it,
\* or none (noise.rs:160-168).
Encrypts(e, f) ==
    /\ f \in Frames
    /\ f.nonce = Len(sent[e])
    /\ sent' = [sent EXCEPT ![e] = Append(@, f)]

\* Encrypting keeps the numbering, keeps what was made, and makes the frame.
LEMMA EncryptsFacts ==
    ASSUME TypeOK, Numbered, NEW e \in Endpoints, NEW f \in Frames, Encrypts(e, f)
    PROVE  /\ sent' \in [Endpoints -> Seq(Frames)]
           /\ Numbered'
           /\ \A d \in Endpoints : Made(d) \subseteq Made(d)'
           /\ f \in Made(e)'
           /\ Len(sent'[e]) = Len(sent[e]) + 1
           /\ sent'[e][Len(sent[e]) + 1] = f
  <1> USE DEF Encrypts
  <1>1. /\ sent[e] \in Seq(Frames) /\ Len(sent[e]) \in Nat
        /\ sent'[e] = Append(sent[e], f)
        /\ \A d \in Endpoints : d # e => sent'[d] = sent[d]
    BY SMTT(30) DEF TypeOK
  <1>2. /\ Len(sent'[e]) = Len(sent[e]) + 1
        /\ sent'[e][Len(sent[e]) + 1] = f
        /\ \A i \in 1..Len(sent[e]) : sent'[e][i] = sent[e][i]
    BY <1>1, SMTT(30)
  <1>3. sent' \in [Endpoints -> Seq(Frames)]
    BY <1>1, SMTT(30) DEF TypeOK
  <1>4. Numbered'
    <2> SUFFICES ASSUME NEW d \in Endpoints, NEW i \in 1..Len(sent'[d])
                 PROVE  sent'[d][i].nonce = i - 1
      BY DEF Numbered
    <2>1. CASE d # e
      BY <2>1, <1>1 DEF Numbered
    <2>2. CASE d = e /\ i = Len(sent[e]) + 1
      BY <2>2, <1>1, <1>2, SMTT(30)
    <2>3. CASE d = e /\ i # Len(sent[e]) + 1
      <3>1. i \in 1..Len(sent[e])
        BY <2>3, <1>1, <1>2, SMTT(30)
      <3> QED
        BY <2>3, <3>1, <1>2, SMTT(30) DEF Numbered
    <2> QED
      BY <2>1, <2>2, <2>3
  <1>5. ASSUME NEW d \in Endpoints, NEW g \in Made(d) PROVE g \in Made(d)'
    <2>1. PICK i \in 1..Len(sent[d]) : g = sent[d][i]
      BY DEF Made
    <2>2. i \in 1..Len(sent'[d]) /\ sent'[d][i] = g
      <3>1. CASE d = e
        BY <2>1, <3>1, <1>1, <1>2, SMTT(30)
      <3>2. CASE d # e
        BY <2>1, <3>2, <1>1
      <3> QED
        BY <3>1, <3>2
    <2> QED
      BY <2>2 DEF Made
  <1>6. f \in Made(e)'
    <2>1. Len(sent[e]) + 1 \in 1..Len(sent'[e])
      BY <1>1, <1>2, SMTT(30)
    <2> QED
      BY <1>2, <2>1 DEF Made
  <1> QED
    BY <1>2, <1>3, <1>4, <1>5, <1>6

\* A step that encrypts nothing keeps the numbering and what was made.
LEMMA NothingMade ==
    ASSUME UNCHANGED sent, Numbered
    PROVE  Numbered' /\ \A d \in Endpoints : Made(d)' = Made(d)
  BY DEF Numbered, Made

\* A sender encrypts and holds the frame (lib.rs:239-251).
LEMMA encrypt_payloadIInv ==
    ASSUME IInv, NEW s \in Senders, encrypt_payload(s)
    PROVE  IInv' /\ \E f \in Frames : Encrypts(At[s], f)
  <1> DEFINE e == At[s]
             f == encrypt(e, Kind[s])
  <1>1. e \in Endpoints /\ Kind[s] \in {"data", "gossip", "ping"}
    BY SessionAssumption
  <1>2. f \in Frames /\ Encrypts(e, f)
    BY <1>1, SMTT(30) DEF encrypt_payload, encrypt, Encrypts, Frames, IInv, TypeOK
  <1> HIDE DEF f
  <1>3. /\ task' = [task EXCEPT ![s] = [at |-> "enqueue", frame |-> f]]
        /\ UNCHANGED <<received, queue, conn, loop>>
    BY DEF encrypt_payload, f
  <1>4. /\ sent' \in [Endpoints -> Seq(Frames)]
        /\ Numbered'
        /\ \A d \in Endpoints : Made(d) \subseteq Made(d)'
        /\ f \in Made(e)'
    BY <1>1, <1>2, EncryptsFacts DEF IInv
  <1>5. TypeOK'
    BY <1>2, <1>3, <1>4 DEF IInv, TypeOK
  <1>6. Genuine'
    BY <1>1, <1>3, <1>4, OtherType, SessionAssumption, ZenonT(60) DEF IInv, TypeOK, Genuine
  <1> QED
    BY <1>2, <1>4, <1>5, <1>6 DEF IInv

\* The frame goes from the sender to the queue, or is given up (lib.rs:252).
LEMMA write_tx_sendIInv ==
    ASSUME IInv, NEW s \in Senders, write_tx_send(s)
    PROVE  IInv'
  <1> DEFINE e == At[s]
             f == task[s].frame
  <1>1. /\ e \in Endpoints /\ task[s].at = "enqueue"
        /\ task' = [task EXCEPT ![s] = Idle]
        /\ queue' = queue \/ queue' = [queue EXCEPT ![e] = Append(@, f)]
        /\ UNCHANGED <<sent, received, conn, loop>>
    BY SessionAssumption DEF write_tx_send
  <1>2. f \in Frames /\ f \in Made(e)
    <2>1. task[s] \in [at : {"enqueue"}, frame : Frames]
      BY <1>1, SMTT(30) DEF IInv, TypeOK, Spawned, Idle, Done
    <2>2. f \in Frames
      BY <2>1
    <2> QED
      BY <1>1, <2>2 DEF IInv, Genuine
  <1> HIDE DEF e, f
  <1>3. Numbered' /\ \A d \in Endpoints : Made(d)' = Made(d)
    BY <1>1, NothingMade DEF IInv
  <1>4. TypeOK'
    <2>1. queue' \in [Endpoints -> Seq(Frames)]
      <3>1. Append(queue[e], f) \in Seq(Frames)
        BY <1>1, <1>2, SMTT(30) DEF IInv, TypeOK
      <3> QED
        BY <1>1, <3>1 DEF IInv, TypeOK
    <2> QED
      BY <1>1, <2>1 DEF IInv, TypeOK
  <1>5. \A d \in Endpoints : \A i \in 1..Len(queue'[d]) : queue'[d][i] \in Made(d)
    <2> SUFFICES ASSUME NEW d \in Endpoints, NEW i \in 1..Len(queue'[d])
                 PROVE  queue'[d][i] \in Made(d)
      OBVIOUS
    <2>1. CASE queue'[d] = queue[d]
      BY <2>1 DEF IInv, Genuine
    <2>2. CASE d = e /\ queue'[e] = Append(queue[e], f)
      <3>1. queue[e] \in Seq(Frames) /\ Len(queue[e]) \in Nat
        BY <1>1, SMTT(30) DEF IInv, TypeOK
      <3>2. i \in 1..Len(queue[e]) \/ i = Len(queue[e]) + 1
        BY <2>2, <3>1, <1>2, SMTT(30)
      <3>3. CASE i = Len(queue[e]) + 1
        BY <2>2, <3>1, <3>3, <1>2, SMTT(30)
      <3>4. CASE i \in 1..Len(queue[e])
        BY <2>2, <3>1, <3>4, <1>2, SMTT(30) DEF IInv, Genuine
      <3> QED
        BY <3>2, <3>3, <3>4
    <2> QED
      BY <1>1, <2>1, <2>2 DEF IInv, TypeOK
  <1>6. Genuine'
    <2>1. \A r \in Senders : task'[r].at = "enqueue" => task'[r].frame \in Made(At[r])'
      <3> SUFFICES ASSUME NEW r \in Senders, task'[r].at = "enqueue"
                   PROVE  task'[r].frame \in Made(At[r])'
        OBVIOUS
      <3>1. r # s
        BY <1>1 DEF IInv, TypeOK, Idle
      <3>2. task'[r] = task[r] /\ At[r] \in Endpoints
        BY <1>1, <3>1, SessionAssumption DEF IInv, TypeOK
      <3> QED
        BY <1>3, <3>2 DEF IInv, Genuine
    <2>2. \A d \in Endpoints : \A i \in 1..Len(conn'[d]) : conn'[d][i] \in Made(Other[d])'
      BY <1>1, <1>3, OtherType DEF IInv, Genuine
    <2> QED
      BY <1>1, <1>3, <1>5, <2>1, <2>2, SMTT(30) DEF IInv, Genuine
  <1> QED
    BY <1>3, <1>4, <1>6 DEF IInv

\* Taking the first element leaves the others (in their places less one).
LEMMA HeadTail ==
    ASSUME NEW S, NEW q \in Seq(S), q # <<>>
    PROVE  /\ Head(q) \in S /\ Head(q) = q[1] /\ 1 \in 1..Len(q)
           /\ Tail(q) \in Seq(S)
           /\ \A i \in 1..Len(Tail(q)) : i + 1 \in 1..Len(q) /\ Tail(q)[i] = q[i + 1]
  BY SMTT(30)

\* The write arm of the session loop takes a frame from the queue
\* (lib.rs:371-373).
LEMMA write_rx_recvIInv ==
    ASSUME IInv, NEW e \in Endpoints, write_rx_recv(e)
    PROVE  IInv'
  <1> DEFINE f == Head(queue[e])
  <1>1. /\ queue[e] # <<>>
        /\ loop' = [loop EXCEPT ![e] = [at |-> "sending", frame |-> f]]
        /\ queue' = [queue EXCEPT ![e] = Tail(@)]
        /\ UNCHANGED <<sent, received, conn, task>>
    BY DEF write_rx_recv
  <1>2. queue[e] \in Seq(Frames)
    BY DEF IInv, TypeOK
  <1>3. /\ f \in Frames /\ f \in Made(e)
        /\ Tail(queue[e]) \in Seq(Frames)
        /\ \A i \in 1..Len(Tail(queue[e])) : Tail(queue[e])[i] \in Made(e)
    BY <1>1, <1>2, HeadTail, SMTT(30) DEF IInv, Genuine
  <1> HIDE DEF f
  <1>4. Numbered' /\ \A d \in Endpoints : Made(d)' = Made(d)
    BY <1>1, NothingMade DEF IInv
  <1>5. TypeOK'
    BY <1>1, <1>3 DEF IInv, TypeOK
  <1>6. Genuine'
    <2>1. \A r \in Senders : task'[r].at = "enqueue" => task'[r].frame \in Made(At[r])'
      BY <1>1, <1>4, SessionAssumption, SMTT(30) DEF IInv, Genuine
    <2>2. \A d \in Endpoints : loop'[d].at = "sending" => loop'[d].frame \in Made(d)'
      BY <1>1, <1>3, <1>4 DEF IInv, TypeOK, Genuine
    <2>3. \A d \in Endpoints : \A i \in 1..Len(queue'[d]) : queue'[d][i] \in Made(d)'
      BY <1>1, <1>3, <1>4, SMTT(30) DEF IInv, TypeOK, Genuine
    <2>4. \A d \in Endpoints : \A i \in 1..Len(conn'[d]) : conn'[d][i] \in Made(Other[d])'
      BY <1>1, <1>4, OtherType DEF IInv, Genuine
    <2> QED
      BY <2>1, <2>2, <2>3, <2>4 DEF Genuine
  <1> QED
    BY <1>4, <1>5, <1>6 DEF IInv

\* The frame reaches the connection, or is lost with it (lib.rs:374-382).
LEMMA conn_sendIInv ==
    ASSUME IInv, NEW e \in Endpoints, conn_send(e)
    PROVE  IInv'
  <1> DEFINE o == Other[e]
             f == loop[e].frame
  <1>1. /\ o \in Endpoints /\ Other[o] = e /\ loop[e].at = "sending"
        /\ loop' = [loop EXCEPT ![e] = Select] \/ loop' = [loop EXCEPT ![e] = Done]
        /\ conn' = conn \/ conn' = [conn EXCEPT ![o] = Append(@, f)]
        /\ UNCHANGED <<sent, received, queue, task>>
    BY SessionAssumption DEF conn_send
  <1>2. f \in Frames /\ f \in Made(e)
    <2>1. loop[e] \in [at : {"sending"}, frame : Frames]
      BY <1>1, SMTT(30) DEF IInv, TypeOK, Select, Ponging, Done
    <2>2. f \in Frames
      BY <2>1
    <2> QED
      BY <1>1, <2>2 DEF IInv, Genuine
  <1> HIDE DEF o, f
  <1>3. Numbered' /\ \A d \in Endpoints : Made(d)' = Made(d)
    BY <1>1, NothingMade DEF IInv
  <1>4. TypeOK'
    <2>1. conn' \in [Endpoints -> Seq(Frames)]
      <3>1. Append(conn[o], f) \in Seq(Frames)
        BY <1>1, <1>2, SMTT(30) DEF IInv, TypeOK
      <3> QED
        BY <1>1, <3>1 DEF IInv, TypeOK
    <2> QED
      BY <1>1, <2>1 DEF IInv, TypeOK
  <1>5. \A d \in Endpoints : \A i \in 1..Len(conn'[d]) : conn'[d][i] \in Made(Other[d])
    <2> SUFFICES ASSUME NEW d \in Endpoints, NEW i \in 1..Len(conn'[d])
                 PROVE  conn'[d][i] \in Made(Other[d])
      OBVIOUS
    <2>1. CASE conn'[d] = conn[d]
      BY <2>1 DEF IInv, Genuine
    <2>2. CASE d = o /\ conn'[o] = Append(conn[o], f)
      <3>1. conn[o] \in Seq(Frames) /\ Len(conn[o]) \in Nat
        BY <1>1, SMTT(30) DEF IInv, TypeOK
      <3>2. i \in 1..Len(conn[o]) \/ i = Len(conn[o]) + 1
        BY <2>2, <3>1, <1>2, SMTT(30)
      <3>3. CASE i = Len(conn[o]) + 1
        BY <2>2, <3>1, <3>3, <1>1, <1>2, SMTT(30)
      <3>4. CASE i \in 1..Len(conn[o])
        BY <2>2, <3>1, <3>4, <1>1, <1>2, SMTT(30) DEF IInv, Genuine
      <3> QED
        BY <3>2, <3>3, <3>4
    <2> QED
      BY <1>1, <2>1, <2>2 DEF IInv, TypeOK
  <1>6. Genuine'
    <2>1. \A r \in Senders : task'[r].at = "enqueue" => task'[r].frame \in Made(At[r])'
      BY <1>1, <1>3, SessionAssumption, SMTT(30) DEF IInv, Genuine
    <2>2. \A d \in Endpoints : loop'[d].at = "sending" => loop'[d].frame \in Made(d)'
      <3> SUFFICES ASSUME NEW d \in Endpoints, loop'[d].at = "sending"
                   PROVE  loop'[d].frame \in Made(d)'
        OBVIOUS
      <3>1. d # e
        BY <1>1, SMTT(30) DEF IInv, TypeOK, Select, Done
      <3>2. loop'[d] = loop[d]
        BY <1>1, <3>1 DEF IInv, TypeOK
      <3> QED
        BY <1>3, <3>2 DEF IInv, Genuine
    <2>3. \A d \in Endpoints : \A i \in 1..Len(conn'[d]) : conn'[d][i] \in Made(Other[d])'
      BY <1>3, <1>5, OtherType
    <2>4. \A d \in Endpoints : \A i \in 1..Len(queue'[d]) : queue'[d][i] \in Made(d)'
      BY <1>1, <1>3 DEF IInv, Genuine
    <2> QED
      BY <2>1, <2>2, <2>3, <2>4 DEF Genuine
  <1> QED
    BY <1>3, <1>4, <1>6 DEF IInv

\* Of all the frames of a direction only the next one opens
\* (noise.rs:171-179).
LEMMA OpensOnlyNext ==
    ASSUME IInv, NEW e \in Endpoints, NEW f \in Made(Other[e]), opens(e, f)
    PROVE  /\ Len(received[e]) \in Nat
           /\ Len(received[e]) < Len(sent[Other[e]])
           /\ f = sent[Other[e]][Len(received[e]) + 1]
  <1>1. PICK i \in 1..Len(sent[Other[e]]) : f = sent[Other[e]][i]
    BY DEF Made
  <1>2. Len(sent[Other[e]]) \in Nat /\ Len(received[e]) \in Nat
    BY OtherType, SMTT(30) DEF IInv, TypeOK
  <1>3. i - 1 = Len(received[e])
    BY <1>1, OtherType DEF opens, IInv, Numbered
  <1>4. i = Len(received[e]) + 1
    BY <1>2, <1>3, SMTT(30)
  <1> QED
    BY <1>1, <1>2, <1>4, SMTT(30)

\* A frame is taken from the connection and opened or dropped (lib.rs:387-397).
LEMMA conn_recvIInv ==
    ASSUME IInv, NEW e \in Endpoints, conn_recv(e)
    PROVE  IInv' /\ Head(conn[e]) \in Made(Other[e])
  <1> DEFINE f == Head(conn[e])
  <1>1. /\ conn[e] # <<>>
        /\ conn' = [conn EXCEPT ![e] = Tail(@)]
        /\ \/ UNCHANGED <<received, loop>>
           \/ /\ received' = [received EXCEPT ![e] = Append(@, f)]
              /\ \E l \in {Ponging, Select} : loop' = [loop EXCEPT ![e] = l]
        /\ UNCHANGED <<sent, queue, task>>
    BY DEF conn_recv
  <1>2. conn[e] \in Seq(Frames)
    BY DEF IInv, TypeOK
  <1>3. /\ f \in Frames /\ f \in Made(Other[e])
        /\ Tail(conn[e]) \in Seq(Frames)
        /\ \A i \in 1..Len(Tail(conn[e])) : Tail(conn[e])[i] \in Made(Other[e])
    BY <1>1, <1>2, HeadTail, SMTT(30) DEF IInv, Genuine
  <1> HIDE DEF f
  <1>4. Numbered' /\ \A d \in Endpoints : Made(d)' = Made(d)
    BY <1>1, NothingMade DEF IInv
  <1>5. TypeOK'
    <2>1. Append(received[e], f) \in Seq(Frames)
      BY <1>3, SMTT(30) DEF IInv, TypeOK
    <2>2. received' \in [Endpoints -> Seq(Frames)]
      BY <1>1, <2>1 DEF IInv, TypeOK
    <2> QED
      BY <1>1, <1>3, <2>2 DEF IInv, TypeOK
  <1>6. Genuine'
    <2>1. \A r \in Senders : task'[r].at = "enqueue" => task'[r].frame \in Made(At[r])'
      BY <1>1, <1>4, SessionAssumption, SMTT(30) DEF IInv, Genuine
    <2>2. \A d \in Endpoints : loop'[d].at = "sending" => loop'[d].frame \in Made(d)'
      <3> SUFFICES ASSUME NEW d \in Endpoints, loop'[d].at = "sending"
                   PROVE  loop'[d].frame \in Made(d)'
        OBVIOUS
      <3>1. loop'[d] = loop[d]
        BY <1>1, SMTT(30) DEF IInv, TypeOK, Ponging, Select
      <3> QED
        BY <1>4, <3>1 DEF IInv, Genuine
    <2>3. \A d \in Endpoints : \A i \in 1..Len(conn'[d]) : conn'[d][i] \in Made(Other[d])'
      BY <1>1, <1>3, <1>4, OtherType, SMTT(30) DEF IInv, TypeOK, Genuine
    <2>4. \A d \in Endpoints : \A i \in 1..Len(queue'[d]) : queue'[d][i] \in Made(d)'
      BY <1>1, <1>4 DEF IInv, Genuine
    <2> QED
      BY <2>1, <2>2, <2>3, <2>4 DEF Genuine
  <1> QED
    BY <1>3, <1>4, <1>5, <1>6 DEF IInv, f

\* The session loop encrypts the pong and holds it (lib.rs:470-486).
LEMMA encrypt_pongIInv ==
    ASSUME IInv, NEW e \in Endpoints, encrypt_pong(e)
    PROVE  IInv' /\ \E f \in Frames : Encrypts(e, f)
  <1> DEFINE f == encrypt(e, "pong")
  <1>1. f \in Frames /\ Encrypts(e, f)
    BY SMTT(30) DEF encrypt_pong, encrypt, Encrypts, Frames, IInv, TypeOK
  <1> HIDE DEF f
  <1>2. /\ loop' = [loop EXCEPT ![e] = [at |-> "sending", frame |-> f]]
        /\ UNCHANGED <<received, queue, conn, task>>
    BY DEF encrypt_pong, f
  <1>3. /\ sent' \in [Endpoints -> Seq(Frames)]
        /\ Numbered'
        /\ \A d \in Endpoints : Made(d) \subseteq Made(d)'
        /\ f \in Made(e)'
    BY <1>1, EncryptsFacts DEF IInv
  <1>4. TypeOK'
    BY <1>1, <1>2, <1>3 DEF IInv, TypeOK
  <1>5. Genuine'
    BY <1>2, <1>3, OtherType, SessionAssumption DEF IInv, TypeOK, Genuine
  <1> QED
    BY <1>1, <1>3, <1>4, <1>5 DEF IInv

\* Steps that end a loop or a background task carry no frame
\* (lib.rs:413-418, 510, 543-545).
LEMMA QuietIInv ==
    ASSUME IInv, UNCHANGED <<sent, received, queue, conn>>,
           \/ UNCHANGED <<task, loop>>
           \/ UNCHANGED task /\ \E e \in Endpoints : loop' = [loop EXCEPT ![e] = Done]
           \/ UNCHANGED loop /\ \E s \in Senders, t \in {Idle, Done} :
                                   task' = [task EXCEPT ![s] = t]
    PROVE  IInv'
  <1>1. Numbered' /\ \A d \in Endpoints : Made(d)' = Made(d)
    BY NothingMade DEF IInv
  <1>2. TypeOK'
    BY DEF IInv, TypeOK
  <1>3. ASSUME NEW r \in Senders, task'[r].at = "enqueue"
        PROVE  task'[r].frame \in Made(At[r])'
    <2>1. task'[r] = task[r]
      BY <1>3, SMTT(30) DEF IInv, TypeOK, Idle, Done
    <2> QED
      BY <1>1, <1>3, <2>1, SessionAssumption, ZenonT(60) DEF IInv, Genuine
  <1>4. ASSUME NEW d \in Endpoints, loop'[d].at = "sending"
        PROVE  loop'[d].frame \in Made(d)'
    <2>1. loop'[d] = loop[d]
      BY <1>4, SMTT(30) DEF IInv, TypeOK, Done
    <2> QED
      BY <1>1, <1>4, <2>1 DEF IInv, Genuine
  <1>5. Genuine'
    BY <1>1, <1>3, <1>4, OtherType, SMTT(30) DEF IInv, Genuine
  <1> QED
    BY <1>1, <1>2, <1>5 DEF IInv

\* Every step keeps the invariant, and is a step of the channel or invisible
\* in it.
LEMMA StepFacts ==
    ASSUME IInv, [Next]_vars
    PROVE  IInv' /\ [Fifo!Next]_(Fifo!vars)
  <1>1. ASSUME NEW e \in Endpoints, NEW f \in Frames, Encrypts(e, f), UNCHANGED received
        PROVE  Fifo!Next
    <2>1. /\ Len(sent'[e]) = Len(sent[e]) + 1
          /\ sent'[e][Len(sent[e]) + 1] = f
      BY <1>1, EncryptsFacts DEF IInv
    <2>2. Fifo!Send(e)
      BY <1>1, <2>1 DEF Encrypts, Fifo!Send
    <2> QED
      BY <2>2 DEF Fifo!Next
  <1>2. ASSUME NEW s \in Senders, encrypt_payload(s)
        PROVE  IInv' /\ [Fifo!Next]_(Fifo!vars)
    <2>1. IInv' /\ \E f \in Frames : Encrypts(At[s], f)
      BY <1>2, encrypt_payloadIInv
    <2>2. At[s] \in Endpoints /\ UNCHANGED received
      BY <1>2, SessionAssumption DEF encrypt_payload
    <2> QED
      BY <2>1, <2>2, <1>1
  <1>3. ASSUME NEW s \in Senders, write_tx_send(s)
        PROVE  IInv' /\ [Fifo!Next]_(Fifo!vars)
    BY <1>3, write_tx_sendIInv DEF write_tx_send, Fifo!vars
  <1>4. ASSUME NEW s \in Senders, worker_subscribe(s) \/ worker_end(s)
        PROVE  IInv' /\ [Fifo!Next]_(Fifo!vars)
    BY <1>4, QuietIInv DEF worker_subscribe, worker_end, Fifo!vars
  <1>5. ASSUME NEW e \in Endpoints, write_rx_recv(e)
        PROVE  IInv' /\ [Fifo!Next]_(Fifo!vars)
    BY <1>5, write_rx_recvIInv DEF write_rx_recv, Fifo!vars
  <1>6. ASSUME NEW e \in Endpoints, conn_send(e)
        PROVE  IInv' /\ [Fifo!Next]_(Fifo!vars)
    BY <1>6, conn_sendIInv DEF conn_send, Fifo!vars
  <1>7. ASSUME NEW e \in Endpoints, conn_recv(e)
        PROVE  IInv' /\ [Fifo!Next]_(Fifo!vars)
    <2> DEFINE f == Head(conn[e])
    <2>1. IInv' /\ f \in Made(Other[e])
      BY <1>7, conn_recvIInv
    <2>2. CASE ~opens(e, f)
      BY <1>7, <2>1, <2>2 DEF conn_recv, Fifo!vars
    <2>3. CASE opens(e, f)
      <3>1. received' = [received EXCEPT ![e] = Append(@, f)] /\ UNCHANGED sent
        BY <1>7, <2>3 DEF conn_recv
      <3>2. /\ Len(received[e]) < Len(sent[Other[e]])
            /\ f = sent[Other[e]][Len(received[e]) + 1]
        BY <2>1, <2>3, OpensOnlyNext
      <3>3. Fifo!Deliver(e)
        BY <3>1, <3>2 DEF Fifo!Deliver
      <3> QED
        BY <2>1, <3>3 DEF Fifo!Next
    <2> QED
      BY <2>2, <2>3
  <1>8. ASSUME NEW e \in Endpoints, encrypt_pong(e)
        PROVE  IInv' /\ [Fifo!Next]_(Fifo!vars)
    <2>1. IInv' /\ \E f \in Frames : Encrypts(e, f)
      BY <1>8, encrypt_pongIInv
    <2>2. UNCHANGED received
      BY <1>8 DEF encrypt_pong
    <2> QED
      BY <2>1, <2>2, <1>1
  <1>9. ASSUME NEW e \in Endpoints, exit_loop(e) \/ shutdown_signal(e) \/ shutdown_clear(e)
        PROVE  IInv' /\ [Fifo!Next]_(Fifo!vars)
    BY <1>9, QuietIInv DEF exit_loop, shutdown_signal, shutdown_clear, Fifo!vars
  <1>10. CASE UNCHANGED vars
    BY <1>10, QuietIInv DEF vars, Fifo!vars
  <1> QED
    BY <1>2, <1>3, <1>4, <1>5, <1>6, <1>7, <1>8, <1>9, <1>10 DEF Next, LoopStep

\* Every frame on its way in a session was encrypted at the end it comes from
\* and carries its place in that end's history, whichever task holds it
\* (lib.rs:239-252, 371-382, 470-486).
THEOREM Invariance == Spec => []IInv
  <1>1. IInv /\ [Next]_vars => IInv'
    BY StepFacts
  <1> QED
    BY InitIInv, <1>1, PTL DEF Spec

\* A session implements the FIFO channel for any senders, capacities and
\* shutdowns: pongs that overtake the write queue can stop it, but what it
\* delivers is in order and without gaps (noise.rs:160-179, lib.rs:371-412).
THEOREM ImplementsFifoHolds == Spec => ImplementsFifo
  <1>1. Init => Fifo!Init
    BY DEF Init, Fifo!Init
  <1>2. IInv /\ [Next]_vars => [Fifo!Next]_(Fifo!vars)
    BY StepFacts
  <1> QED
    BY <1>1, <1>2, Invariance, PTL DEF Spec, ImplementsFifo, Fifo!Spec

-----------------------------------------------------------------------------
(* No frame is duplicated and none is lost. *)

\* The elements of a queue, and that they are all different.
Elems(q) == {q[i] : i \in 1..Len(q)}
Distinct(q) == \A i, j \in 1..Len(q) : q[i] = q[j] => i = j

InTasks(e) == {task[s].frame : s \in {r \in Senders : At[r] = e /\ task[r].at = "enqueue"}}
InLoop(e) == {f \in {loop[e].frame} : loop[e].at = "sending"}

Stages == {"task", "queue", "loop", "conn", "received", "rejected"}

\* The frames of e's direction that are at stage k of their way.
Held(e, k) ==
    CASE k = "task"     -> InTasks(e)
      [] k = "queue"    -> Elems(queue[e])
      [] k = "loop"     -> InLoop(e)
      [] k = "conn"     -> Elems(conn[Other[e]])
      [] k = "received" -> Elems(received[Other[e]])
      [] OTHER          -> rejected[Other[e]]

Running == \A d \in Endpoints : loop[d] # Done

\* The stages of a direction share no frame and hold only frames that were
\* made, and all of them while both loops run.
PlacedAt(e) ==
    /\ \A k, l \in Stages : k # l => Held(e, k) \cap Held(e, l) = {}
    /\ \A k \in Stages : Held(e, k) \subseteq Made(e)
    /\ Running => \A f \in Made(e) : \E k \in Stages : f \in Held(e, k)

\* No stage holds a frame twice.
OnceTasks ==
    \A s, r \in Senders : /\ At[s] = At[r] /\ task[s].frame = task[r].frame
                          /\ task[s].at = "enqueue" /\ task[r].at = "enqueue"
                          => s = r

OnceEach ==
    /\ OnceTasks
    /\ \A e \in Endpoints : Distinct(queue[e]) /\ Distinct(conn[e]) /\ Distinct(received[e])

FramesIInv ==
    /\ IInv
    /\ rejected \in [Endpoints -> SUBSET Frames]
    /\ \A e \in Endpoints : PlacedAt(e)
    /\ OnceEach

\* What a step may do to the frames of a direction: leave them where they are,
\* move one on, add one that was just made, or lose one when a loop has ended.
Kept(e) == Made(e)' = Made(e) /\ \A k \in Stages : Held(e, k)' = Held(e, k)

Moved(e, f, a, b) ==
    /\ a \in Stages /\ b \in Stages /\ a # b /\ f \in Held(e, a)
    /\ Made(e)' = Made(e)
    /\ Held(e, a)' = Held(e, a) \ {f} /\ Held(e, b)' = Held(e, b) \cup {f}
    /\ \A k \in Stages \ {a, b} : Held(e, k)' = Held(e, k)

Added(e, f, a) ==
    /\ a \in Stages /\ f \notin Made(e)
    /\ Made(e)' = Made(e) \cup {f}
    /\ Held(e, a)' = Held(e, a) \cup {f}
    /\ \A k \in Stages \ {a} : Held(e, k)' = Held(e, k)

Lost(e, f, a) ==
    /\ ~Running' /\ a \in Stages
    /\ Made(e)' = Made(e)
    /\ Held(e, a)' = Held(e, a) \ {f}
    /\ \A k \in Stages \ {a} : Held(e, k)' = Held(e, k)

Flow(e) ==
    \/ Kept(e)
    \/ \E f, a, b : Moved(e, f, a, b)
    \/ \E f, a : Added(e, f, a)
    \/ \E f, a : Lost(e, f, a)

\* Appending to a queue adds the element and, if it is new, keeps the elements
\* different.
LEMMA AppendElems ==
    ASSUME NEW S, NEW q \in Seq(S), NEW x \in S
    PROVE  /\ Elems(Append(q, x)) = Elems(q) \cup {x}
           /\ Distinct(q) /\ x \notin Elems(q) => Distinct(Append(q, x))
  <1>1. /\ Len(q) \in Nat /\ Len(Append(q, x)) = Len(q) + 1
        /\ Append(q, x)[Len(q) + 1] = x
        /\ \A i \in 1..Len(q) : Append(q, x)[i] = q[i]
    BY SMTT(30)
  <1> DEFINE n == Len(q)
             r == Append(q, x)
  <1> HIDE DEF n, r
  <1>2. n \in Nat /\ Len(r) = n + 1 /\ r[n + 1] = x /\ \A i \in 1..n : r[i] = q[i]
    BY <1>1 DEF n, r
  <1>3. 1..(n + 1) = 1..n \cup {n + 1}
    BY <1>2, SMTT(30)
  <1>4. Elems(r) = Elems(q) \cup {x}
    BY <1>2, <1>3, ZenonT(60) DEF Elems, n
  <1>5. ASSUME Distinct(q), x \notin Elems(q), NEW i \in 1..(n + 1), NEW j \in 1..(n + 1),
               r[i] = r[j]
        PROVE  i = j
    BY <1>2, <1>3, <1>5 DEF Distinct, Elems, n
  <1>6. Distinct(q) /\ x \notin Elems(q) => Distinct(r)
    BY <1>2, <1>5 DEF Distinct
  <1> QED
    BY <1>4, <1>6 DEF r

\* Taking the first of different elements leaves exactly the others.
LEMMA TailElems ==
    ASSUME NEW S, NEW q \in Seq(S), q # <<>>, Distinct(q)
    PROVE  /\ Head(q) \in Elems(q)
           /\ Elems(Tail(q)) = Elems(q) \ {Head(q)}
           /\ Distinct(Tail(q))
  <1> DEFINE n == Len(q)
             r == Tail(q)
  <1>1. /\ n \in Nat /\ n > 0 /\ Len(r) = n - 1 /\ Head(q) = q[1] /\ 1 \in 1..n
        /\ \A i \in 1..(n - 1) : r[i] = q[i + 1] /\ i + 1 \in 1..n /\ i + 1 # 1
        /\ \A j \in 1..n : j # 1 => j - 1 \in 1..(n - 1) /\ (j - 1) + 1 = j
    BY SMTT(30)
  <1> HIDE DEF n, r
  <1>2. ASSUME NEW i \in 1..(n - 1) PROVE r[i] \in Elems(q) /\ r[i] # Head(q)
    BY <1>1, ZenonT(60) DEF Distinct, Elems, n
  <1>3. ASSUME NEW y \in Elems(q), y # Head(q) PROVE y \in Elems(r)
    <2>1. PICK j \in 1..n : y = q[j]
      BY DEF Elems, n
    <2>2. j - 1 \in 1..(n - 1) /\ r[j - 1] = q[j]
      BY <1>1, <1>3, <2>1
    <2> QED
      BY <1>1, <2>1, <2>2 DEF Elems
  <1>4. ASSUME NEW y \in Elems(r) PROVE y \in Elems(q) \ {Head(q)}
    <2>1. PICK i \in 1..(n - 1) : y = r[i]
      BY <1>1 DEF Elems
    <2> QED
      BY <1>2, <2>1
  <1>6. Elems(r) = Elems(q) \ {Head(q)}
    BY <1>3, <1>4
  <1>5. ASSUME NEW i \in 1..(n - 1), NEW j \in 1..(n - 1), r[i] = r[j] PROVE i = j
    <2>1. i + 1 = j + 1
      BY <1>1, <1>5 DEF Distinct, n
    <2> QED
      BY <1>1, <2>1, SMTT(30)
  <1> QED
    BY <1>1, <1>5, <1>6 DEF Elems, Distinct, n, r

\* The stages by name, before and after a step.
LEMMA HeldAt ==
    ASSUME NEW e \in Endpoints
    PROVE  /\ Held(e, "task") = InTasks(e) /\ Held(e, "task")' = InTasks(e)'
           /\ Held(e, "queue") = Elems(queue[e]) /\ Held(e, "queue")' = Elems(queue'[e])
           /\ Held(e, "loop") = InLoop(e) /\ Held(e, "loop")' = InLoop(e)'
           /\ Held(e, "conn") = Elems(conn[Other[e]])
           /\ Held(e, "conn")' = Elems(conn'[Other[e]])
           /\ Held(e, "received") = Elems(received[Other[e]])
           /\ Held(e, "received")' = Elems(received'[Other[e]])
           /\ Held(e, "rejected") = rejected[Other[e]]
           /\ Held(e, "rejected")' = rejected'[Other[e]]
  BY DEF Held

\* A step that touches none of the stages of a direction.
LEMMA KeptBy ==
    ASSUME NEW g \in Endpoints,
           Made(g)' = Made(g), InTasks(g)' = InTasks(g), InLoop(g)' = InLoop(g),
           queue'[g] = queue[g], conn'[Other[g]] = conn[Other[g]],
           received'[Other[g]] = received[Other[g]], rejected'[Other[g]] = rejected[Other[g]]
    PROVE  Kept(g)
  BY HeldAt, SMTT(30) DEF Kept, Stages

\* Two stages of a direction never hold the same frame.
LEMMA Apart ==
    ASSUME FramesIInv, NEW e \in Endpoints, NEW k \in Stages, NEW l \in Stages, k # l,
           NEW f \in Held(e, k)
    PROVE  f \notin Held(e, l)
  BY DEF FramesIInv, PlacedAt

\* A step that touches one direction only.
LEMMA FlowsAt ==
    ASSUME NEW e \in Endpoints, \A g \in Endpoints : g # e => Kept(g),
           \/ \E f, a, b : Moved(e, f, a, b)
           \/ \E f, a : Added(e, f, a)
           \/ \E f, a : Lost(e, f, a)
    PROVE  \A g \in Endpoints : Flow(g)
  BY DEF Flow

\* What each kind of step does to a direction keeps its frames placed.
LEMMA PlacedKept ==
    ASSUME NEW e \in Endpoints, PlacedAt(e), Running' => Running, Flow(e)
    PROVE  PlacedAt(e)'
  <1>1. CASE Kept(e)
    BY <1>1, SMTT(30) DEF Kept, PlacedAt
  <1>2. ASSUME NEW f, NEW a, NEW b, Moved(e, f, a, b) PROVE PlacedAt(e)'
    <2>1. ASSUME NEW k \in Stages, NEW l \in Stages, k # l
          PROVE  Held(e, k)' \cap Held(e, l)' = {}
      BY <1>2, <2>1, SMTT(30) DEF Moved, PlacedAt
    <2>2. \A k \in Stages : Held(e, k)' \subseteq Made(e)'
      BY <1>2, SMTT(30) DEF Moved, PlacedAt
    <2>3. ASSUME Running', NEW g \in Made(e)' PROVE \E k \in Stages : g \in Held(e, k)'
      BY <1>2, <2>3, SMTT(30) DEF Moved, PlacedAt
    <2> QED
      BY <2>1, <2>2, <2>3 DEF PlacedAt
  <1>3. ASSUME NEW f, NEW a, Added(e, f, a) PROVE PlacedAt(e)'
    <2>1. ASSUME NEW k \in Stages, NEW l \in Stages, k # l
          PROVE  Held(e, k)' \cap Held(e, l)' = {}
      BY <1>3, <2>1, SMTT(30) DEF Added, PlacedAt
    <2>2. \A k \in Stages : Held(e, k)' \subseteq Made(e)'
      BY <1>3, SMTT(30) DEF Added, PlacedAt
    <2>3. ASSUME Running', NEW g \in Made(e)' PROVE \E k \in Stages : g \in Held(e, k)'
      BY <1>3, <2>3, SMTT(30) DEF Added, PlacedAt
    <2> QED
      BY <2>1, <2>2, <2>3 DEF PlacedAt
  <1>4. ASSUME NEW f, NEW a, Lost(e, f, a) PROVE PlacedAt(e)'
    <2>1. ASSUME NEW k \in Stages, NEW l \in Stages, k # l
          PROVE  Held(e, k)' \cap Held(e, l)' = {}
      BY <1>4, <2>1, SMTT(30) DEF Lost, PlacedAt
    <2>2. \A k \in Stages : Held(e, k)' \subseteq Made(e)'
      BY <1>4, SMTT(30) DEF Lost, PlacedAt
    <2> QED
      BY <1>4, <2>1, <2>2 DEF Lost, PlacedAt
  <1> QED
    BY <1>1, <1>2, <1>3, <1>4 DEF Flow

\* A task that stops holding a frame gives up that one and no other.
LEMMA TaskFrees ==
    ASSUME TypeOK, OnceTasks, NEW s \in Senders, NEW t, t.at # "enqueue",
           task' = [task EXCEPT ![s] = t]
    PROVE  /\ OnceTasks'
           /\ task[s].at = "enqueue" =>
                  /\ task[s].frame \in InTasks(At[s])
                  /\ InTasks(At[s])' = InTasks(At[s]) \ {task[s].frame}
           /\ \A g \in Endpoints : g # At[s] \/ task[s].at # "enqueue" => InTasks(g)' = InTasks(g)
  <1>1. task'[s] = t /\ \A r \in Senders : r # s => task'[r] = task[r]
    BY DEF TypeOK
  <1>2. OnceTasks'
    BY <1>1, SMTT(30) DEF OnceTasks
  <1>3. ASSUME NEW g \in Endpoints, NEW f
        PROVE  f \in InTasks(g)' <=> \E r \in Senders : /\ r # s /\ At[r] = g /\ task[r].frame = f
                                                        /\ task[r].at = "enqueue"
    BY <1>1, ZenonT(60) DEF InTasks
  <1>4. ASSUME NEW g \in Endpoints, NEW f
        PROVE  f \in InTasks(g) <=> \E r \in Senders : /\ At[r] = g /\ task[r].frame = f
                                                       /\ task[r].at = "enqueue"
    BY DEF InTasks
  <1>5. At[s] \in Endpoints
    BY SessionAssumption
  <1>6. ASSUME task[s].at = "enqueue" PROVE task[s].frame \in InTasks(At[s])
    BY <1>4, <1>5, <1>6, ZenonT(60)
  <1>7. ASSUME task[s].at = "enqueue", NEW f
        PROVE  f \in InTasks(At[s])' <=> f \in InTasks(At[s]) /\ f # task[s].frame
    BY <1>3, <1>4, <1>5, <1>7, SMTT(30) DEF OnceTasks
  <1>8. ASSUME NEW g \in Endpoints, g # At[s] \/ task[s].at # "enqueue", NEW f
        PROVE  f \in InTasks(g)' <=> f \in InTasks(g)
    BY <1>3, <1>4, <1>8, SMTT(30)
  <1>9. ASSUME task[s].at = "enqueue" PROVE InTasks(At[s])' = InTasks(At[s]) \ {task[s].frame}
    BY <1>7, <1>9
  <1>10. ASSUME NEW g \in Endpoints, g # At[s] \/ task[s].at # "enqueue"
         PROVE  InTasks(g)' = InTasks(g)
    BY <1>8, <1>10
  <1> QED
    BY <1>2, <1>6, <1>9, <1>10

\* A task that takes a frame no other holds is the only one that holds it.
LEMMA TaskTakes ==
    ASSUME TypeOK, OnceTasks, NEW s \in Senders, task[s].at # "enqueue",
           NEW f, f \notin InTasks(At[s]),
           task' = [task EXCEPT ![s] = [at |-> "enqueue", frame |-> f]]
    PROVE  /\ OnceTasks'
           /\ InTasks(At[s])' = InTasks(At[s]) \cup {f}
           /\ \A g \in Endpoints : g # At[s] => InTasks(g)' = InTasks(g)
  <1>1. /\ task'[s].at = "enqueue" /\ task'[s].frame = f
        /\ \A r \in Senders : r # s => task'[r] = task[r]
    BY DEF TypeOK
  <1>2. \A r \in Senders : At[r] = At[s] /\ task[r].at = "enqueue" => task[r].frame # f
    BY DEF InTasks
  <1>3. OnceTasks'
    BY <1>1, <1>2, SMTT(30) DEF OnceTasks
  <1>4. ASSUME NEW g \in Endpoints, NEW h
        PROVE  h \in InTasks(g)' <=> \E r \in Senders : /\ At[r] = g /\ task'[r].frame = h
                                                        /\ task'[r].at = "enqueue"
    BY DEF InTasks
  <1>5. ASSUME NEW g \in Endpoints, NEW h
        PROVE  h \in InTasks(g) <=> \E r \in Senders : /\ At[r] = g /\ task[r].frame = h
                                                       /\ task[r].at = "enqueue"
    BY DEF InTasks
  <1>6. At[s] \in Endpoints
    BY SessionAssumption
  <1>7. ASSUME NEW h PROVE h \in InTasks(At[s])' <=> h \in InTasks(At[s]) \/ h = f
    BY <1>1, <1>4, <1>5, <1>6, SMTT(30)
  <1>8. ASSUME NEW g \in Endpoints, g # At[s], NEW h PROVE h \in InTasks(g)' <=> h \in InTasks(g)
    BY <1>1, <1>4, <1>5, <1>8, SMTT(30)
  <1>9. InTasks(At[s])' = InTasks(At[s]) \cup {f}
    BY <1>7
  <1>10. \A g \in Endpoints : g # At[s] => InTasks(g)' = InTasks(g)
    BY <1>8
  <1> QED
    BY <1>3, <1>9, <1>10

\* What the loops hold when the one of e moves on.
LEMMA LoopChanges ==
    ASSUME TypeOK, NEW e \in Endpoints, NEW l, loop' = [loop EXCEPT ![e] = l]
    PROVE  /\ loop[e].at = "sending" => InLoop(e) = {loop[e].frame}
           /\ loop[e].at # "sending" => InLoop(e) = {}
           /\ l.at = "sending" => InLoop(e)' = {l.frame}
           /\ l.at # "sending" => InLoop(e)' = {}
           /\ \A g \in Endpoints : g # e => loop'[g] = loop[g] /\ InLoop(g)' = InLoop(g)
           /\ loop[e] # Done /\ Running' => Running
  <1>1. loop'[e] = l /\ \A g \in Endpoints : g # e => loop'[g] = loop[g]
    BY DEF TypeOK
  <1>2. \A g \in Endpoints : g # e => InLoop(g)' = InLoop(g)
    BY <1>1 DEF InLoop
  <1>3. /\ loop[e].at = "sending" => InLoop(e) = {loop[e].frame}
        /\ loop[e].at # "sending" => InLoop(e) = {}
    BY DEF InLoop
  <1>4. /\ l.at = "sending" => InLoop(e)' = {l.frame}
        /\ l.at # "sending" => InLoop(e)' = {}
    BY <1>1 DEF InLoop
  <1>5. loop[e] # Done /\ Running' => Running
    BY <1>1 DEF Running
  <1> QED
    BY <1>1, <1>2, <1>3, <1>4, <1>5

\* What every step does: it keeps the stages free of duplicates and disjoint,
\* and brings no loop back to life.
FramesKept ==
    /\ rejected' \in [Endpoints -> SUBSET Frames]
    /\ \A g \in Endpoints : Flow(g)
    /\ OnceEach'
    /\ Running' => Running

\* A frame that is encrypted is new, for its nonce is (noise.rs:160-168).
LEMMA EncryptsNew ==
    ASSUME IInv, NEW e \in Endpoints, NEW f \in Frames, Encrypts(e, f)
    PROVE  /\ f \notin Made(e)
           /\ Made(e)' = Made(e) \cup {f}
           /\ \A g \in Endpoints : g # e => Made(g)' = Made(g)
  <1>1. sent[e] \in Seq(Frames) /\ Len(sent[e]) \in Nat
    BY SMTT(30) DEF IInv, TypeOK
  <1>2. /\ sent'[e] = Append(sent[e], f)
        /\ \A g \in Endpoints : g # e => sent'[g] = sent[g]
    BY DEF Encrypts, IInv, TypeOK
  <1>3. f \notin Made(e)
    <2> SUFFICES ASSUME NEW i \in 1..Len(sent[e]), sent[e][i] = f PROVE FALSE
      BY DEF Made
    <2>1. i - 1 = Len(sent[e])
      BY DEF IInv, Numbered, Encrypts
    <2> QED
      BY <1>1, <2>1, SMTT(30)
  <1>4. Elems(sent'[e]) = Elems(sent[e]) \cup {f}
    BY <1>1, <1>2, AppendElems, SMTT(30)
  <1> QED
    BY <1>2, <1>3, <1>4, SMTT(30) DEF Made, Elems

\* encrypt_payload adds a frame at a task (lib.rs:239-251).
LEMMA encrypt_payloadFrames ==
    ASSUME FramesIInv, NEW s \in Senders, encrypt_payload(s)
    PROVE  FramesKept
  <1> DEFINE e == At[s]
             f == encrypt(e, Kind[s])
  <1>1. e \in Endpoints /\ Kind[s] \in {"data", "gossip", "ping"} /\ IInv /\ TypeOK
    BY SessionAssumption DEF FramesIInv, IInv
  <1>2. f \in Frames /\ Encrypts(e, f)
    BY <1>1, SMTT(30) DEF encrypt_payload, encrypt, Encrypts, Frames, TypeOK
  <1>3. /\ task' = [task EXCEPT ![s] = [at |-> "enqueue", frame |-> f]] /\ task[s].at # "enqueue"
        /\ UNCHANGED <<received, rejected, queue, conn, loop>>
    BY SMTT(30) DEF encrypt_payload, Idle
  <1> HIDE DEF f, e
  <1>4. /\ f \notin Made(e)
        /\ Made(e)' = Made(e) \cup {f}
        /\ \A g \in Endpoints : g # e => Made(g)' = Made(g)
    BY <1>1, <1>2, EncryptsNew
  <1>5. f \notin InTasks(e)
    <2>1. Held(e, "task") = InTasks(e) /\ "task" \in Stages
      BY <1>1, HeldAt DEF Stages
    <2>2. PlacedAt(e)
      BY <1>1 DEF FramesIInv
    <2>3. InTasks(e) \subseteq Made(e)
      BY <2>1, <2>2 DEF PlacedAt
    <2> QED
      BY <1>4, <2>3
  <1>6. /\ OnceTasks'
        /\ InTasks(e)' = InTasks(e) \cup {f}
        /\ \A g \in Endpoints : g # e => InTasks(g)' = InTasks(g)
    BY <1>1, <1>3, <1>5, TaskTakes DEF FramesIInv, OnceEach, e
  <1>7. /\ \A g \in Endpoints : InLoop(g)' = InLoop(g)
        /\ Running' => Running
    BY <1>3 DEF InLoop, Running
  <1>8. Added(e, f, "task")
    BY <1>1, <1>3, <1>4, <1>6, <1>7, HeldAt, SMTT(30) DEF Added, Stages
  <1>9. ASSUME NEW g \in Endpoints, g # e PROVE Kept(g)
    BY <1>3, <1>4, <1>6, <1>7, <1>9, OtherType, KeptBy
  <1>10. OnceEach'
    BY <1>3, <1>6 DEF FramesIInv, OnceEach
  <1> QED
    BY <1>3, <1>7, <1>8, <1>9, <1>10 DEF FramesKept, Flow, FramesIInv

\* write_tx_send moves it to the queue, or gives it up with the loop
\* (lib.rs:252).
LEMMA write_tx_sendFrames ==
    ASSUME FramesIInv, NEW s \in Senders, write_tx_send(s)
    PROVE  FramesKept
  <1> DEFINE e == At[s]
             f == task[s].frame
  <1>1. e \in Endpoints /\ IInv /\ TypeOK
    BY SessionAssumption DEF FramesIInv, IInv
  <1>2. /\ task[s].at = "enqueue"
        /\ task' = [task EXCEPT ![s] = Idle]
        /\ \/ loop[e] = Done /\ UNCHANGED queue
           \/ queue' = [queue EXCEPT ![e] = Append(@, f)]
        /\ UNCHANGED <<sent, received, rejected, conn, loop>>
    BY DEF write_tx_send
  <1>3. f \in Frames
    <2>1. task[s] \in [at : {"enqueue"}, frame : Frames]
      BY <1>1, <1>2, SMTT(30) DEF TypeOK, Spawned, Idle, Done
    <2> QED
      BY <2>1
  <1>4. /\ OnceTasks'
        /\ f \in InTasks(e)
        /\ InTasks(e)' = InTasks(e) \ {f}
        /\ \A g \in Endpoints : g # e => InTasks(g)' = InTasks(g)
    BY <1>1, <1>2, TaskFrees DEF FramesIInv, OnceEach, Idle
  <1> HIDE DEF f, e
  <1>5. /\ \A g \in Endpoints : InLoop(g)' = InLoop(g) /\ Made(g)' = Made(g)
        /\ Running' => Running
    BY <1>2 DEF InLoop, Running, Made
  <1>6. f \notin Elems(queue[e])
    <2>1. f \in Held(e, "task") /\ Held(e, "queue") = Elems(queue[e])
      BY <1>1, <1>4, HeldAt
    <2> QED
      BY <1>1, <2>1, Apart DEF Stages
  <1>7. CASE loop[e] = Done /\ UNCHANGED queue
    <2>1. ~Running'
      BY <1>1, <1>2, <1>7 DEF Running
    <2>2. Lost(e, f, "task")
      BY <1>1, <1>2, <1>4, <1>5, <1>7, <2>1, HeldAt, SMTT(30) DEF Lost, Stages
    <2>3. ASSUME NEW g \in Endpoints, g # e PROVE Kept(g)
      BY <1>2, <1>4, <1>5, <1>7, <2>3, OtherType, KeptBy
    <2>4. OnceEach'
      BY <1>2, <1>4, <1>7 DEF FramesIInv, OnceEach
    <2> QED
      BY <1>2, <1>5, <2>2, <2>3, <2>4 DEF FramesKept, Flow, FramesIInv
  <1>8. CASE queue' = [queue EXCEPT ![e] = Append(@, f)]
    <2>1. /\ queue'[e] = Append(queue[e], f)
          /\ \A g \in Endpoints : g # e => queue'[g] = queue[g]
          /\ queue[e] \in Seq(Frames)
      BY <1>1, <1>8 DEF TypeOK
    <2>2. Elems(queue'[e]) = Elems(queue[e]) \cup {f} /\ Distinct(queue'[e])
      BY <1>1, <1>3, <1>6, <2>1, AppendElems, SMTT(30) DEF FramesIInv, OnceEach
    <2>3. Moved(e, f, "task", "queue")
      BY <1>1, <1>2, <1>4, <1>5, <2>2, HeldAt, SMTT(30) DEF Moved, Stages
    <2>4. ASSUME NEW g \in Endpoints, g # e PROVE Kept(g)
      BY <1>2, <1>4, <1>5, <2>1, <2>4, OtherType, KeptBy
    <2>5. OnceEach'
      BY <1>2, <1>4, <2>1, <2>2 DEF FramesIInv, OnceEach
    <2>6. \A g \in Endpoints : Flow(g)
      BY <1>1, <2>3, <2>4, FlowsAt
    <2> QED
      BY <1>2, <1>5, <2>5, <2>6 DEF FramesKept, FramesIInv
  <1> QED
    BY <1>2, <1>7, <1>8

\* write_rx_recv moves it to the session loop (lib.rs:371-373).
LEMMA write_rx_recvFrames ==
    ASSUME FramesIInv, NEW e \in Endpoints, write_rx_recv(e)
    PROVE  FramesKept
  <1> DEFINE f == Head(queue[e])
             l == [at |-> "sending", frame |-> f]
  <1>1. TypeOK /\ queue[e] \in Seq(Frames)
    BY DEF FramesIInv, IInv, TypeOK
  <1>2. /\ loop[e] = Select /\ queue[e] # <<>>
        /\ loop' = [loop EXCEPT ![e] = l]
        /\ queue' = [queue EXCEPT ![e] = Tail(@)]
        /\ UNCHANGED <<sent, received, rejected, conn, task>>
    BY DEF write_rx_recv
  <1>3. /\ f \in Elems(queue[e])
        /\ Elems(Tail(queue[e])) = Elems(queue[e]) \ {f}
        /\ Distinct(Tail(queue[e]))
    BY <1>1, <1>2, TailElems DEF FramesIInv, OnceEach
  <1>4. /\ queue'[e] = Tail(queue[e])
        /\ \A g \in Endpoints : g # e => queue'[g] = queue[g]
    BY <1>1, <1>2, ZenonT(60) DEF TypeOK
  <1>5. l.at = "sending" /\ l.frame = f /\ l # Done /\ loop[e] # Done /\ loop[e].at # "sending"
    BY <1>2, SMTT(30) DEF Done, Select
  <1> HIDE DEF f, l
  <1>6. /\ InLoop(e) = {} /\ InLoop(e)' = {f}
        /\ \A g \in Endpoints : g # e => InLoop(g)' = InLoop(g)
        /\ Running' => Running
    BY <1>1, <1>2, <1>5, LoopChanges
  <1>7. \A g \in Endpoints : InTasks(g)' = InTasks(g) /\ Made(g)' = Made(g)
    BY <1>2 DEF InTasks, Made
  <1>8. Moved(e, f, "queue", "loop")
    BY <1>2, <1>3, <1>4, <1>6, <1>7, HeldAt, SMTT(30) DEF Moved, Stages
  <1>9. ASSUME NEW g \in Endpoints, g # e PROVE Kept(g)
    BY <1>2, <1>4, <1>6, <1>7, <1>9, OtherType, KeptBy
  <1>10. OnceEach'
    BY <1>2, <1>3, <1>4 DEF FramesIInv, OnceEach, OnceTasks
  <1> QED
    BY <1>2, <1>6, <1>8, <1>9, <1>10, FlowsAt DEF FramesKept, FramesIInv

\* conn_send moves it to the connection, or loses it with the peer
\* (lib.rs:374-382).
LEMMA conn_sendFrames ==
    ASSUME FramesIInv, NEW e \in Endpoints, conn_send(e)
    PROVE  FramesKept
  <1> DEFINE o == Other[e]
             f == loop[e].frame
  <1>1. /\ TypeOK /\ o \in Endpoints /\ o # e
        /\ \A g \in Endpoints : Other[g] \in Endpoints /\ (g # e => Other[g] # o)
    BY SessionAssumption DEF FramesIInv, IInv
  <1>2. /\ loop[e].at = "sending"
        /\ UNCHANGED <<sent, received, rejected, queue, task>>
    BY DEF conn_send
  <1>3. f \in Frames /\ loop[e] # Done
    <2>1. loop[e] \in [at : {"sending"}, frame : Frames]
      BY <1>1, <1>2, SMTT(30) DEF TypeOK, Select, Ponging, Done
    <2> QED
      BY <1>2, <2>1, SMTT(30) DEF Done
  <1>4. \/ /\ loop[o] = Done /\ UNCHANGED conn
           /\ \E l \in {Done, Select} : loop' = [loop EXCEPT ![e] = l]
        \/ /\ conn' = [conn EXCEPT ![o] = Append(@, f)]
           /\ loop' = [loop EXCEPT ![e] = Select]
    BY DEF conn_send
  <1> HIDE DEF o, f
  <1>5. Done.at # "sending" /\ Select.at # "sending" /\ Select # Done
    BY DEF Done, Select
  <1>6. \A g \in Endpoints : InTasks(g)' = InTasks(g) /\ Made(g)' = Made(g)
    BY <1>2 DEF InTasks, Made
  <1>7. CASE loop[o] = Done /\ UNCHANGED conn /\ \E l \in {Done, Select} : loop' = [loop EXCEPT ![e] = l]
    <2>1. PICK l \in {Done, Select} : loop' = [loop EXCEPT ![e] = l]
      BY <1>7
    <2>2. /\ InLoop(e) = {f} /\ InLoop(e)' = {}
          /\ \A g \in Endpoints : g # e => InLoop(g)' = InLoop(g)
          /\ loop'[o] = Done
      BY <1>1, <1>2, <1>5, <1>7, <2>1, LoopChanges, ZenonT(60) DEF f
    <2>3. ~Running'
      BY <1>1, <2>2 DEF Running
    <2>4. Lost(e, f, "loop")
      BY <1>2, <1>6, <1>7, <2>2, <2>3, HeldAt, SMTT(30) DEF Lost, Stages
    <2>5. ASSUME NEW g \in Endpoints, g # e PROVE Kept(g)
      BY <1>2, <1>6, <1>7, <2>2, <2>5, OtherType, KeptBy
    <2>6. OnceEach'
      BY <1>2, <1>7 DEF FramesIInv, OnceEach, OnceTasks
    <2> QED
      BY <1>2, <2>3, <2>4, <2>5, <2>6, FlowsAt DEF FramesKept, FramesIInv
  <1>8. CASE conn' = [conn EXCEPT ![o] = Append(@, f)] /\ loop' = [loop EXCEPT ![e] = Select]
    <2>1. /\ InLoop(e) = {f} /\ InLoop(e)' = {}
          /\ \A g \in Endpoints : g # e => InLoop(g)' = InLoop(g)
          /\ Running' => Running
      BY <1>1, <1>2, <1>3, <1>5, <1>8, LoopChanges DEF f
    <2>2. /\ conn'[o] = Append(conn[o], f)
          /\ \A g \in Endpoints : g # o => conn'[g] = conn[g]
          /\ conn[o] \in Seq(Frames)
      BY <1>1, <1>8 DEF TypeOK
    <2>3. f \notin Elems(conn[o])
      BY <2>1, HeldAt, Apart, ZenonT(60) DEF Stages, o
    <2>4. Elems(conn'[o]) = Elems(conn[o]) \cup {f} /\ Distinct(conn'[o])
      BY <1>1, <1>3, <2>2, <2>3, AppendElems, SMTT(30) DEF FramesIInv, OnceEach
    <2>5. Moved(e, f, "loop", "conn")
      BY <1>2, <1>6, <2>1, <2>4, HeldAt, SMTT(30) DEF Moved, Stages, o
    <2>6. ASSUME NEW g \in Endpoints, g # e PROVE Kept(g)
      BY <1>1, <1>2, <1>6, <2>1, <2>2, <2>6, OtherType, KeptBy
    <2>7. OnceEach'
      BY <1>2, <2>2, <2>4 DEF FramesIInv, OnceEach, OnceTasks
    <2> QED
      BY <1>2, <2>1, <2>5, <2>6, <2>7, FlowsAt DEF FramesKept, FramesIInv
  <1> QED
    BY <1>4, <1>7, <1>8

\* conn_recv moves it to the frames opened, or to those rejected
\* (lib.rs:387-397).
LEMMA conn_recvFrames ==
    ASSUME FramesIInv, NEW e \in Endpoints, conn_recv(e)
    PROVE  FramesKept
  <1> DEFINE o == Other[e]
             f == Head(conn[e])
  <1>1. /\ TypeOK /\ o \in Endpoints /\ Other[o] = e /\ conn[e] \in Seq(Frames)
        /\ received[e] \in Seq(Frames)
        /\ \A g \in Endpoints : Other[g] \in Endpoints /\ (g # o => Other[g] # e)
    BY SessionAssumption DEF FramesIInv, IInv, TypeOK
  <1>2. /\ loop[e] = Select /\ conn[e] # <<>>
        /\ conn' = [conn EXCEPT ![e] = Tail(@)]
        /\ UNCHANGED <<sent, queue, task>>
        /\ \/ rejected' = [rejected EXCEPT ![e] = @ \cup {f}] /\ UNCHANGED <<received, loop>>
           \/ /\ received' = [received EXCEPT ![e] = Append(@, f)] /\ UNCHANGED rejected
              /\ \E l \in {Ponging, Select} : loop' = [loop EXCEPT ![e] = l]
    BY DEF conn_recv
  <1>3. /\ f \in Elems(conn[e])
        /\ Elems(Tail(conn[e])) = Elems(conn[e]) \ {f}
        /\ Distinct(Tail(conn[e]))
    BY <1>1, <1>2, TailElems DEF FramesIInv, OnceEach
  <1>4. f \in Frames
    BY <1>1, <1>2, HeadTail
  <1> HIDE DEF f, o
  <1>5. /\ conn'[e] = Tail(conn[e])
        /\ \A g \in Endpoints : g # e => conn'[g] = conn[g]
    BY <1>1, <1>2 DEF TypeOK
  <1>6. \A g \in Endpoints : InTasks(g)' = InTasks(g) /\ Made(g)' = Made(g)
    BY <1>2 DEF InTasks, Made
  <1>7. /\ Ponging.at # "sending" /\ Select.at # "sending"
        /\ Ponging # Done /\ Select # Done
    BY DEF Ponging, Select, Done
  <1>8. CASE rejected' = [rejected EXCEPT ![e] = @ \cup {f}] /\ UNCHANGED <<received, loop>>
    <2>1. /\ rejected' \in [Endpoints -> SUBSET Frames]
          /\ rejected'[e] = rejected[e] \cup {f}
          /\ \A g \in Endpoints : g # e => rejected'[g] = rejected[g]
      BY <1>4, <1>8 DEF FramesIInv
    <2>2. /\ \A g \in Endpoints : InLoop(g)' = InLoop(g)
          /\ Running' => Running
      BY <1>8 DEF InLoop, Running
    <2>3. Moved(o, f, "conn", "rejected")
      BY <1>1, <1>2, <1>3, <1>5, <1>6, <1>8, <2>1, <2>2, HeldAt, SMTT(30) DEF Moved, Stages
    <2>4. ASSUME NEW g \in Endpoints, g # o PROVE Kept(g)
      BY <1>1, <1>2, <1>5, <1>6, <1>8, <2>1, <2>2, <2>4, OtherType, KeptBy, ZenonT(60)
    <2>5. OnceEach'
      BY <1>2, <1>3, <1>5, <1>8 DEF FramesIInv, OnceEach, OnceTasks
    <2> QED
      BY <1>1, <2>1, <2>2, <2>3, <2>4, <2>5, FlowsAt DEF FramesKept
  <1>9. CASE /\ received' = [received EXCEPT ![e] = Append(@, f)] /\ UNCHANGED rejected
             /\ \E l \in {Ponging, Select} : loop' = [loop EXCEPT ![e] = l]
    <2>1. PICK l \in {Ponging, Select} : loop' = [loop EXCEPT ![e] = l]
      BY <1>9
    <2>2. /\ \A g \in Endpoints : InLoop(g)' = InLoop(g)
          /\ Running' => Running
      <3>1. /\ InLoop(e) = {} /\ InLoop(e)' = {}
            /\ \A g \in Endpoints : g # e => InLoop(g)' = InLoop(g)
            /\ Running' => Running
        BY <1>1, <1>2, <1>7, <2>1, LoopChanges, ZenonT(60)
      <3> QED
        BY <3>1
    <2>3. /\ received'[e] = Append(received[e], f)
          /\ \A g \in Endpoints : g # e => received'[g] = received[g]
      BY <1>1, <1>9 DEF TypeOK
    <2>4. f \notin Elems(received[e])
      <3>1. f \in Held(o, "conn") /\ Held(o, "received") = Elems(received[e])
        BY <1>1, <1>3, HeldAt, ZenonT(60)
      <3> QED
        BY <1>1, <3>1, Apart DEF Stages
    <2>5. Elems(received'[e]) = Elems(received[e]) \cup {f} /\ Distinct(received'[e])
      BY <1>1, <1>4, <2>3, <2>4, AppendElems, SMTT(30) DEF FramesIInv, OnceEach
    <2>6. Moved(o, f, "conn", "received")
      BY <1>1, <1>2, <1>3, <1>5, <1>6, <1>9, <2>2, <2>5, HeldAt, SMTT(30) DEF Moved, Stages
    <2>7. ASSUME NEW g \in Endpoints, g # o PROVE Kept(g)
      BY <1>1, <1>2, <1>5, <1>6, <1>9, <2>2, <2>3, <2>7, OtherType, KeptBy
    <2>8. OnceEach'
      BY <1>2, <1>3, <1>5, <2>3, <2>5 DEF FramesIInv, OnceEach, OnceTasks
    <2> QED
      BY <1>1, <1>9, <2>2, <2>6, <2>7, <2>8, FlowsAt DEF FramesKept, FramesIInv
  <1> QED
    BY <1>2, <1>8, <1>9

\* encrypt_pong adds a frame at the session loop (lib.rs:470-486).
LEMMA encrypt_pongFrames ==
    ASSUME FramesIInv, NEW e \in Endpoints, encrypt_pong(e)
    PROVE  FramesKept
  <1> DEFINE f == encrypt(e, "pong")
             l == [at |-> "sending", frame |-> f]
  <1>1. IInv /\ TypeOK
    BY ZenonT(60) DEF FramesIInv, IInv
  <1>2. f \in Frames /\ Encrypts(e, f)
    BY <1>1, SMTT(30) DEF encrypt_pong, encrypt, Encrypts, Frames, TypeOK
  <1>3. /\ loop[e] = Ponging /\ loop' = [loop EXCEPT ![e] = l]
        /\ UNCHANGED <<received, rejected, queue, conn, task>>
    BY DEF encrypt_pong
  <1>4. l.at = "sending" /\ l.frame = f /\ loop[e] # Done /\ loop[e].at # "sending"
    BY <1>3, SMTT(30) DEF Done, Ponging
  <1> HIDE DEF f, l
  <1>5. /\ f \notin Made(e)
        /\ Made(e)' = Made(e) \cup {f}
        /\ \A g \in Endpoints : g # e => Made(g)' = Made(g)
    BY <1>1, <1>2, EncryptsNew
  <1>6. /\ InLoop(e) = {} /\ InLoop(e)' = {f}
        /\ \A g \in Endpoints : g # e => InLoop(g)' = InLoop(g)
        /\ Running' => Running
    BY <1>1, <1>3, <1>4, LoopChanges
  <1>7. \A g \in Endpoints : InTasks(g)' = InTasks(g)
    BY <1>3 DEF InTasks
  <1>8. Added(e, f, "loop")
    BY <1>3, <1>5, <1>6, <1>7, HeldAt, SMTT(30) DEF Added, Stages
  <1>9. ASSUME NEW g \in Endpoints, g # e PROVE Kept(g)
    BY <1>3, <1>5, <1>6, <1>7, <1>9, OtherType, KeptBy
  <1>10. OnceEach'
    BY <1>3 DEF FramesIInv, OnceEach, OnceTasks
  <1> QED
    BY <1>3, <1>6, <1>8, <1>9, <1>10, FlowsAt DEF FramesKept, FramesIInv

\* A background task that starts or ends holds no frame, and neither does a
\* loop that ends (lib.rs:413-418, 510, 543-545).
LEMMA QuietFrames ==
    ASSUME FramesIInv, UNCHANGED <<sent, received, rejected, queue, conn>>,
           \/ UNCHANGED <<task, loop>>
           \/ UNCHANGED task /\ \E e \in Endpoints : /\ loop[e] = Select
                                                     /\ loop' = [loop EXCEPT ![e] = Done]
           \/ UNCHANGED loop /\ \E s \in Senders, t \in {Idle, Done} :
                                   task[s] \in {Spawned, Idle} /\ task' = [task EXCEPT ![s] = t]
    PROVE  FramesKept
  <1>1. TypeOK
    BY DEF FramesIInv, IInv
  <1>2. /\ Done.at # "sending" /\ Select.at # "sending" /\ Select # Done
        /\ Done.at # "enqueue" /\ Idle.at # "enqueue" /\ Spawned.at # "enqueue"
    BY DEF Select, Done, Idle, Spawned
  <1>3. (\A g \in Endpoints : InTasks(g)' = InTasks(g)) /\ OnceTasks'
    <2>1. CASE UNCHANGED task
      BY <2>1, ZenonT(60) DEF InTasks, OnceTasks, OnceEach, FramesIInv
    <2>2. ASSUME NEW s \in Senders, NEW t \in {Idle, Done}, task[s] \in {Spawned, Idle},
                 task' = [task EXCEPT ![s] = t]
          PROVE  (\A g \in Endpoints : InTasks(g)' = InTasks(g)) /\ OnceTasks'
      <3>1. t.at # "enqueue" /\ task[s].at # "enqueue"
        BY <1>2, <2>2
      <3> QED
        BY <1>1, <2>2, <3>1, TaskFrees DEF OnceEach, FramesIInv
    <2> QED
      BY <2>1, <2>2
  <1>4. (\A g \in Endpoints : InLoop(g)' = InLoop(g)) /\ (Running' => Running)
    <2>1. CASE UNCHANGED loop
      BY <2>1 DEF InLoop, Running
    <2>2. ASSUME NEW e \in Endpoints, loop[e] = Select, loop' = [loop EXCEPT ![e] = Done]
          PROVE  (\A g \in Endpoints : InLoop(g)' = InLoop(g)) /\ (Running' => Running)
      <3>1. /\ InLoop(e) = {} /\ InLoop(e)' = {}
            /\ \A g \in Endpoints : g # e => InLoop(g)' = InLoop(g)
            /\ Running' => Running
        BY <1>1, <1>2, <2>2, LoopChanges
      <3> QED
        BY <3>1
    <2> QED
      BY <2>1, <2>2
  <1>5. ASSUME NEW g \in Endpoints PROVE Kept(g)
    <2>1. Made(g)' = Made(g)
      BY DEF Made
    <2> QED
      BY <1>3, <1>4, <2>1, OtherType, KeptBy
  <1>6. OnceEach'
    BY <1>3 DEF FramesIInv, OnceEach
  <1> QED
    BY <1>4, <1>5, <1>6 DEF FramesKept, Flow, FramesIInv

\* Every step keeps each frame at one place.
LEMMA FramesStep ==
    ASSUME FramesIInv, [Next]_vars
    PROVE  FramesIInv'
  <1>1. ASSUME NEW s \in Senders, encrypt_payload(s) PROVE FramesKept
    BY <1>1, encrypt_payloadFrames
  <1>2. ASSUME NEW s \in Senders, write_tx_send(s) PROVE FramesKept
    BY <1>2, write_tx_sendFrames
  <1>3. ASSUME NEW s \in Senders, worker_subscribe(s) \/ worker_end(s) PROVE FramesKept
    BY <1>3, QuietFrames DEF worker_subscribe, worker_end
  <1>4. ASSUME NEW e \in Endpoints, write_rx_recv(e) PROVE FramesKept
    BY <1>4, write_rx_recvFrames
  <1>5. ASSUME NEW e \in Endpoints, conn_send(e) PROVE FramesKept
    BY <1>5, conn_sendFrames
  <1>6. ASSUME NEW e \in Endpoints, conn_recv(e) PROVE FramesKept
    BY <1>6, conn_recvFrames
  <1>7. ASSUME NEW e \in Endpoints, encrypt_pong(e) PROVE FramesKept
    BY <1>7, encrypt_pongFrames
  <1>8. ASSUME NEW e \in Endpoints, exit_loop(e) \/ shutdown_signal(e) \/ shutdown_clear(e)
        PROVE  FramesKept
    BY <1>8, QuietFrames DEF exit_loop, shutdown_signal, shutdown_clear
  <1>9. ASSUME UNCHANGED vars PROVE FramesKept
    BY <1>9, QuietFrames DEF vars
  <1>10. FramesKept
    BY <1>1, <1>2, <1>3, <1>4, <1>5, <1>6, <1>7, <1>8, <1>9 DEF Next, LoopStep
  <1>11. IInv'
    BY StepFacts DEF FramesIInv
  <1>12. \A e \in Endpoints : PlacedAt(e)'
    BY <1>10, PlacedKept DEF FramesKept, FramesIInv
  <1> QED
    BY <1>10, <1>11, <1>12 DEF FramesKept, FramesIInv

\* A session starts with no frame anywhere.
LEMMA FramesInit == Init => FramesIInv
  <1> SUFFICES ASSUME Init PROVE FramesIInv
    OBVIOUS
  <1>1. /\ \A e \in Endpoints : /\ sent[e] = <<>> /\ queue[e] = <<>> /\ conn[e] = <<>>
                                /\ received[e] = <<>> /\ rejected[e] = {}
                                /\ loop[e].at # "sending"
        /\ \A s \in Senders : task[s].at # "enqueue"
        /\ rejected \in [Endpoints -> SUBSET Frames]
    BY DEF Init, Select, Idle, Spawned
  <1>2. Elems(<<>>) = {} /\ Distinct(<<>>)
    BY SMTT(30) DEF Elems, Distinct
  <1>3. OnceEach
    BY <1>1, <1>2 DEF OnceEach, OnceTasks
  <1>4. ASSUME NEW e \in Endpoints PROVE PlacedAt(e)
    <2>1. Made(e) = {}
      BY <1>1, <1>2 DEF Made, Elems
    <2>2. InTasks(e) = {} /\ InLoop(e) = {}
      BY <1>1 DEF InTasks, InLoop
    <2>3. Other[e] \in Endpoints
      BY OtherType
    <2>4. \A k \in Stages : Held(e, k) = {}
      BY <1>1, <1>2, <2>2, <2>3, HeldAt DEF Stages
    <2> QED
      BY <2>1, <2>4 DEF PlacedAt
  <1> QED
    BY <1>1, <1>3, <1>4, InitIInv DEF FramesIInv

\* A place of a frame is at a stage that holds it, and a stage that holds a
\* frame has one place of it.
LEMMA PlacesHeld ==
    ASSUME FramesIInv, NEW e \in Endpoints, NEW f \in Frames
    PROVE  /\ \A p \in Places(e, f) : /\ p = <<p[1], p[2]>> /\ p[1] \in Stages
                                      /\ f \in Held(e, p[1])
           /\ \A p, q \in Places(e, f) : p[1] = q[1] => p[2] = q[2]
           /\ \A k \in Stages : f \in Held(e, k) => \E x : <<k, x>> \in Places(e, f)
  <1> DEFINE d == Other[e]
             At1(k, x) ==
                 \/ k = "task" /\ x \in Senders /\ At[x] = e
                    /\ task[x] = [at |-> "enqueue", frame |-> f]
                 \/ k = "queue" /\ x \in 1..Len(queue[e]) /\ queue[e][x] = f
                 \/ k = "loop" /\ x = e /\ loop[e] = [at |-> "sending", frame |-> f]
                 \/ k = "conn" /\ x \in 1..Len(conn[d]) /\ conn[d][x] = f
                 \/ k = "received" /\ x \in 1..Len(received[d]) /\ received[d][x] = f
                 \/ k = "rejected" /\ x = d /\ f \in rejected[d]
  <1>1. /\ \A p \in Places(e, f) : p = <<p[1], p[2]>> /\ At1(p[1], p[2])
        /\ \A k, x : At1(k, x) => <<k, x>> \in Places(e, f)
    BY SMTT(30) DEF Places
  <1>2. /\ d \in Endpoints /\ TypeOK
        /\ OnceTasks /\ Distinct(queue[e]) /\ Distinct(conn[d]) /\ Distinct(received[d])
    BY OtherType DEF FramesIInv, IInv, OnceEach
  <1>3. /\ \A s \in Senders : task[s] = [at |-> "enqueue", frame |-> f]
                                <=> task[s].at = "enqueue" /\ task[s].frame = f
        /\ loop[e] = [at |-> "sending", frame |-> f]
             <=> loop[e].at = "sending" /\ loop[e].frame = f
    BY <1>2, SMTT(30) DEF TypeOK, Spawned, Idle, Done, Select, Ponging
  <1>4. /\ f \in InTasks(e) <=> \E x : At1("task", x)
        /\ f \in InLoop(e) <=> \E x : At1("loop", x)
    BY <1>3 DEF InTasks, InLoop
  <1>5. /\ f \in Elems(queue[e]) <=> \E x : At1("queue", x)
        /\ f \in Elems(conn[d]) <=> \E x : At1("conn", x)
        /\ f \in Elems(received[d]) <=> \E x : At1("received", x)
        /\ f \in rejected[d] <=> \E x : At1("rejected", x)
    BY DEF Elems
  <1>6. ASSUME NEW k, NEW x, NEW y, At1(k, x), At1(k, y) PROVE x = y
    BY <1>2, <1>3, <1>6, SMTT(30) DEF OnceTasks, Distinct
  <1>7. ASSUME NEW k, NEW x, At1(k, x) PROVE k \in Stages
    BY <1>7 DEF Stages
  <1> HIDE DEF At1, d
  <1>8. ASSUME NEW k \in Stages PROVE f \in Held(e, k) <=> \E x : At1(k, x)
    BY <1>4, <1>5, HeldAt, SMTT(30) DEF Stages, d
  <1> QED
    BY <1>1, <1>6, <1>7, <1>8, ZenonT(60)

\* Between the task that encrypted it and the peer that opened or rejected it a
\* frame is at no two places, and it is at one while both session loops run, for
\* any senders, capacities and shutdowns (lib.rs:230-254 and 371-412).
THEOREM FramesConservedHolds == Spec => []FramesConserved
  <1>1. ASSUME FramesIInv, NEW e \in Endpoints, NEW i \in 1..Len(sent[e])
        PROVE  /\ \A p, q \in Places(e, sent[e][i]) : p = q
               /\ Running => Places(e, sent[e][i]) # {}
    <2> DEFINE f == sent[e][i]
    <2>1. f \in Frames /\ f \in Made(e)
      BY <1>1, SMTT(30) DEF FramesIInv, IInv, TypeOK, Made
    <2> HIDE DEF f
    <2>2. PlacedAt(e)
      BY <1>1 DEF FramesIInv
    <2>3. ASSUME NEW p \in Places(e, f), NEW q \in Places(e, f) PROVE p = q
      <3>1. /\ p = <<p[1], p[2]>> /\ p[1] \in Stages /\ f \in Held(e, p[1])
            /\ q = <<q[1], q[2]>> /\ q[1] \in Stages /\ f \in Held(e, q[1])
        BY <1>1, <2>1, PlacesHeld
      <3>2. p[1] = q[1]
        BY <2>2, <3>1 DEF PlacedAt
      <3>3. \A x, y \in Places(e, f) : x[1] = y[1] => x[2] = y[2]
        BY <1>1, <2>1, PlacesHeld
      <3> QED
        BY <3>1, <3>2, <3>3
    <2>4. ASSUME Running PROVE Places(e, f) # {}
      <3>1. PICK k \in Stages : f \in Held(e, k)
        BY <2>1, <2>2, <2>4 DEF PlacedAt
      <3> QED
        BY <1>1, <2>1, <3>1, PlacesHeld
    <2> QED
      BY <2>3, <2>4 DEF f
  <1>2. FramesIInv => FramesConserved
    BY <1>1 DEF FramesConserved, Running
  <1>3. FramesIInv /\ [Next]_vars => FramesIInv'
    BY FramesStep
  <1> QED
    BY FramesInit, <1>2, <1>3, PTL DEF Spec
=============================================================================
