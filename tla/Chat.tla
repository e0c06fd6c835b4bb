-------------------------------- MODULE Chat --------------------------------
(***************************************************************************)
(* ChatService of one node (crates/omnimesh-service/src/lib.rs:44-99) and  *)
(* the task of cmd_run that prints what it receives (crates/omnimesh-node/ *)
(* src/main.rs:221-226).  The session loops of the peers hand messages to  *)
(* a broadcast channel that keeps the last Capacity of them; a reader that *)
(* falls behind is told so by recv, with Lagged.                           *)
(***************************************************************************)
EXTENDS Naturals, Sequences

CONSTANTS Peers,
          Capacity,      \* what the broadcast channel holds
          MaxMessages    \* bound on the messages of each peer

VARIABLES sent,      \* sent[p]: number of p's messages that have been handled
          log,       \* what went into the channel, in order
          chat_rx,   \* the reader: what it is at, and its place in the channel
          printed    \* what it has printed

vars == <<sent, log, chat_rx, printed>>

Init ==
    /\ sent = [p \in Peers |-> 0]
    /\ log = <<>>
    /\ chat_rx = [at |-> "none", from |-> 0, pos |-> 0]
    /\ printed = <<>>

\* handle_message in the session loop of p.  Without a receiver the channel
\* refuses the message and the error is ignored.
handle_message(p) ==
    /\ sent[p] < MaxMessages
    /\ sent' = [sent EXCEPT ![p] = @ + 1]
    /\ log' = IF chat_rx.at = "reading" THEN Append(log, <<p, sent'[p]>>) ELSE log
    /\ UNCHANGED <<chat_rx, printed>>

\* cmd_run subscribes once the mesh is running and the service registered.
subscribe ==
    /\ chat_rx.at = "none"
    /\ chat_rx' = [at |-> "reading", from |-> Len(log), pos |-> Len(log)]
    /\ UNCHANGED <<sent, log, printed>>

\* The messages that were overwritten before the reader came to them.
Missed == IF Len(log) > chat_rx.pos + Capacity THEN Len(log) - chat_rx.pos - Capacity ELSE 0

\* Plausible bug: the loop ignores Lagged and reads on.
recvOn ==
    /\ chat_rx.at = "reading" /\ chat_rx.pos < Len(log)
    /\ chat_rx' = [chat_rx EXCEPT !.pos = @ + Missed + 1]
    /\ printed' = Append(printed, log[chat_rx.pos + Missed + 1])
    /\ UNCHANGED <<sent, log>>

\* One turn of while let Ok(..) = chat_rx.recv(): a message is printed, or the
\* loop ends for good because the channel reports Lagged.
recv ==
    /\ chat_rx.at = "reading" /\ chat_rx.pos < Len(log)
    /\ IF Missed > 0
       THEN /\ chat_rx' = [chat_rx EXCEPT !.at = "ended"]
            /\ UNCHANGED printed
       ELSE /\ chat_rx' = [chat_rx EXCEPT !.pos = @ + 1]
            /\ printed' = Append(printed, log[chat_rx.pos + 1])
    /\ UNCHANGED <<sent, log>>

Next == (\E p \in Peers : handle_message(p)) \/ subscribe \/ recv

Spec == Init /\ [][Next]_vars

-----------------------------------------------------------------------------
\* What the node prints is every chat message it handled since it subscribed,
\* each peer's in that peer's order, up to the first it lost; and it stops
\* printing only because more messages than the channel holds were waiting
\* (lib.rs:58-64, 92-98, main.rs:222-226).
PrintoutIsGapless ==
    /\ printed = SubSeq(log, chat_rx.from + 1, chat_rx.from + Len(printed))
    /\ \A i, j \in 1..Len(printed) :
           i < j /\ printed[i][1] = printed[j][1] => printed[i][2] < printed[j][2]
    /\ chat_rx.at = "ended" => Len(log) - (chat_rx.from + Len(printed)) > Capacity
=============================================================================
