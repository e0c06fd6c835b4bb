----------------------- MODULE NoiseConnectionProofs -----------------------
(***************************************************************************)
(* One connection, for any number of frames either way.  The handshake is  *)
(* a turn-taking protocol on one stream (Turns, OneStream).  Every piece   *)
(* on the way comes from a frame that its sender made (Genuine), and an    *)
(* end that is still in the handshake has nothing unread or the message    *)
(* that is due (Handshaking).  First the invariant, that a new connection  *)
(* has it and that what an end writes keeps it; then that what an end      *)
(* reads keeps it.  So two ends that are connected agree on who they are   *)
(* and on the version, and a connection is a FIFO channel.                 *)
(***************************************************************************)
EXTENDS NoiseConnection, TLAPS

USE Zenon

HandshakeFrames == [type : {"handshake"}, n : Nat, major : Majors, peer_id : Roles]
DataFrames == [type : {"data"}, n : Nat]
Frames == HandshakeFrames \cup DataFrames
AllPieces == [frame : Frames,
              piece : {"len1", "len2", "data1", "data2", "whole"}]

TypeOK ==
    /\ transport \in {"quic", "mock"}
    /\ major \in [Roles -> Majors]
    /\ phase \in [Roles -> {"writing", "reading", "transport", "gone"}]
    /\ hs \in [Roles -> 0..3]
    /\ remote \in [Roles -> Roles \cup {None}]
    /\ stream \in [Roles -> {"Initiator", None}]
    /\ wire \in [Roles -> [Roles -> Seq(AllPieces)]]
    /\ out \in [Roles -> Seq(Frames)]
    /\ got \in [Roles -> Seq(AllPieces)]
    /\ need \in [Roles -> Nat]
    /\ sent \in [Roles -> Seq(DataFrames)]
    /\ received \in [Roles -> Seq(DataFrames)]
    /\ failed \subseteq Roles

\* The seven places of the handshake, and what each end does at its own.
Turns ==
    /\ \/ hs["Responder"] = 0 /\ hs["Initiator"] \in {0, 1}
       \/ hs["Responder"] = 1 /\ hs["Initiator"] = 1
       \/ hs["Responder"] = 2 /\ hs["Initiator"] \in {1, 2, 3}
       \/ hs["Responder"] = 3 /\ hs["Initiator"] = 3
    /\ phase["Initiator"] = "writing" => hs["Initiator"] \in {0, 2}
    /\ phase["Initiator"] = "reading" => hs["Initiator"] = 1
    /\ phase["Responder"] = "writing" => hs["Responder"] = 1
    /\ phase["Responder"] = "reading" => hs["Responder"] \in {0, 2}
    /\ \A e \in Roles : phase[e] = "transport" => hs[e] = 3

\* Both ends use the stream that the initiator opens.
OneStream ==
    \A e \in Roles : stream[e] = None => hs[e] = 0 /\ out[e] = <<>>

\* e has made frame f.
Made(e, f) ==
    \/ f.type = "handshake" /\ f.major = major[e] /\ f.peer_id = e
    \/ f.type = "data" /\ f.n < Len(sent[e])

WireGenuine ==
    \A o, e \in Roles : \A i \in DOMAIN wire[o][e] : Made(Peer[e], wire[o][e][i].frame)
GotGenuine == \A e \in Roles : \A i \in DOMAIN got[e] : Made(Peer[e], got[e][i].frame)
OutGenuine == \A e \in Roles : \A i \in DOMAIN out[e] : Made(e, out[e][i])
SentGenuine ==
    \A e \in Roles : \A i \in DOMAIN sent[e] : sent[e][i] = [type |-> "data", n |-> i - 1]

Genuine == WireGenuine /\ GotGenuine /\ OutGenuine /\ SentGenuine

\* Whoever has read a message of the handshake knows the peer.
Learnt ==
    \A e \in Roles : hs[e] >= (IF e = "Initiator" THEN 2 ELSE 1) =>
                         remote[e] = Peer[e] /\ major[e] = major[Peer[e]]

\* What is on the way to e: the pieces taken by recv, then those on the stream.
InWire(e) == wire["Initiator"][e]
Unread(e) == Len(got[e]) + Len(InWire(e))
Piece(e, i) == IF i <= Len(got[e]) THEN got[e][i] ELSE InWire(e)[i - Len(got[e])]

FrameLen == IF transport = "mock" THEN 1 ELSE 4
Layout == IF transport = "mock" THEN <<"whole">> ELSE <<"len1", "len2", "data1", "data2">>

\* The message of the handshake that e is to read next.
DueMessage(e) == [type |-> "handshake", n |-> hs[e] + 1, major |-> major[Peer[e]], peer_id |-> Peer[e]]

Ahead(e) ==
    /\ \A i \in 1..FrameLen :
           i <= Unread(e) => Piece(e, i) = [frame |-> DueMessage(e), piece |-> Layout[i]]
    /\ Len(got[e]) < FrameLen
    /\ Len(got[e]) >= 2 => need[e] = 2
    /\ \/ transport = "quic" /\ Unread(e) = 2 /\ out[Peer[e]] = <<DueMessage(e)>>
       \/ /\ Unread(e) >= FrameLen
          /\ hs[Peer[e]] < 3 => Unread(e) = FrameLen /\ out[Peer[e]] = <<>>

Quiet(e) == got[e] = <<>> /\ InWire(e) = <<>> /\ out[Peer[e]] = <<>>

Handshaking ==
    \A e \in Roles : phase[e] \in {"reading", "writing"} =>
                         IF hs[Peer[e]] > hs[e] THEN Ahead(e) ELSE Quiet(e)

\* A handshake fails for one of two reasons.
FailuresHaveCause ==
    \A e \in failed : major[e] # major[Peer[e]] \/ phase[Peer[e]] = "gone"

IInv ==
    /\ TypeOK
    /\ Turns
    /\ OneStream
    /\ Genuine
    /\ Learnt
    /\ Handshaking
    /\ FailuresHaveCause

-----------------------------------------------------------------------------
\* What the operators on sequences return that model the byte stream and recv.
LEMMA ConcatFacts ==
    ASSUME NEW S, NEW s1 \in Seq(S), NEW s2 \in Seq(S)
    PROVE  /\ s1 \o s2 \in Seq(S)
           /\ Len(s1 \o s2) = Len(s1) + Len(s2)
           /\ \A i \in 1..(Len(s1) + Len(s2)) :
                 (s1 \o s2)[i] = IF i <= Len(s1) THEN s1[i] ELSE s2[i - Len(s1)]
  BY SMTT(30)

\* The same for a piece at the end (got).
LEMMA AppendFacts ==
    ASSUME NEW S, NEW s \in Seq(S), NEW x \in S
    PROVE  /\ Append(s, x) \in Seq(S) /\ Append(s, x) # <<>>
           /\ Len(Append(s, x)) = Len(s) + 1
           /\ \A i \in 1..Len(s) : Append(s, x)[i] = s[i]
           /\ Append(s, x)[Len(s) + 1] = x
  BY SMTT(30)

\* The same for what is left of the stream when its first piece is taken.
LEMMA TailFacts ==
    ASSUME NEW S, NEW s \in Seq(S), s # <<>>
    PROVE  /\ Head(s) \in S
           /\ Tail(s) \in Seq(S)
           /\ Len(Tail(s)) = Len(s) - 1
           /\ \A i \in 1..Len(Tail(s)) : Tail(s)[i] = s[i + 1]
  BY SMTT(30)

\* Nothing on the stream, and nothing put before something.
LEMMA EmptyFacts ==
    ASSUME NEW S
    PROVE  /\ <<>> \in Seq(S)
           /\ \A s \in Seq(S) : /\ s = <<>> <=> Len(s) = 0
                               /\ s \o <<>> = s /\ <<>> \o s = s
  BY SMTT(30)

\* The two ends.
LEMMA PeerFacts ==
    /\ Peer["Initiator"] = "Responder" /\ Peer["Responder"] = "Initiator"
    /\ \A e \in Roles : Peer[e] \in Roles /\ Peer[e] # e /\ Peer[Peer[e]] = e
  BY DEF Peer, Roles

\* A frame as its sender cuts it up.
LEMMA PiecesFacts ==
    ASSUME NEW f \in Frames
    PROVE  /\ Pieces(f, Prefix) \in Seq(AllPieces)
           /\ Len(Pieces(f, Prefix)) = 2
           /\ Pieces(f, Prefix)[1] = [frame |-> f, piece |-> "len1"]
           /\ Pieces(f, Prefix)[2] = [frame |-> f, piece |-> "len2"]
           /\ Pieces(f, Body) \in Seq(AllPieces)
           /\ Len(Pieces(f, Body)) = 2
           /\ Pieces(f, Body)[1] = [frame |-> f, piece |-> "data1"]
           /\ Pieces(f, Body)[2] = [frame |-> f, piece |-> "data2"]
           /\ Pieces(f, <<"whole">>) \in Seq(AllPieces)
           /\ Len(Pieces(f, <<"whole">>)) = 1
           /\ Pieces(f, <<"whole">>)[1] = [frame |-> f, piece |-> "whole"]
  <1>1. ASSUME NEW n \in {"len1", "len2", "data1", "data2", "whole"}
        PROVE  [frame |-> f, piece |-> n] \in AllPieces
    BY DEF AllPieces
  <1> DEFINE p == Pieces(f, Prefix)
             b == Pieces(f, Body)
             w == Pieces(f, <<"whole">>)
  <1>2. /\ p = [i \in 1..2 |-> [frame |-> f, piece |-> <<"len1", "len2">>[i]]]
        /\ b = [i \in 1..2 |-> [frame |-> f, piece |-> <<"data1", "data2">>[i]]]
        /\ w = [i \in 1..1 |-> [frame |-> f, piece |-> <<"whole">>[i]]]
    BY DEF Pieces, Prefix, Body
  <1>3. /\ p[1] = [frame |-> f, piece |-> "len1"] /\ p[2] = [frame |-> f, piece |-> "len2"]
        /\ b[1] = [frame |-> f, piece |-> "data1"] /\ b[2] = [frame |-> f, piece |-> "data2"]
        /\ w[1] = [frame |-> f, piece |-> "whole"]
    BY <1>2, SMTT(30)
  <1> HIDE DEF p, b, w
  <1>4. /\ \A i \in 1..2 : p[i] \in AllPieces
        /\ \A i \in 1..2 : b[i] \in AllPieces
        /\ \A i \in 1..1 : w[i] \in AllPieces
    BY <1>1, <1>3, SMTT(30)
  <1>5. p \in Seq(AllPieces) /\ Len(p) = 2
    BY <1>2, <1>4, SMTT(30)
  <1>6. b \in Seq(AllPieces) /\ Len(b) = 2
    BY <1>2, <1>4, SMTT(30)
  <1>7. w \in Seq(AllPieces) /\ Len(w) = 1
    BY <1>2, <1>4, SMTT(30)
  <1> QED
    BY <1>3, <1>5, <1>6, <1>7 DEF p, b, w

\* What recv makes of its pieces is the frame of the first, or no frame.
LEMMA FrameOfAny ==
    ASSUME NEW ps
    PROVE  FrameOf(ps) \in {ps[1].frame, [type |-> "garbage"]}
  BY DEF FrameOf

\* A frame that is complete comes back as it was sent: MockConnection.
LEMMA FrameOfWhole ==
    ASSUME NEW ps \in Seq(AllPieces), NEW f, Len(ps) = 1,
           ps[1] = [frame |-> f, piece |-> "whole"]
    PROVE  FrameOf(ps) = f
  <1>1. ps = [i \in 1..1 |-> [frame |-> f, piece |-> <<"whole">>[i]]]
    BY SMTT(30)
  <1>2. ps = Pieces(f, <<"whole">>)
    BY <1>1 DEF Pieces
  <1>3. ps[1].frame = f
    BY SMTT(30)
  <1> QED
    BY <1>2, <1>3 DEF FrameOf

\* Two pairs in a row.
LEMMA TwoPairs ==
    ASSUME NEW S, NEW a \in Seq(S), NEW b \in Seq(S), Len(a) = 2, Len(b) = 2
    PROVE  /\ Len(a \o b) = 4
           /\ (a \o b)[1] = a[1] /\ (a \o b)[2] = a[2]
           /\ (a \o b)[3] = b[1] /\ (a \o b)[4] = b[2]
  <1>1. /\ Len(a \o b) = Len(a) + Len(b)
        /\ \A i \in 1 .. Len(a) + Len(b) :
               (a \o b)[i] = IF i <= Len(a) THEN a[i] ELSE b[i - Len(a)]
    BY ConcatFacts
  <1> DEFINE c == a \o b
  <1> HIDE DEF c
  <1>2. Len(c) = 4 /\ \A i \in 1..4 : c[i] = IF i <= 2 THEN a[i] ELSE b[i - 2]
    BY <1>1, SMTT(30) DEF c
  <1> QED
    BY <1>2, SMTT(30) DEF c

\* The length prefix that recv of QuicConnection has read, as a sequence.
LEMMA TwoPieces ==
    ASSUME NEW S, NEW ps \in Seq(S), Len(ps) = 2, NEW f,
           ps[1] = [frame |-> f, piece |-> "len1"],
           ps[2] = [frame |-> f, piece |-> "len2"]
    PROVE  ps = [i \in 1..2 |-> [frame |-> f, piece |-> <<"len1", "len2">>[i]]]
  <1>1. ps \in [1..2 -> S]
    BY SMTT(30)
  <1>2. \A i \in 1..2 : ps[i] = [frame |-> f, piece |-> <<"len1", "len2">>[i]]
    BY SMTT(30)
  <1> QED
    BY <1>1, <1>2

\* The same for QuicConnection.
LEMMA FrameOfParts ==
    ASSUME NEW ps \in Seq(AllPieces), NEW f, Len(ps) = 4,
           \A i \in 1..4 : ps[i] = [frame |-> f,
                                    piece |-> <<"len1", "len2", "data1", "data2">>[i]]
    PROVE  FrameOf(ps) = f
  <1> DEFINE l == Prefix \o Body
  <1>1. Len(l) = 4 /\ l[1] = "len1" /\ l[2] = "len2" /\ l[3] = "data1" /\ l[4] = "data2"
    <2> DEFINE S == {"len1", "len2", "data1", "data2"}
    <2>1. Prefix \in Seq(S) /\ Len(Prefix) = 2
      BY SMTT(30) DEF Prefix
    <2>2. Body \in Seq(S) /\ Len(Body) = 2
      BY SMTT(30) DEF Body
    <2> HIDE DEF S
    <2>3. /\ Len(l) = 4 /\ l[1] = Prefix[1] /\ l[2] = Prefix[2]
          /\ l[3] = Body[1] /\ l[4] = Body[2]
      BY <2>1, <2>2, TwoPairs, SMTT(30)
    <2> QED
      BY <2>3 DEF Prefix, Body
  <1> HIDE DEF l
  <1>2. ps = [i \in 1..4 |-> [frame |-> f, piece |-> l[i]]]
    BY <1>1, SMTT(30)
  <1>3. ps = Pieces(f, l)
    BY <1>1, <1>2 DEF Pieces
  <1>4. ps[1].frame = f
    BY SMTT(30)
  <1> QED
    BY <1>3, <1>4 DEF FrameOf, l

-----------------------------------------------------------------------------
\* The connection is new.
LEMMA ConnectionInit == Init => IInv
  <1> SUFFICES ASSUME Init PROVE IInv
    OBVIOUS
  <1> USE PeerFacts DEF Init
  <1>1. TypeOK
    BY ConnectionAssumption, SMTT(30) DEF TypeOK, Roles
  <1>2. Turns
    BY DEF Turns, Roles
  <1>3. OneStream
    BY DEF OneStream
  <1>4. Genuine
    BY SMTT(30) DEF Genuine, WireGenuine, GotGenuine, OutGenuine, SentGenuine
  <1>5. Learnt
    BY SMTT(30) DEF Learnt
  <1>6. Handshaking
    BY SMTT(30) DEF Handshaking, Quiet, InWire, Roles
  <1>7. FailuresHaveCause
    BY DEF FailuresHaveCause
  <1> QED
    BY <1>1, <1>2, <1>3, <1>4, <1>5, <1>6, <1>7 DEF IInv

\* An end that has something to write, or something on the way, uses the one
\* stream.
LEMMA StreamFacts ==
    ASSUME TypeOK, Turns, OneStream, NEW e \in Roles
    PROVE  /\ phase[e] \in {"writing", "transport"} \/ out[e] # <<>>
                  => send_stream(e) = "Initiator"
           /\ phase[e] \in {"reading", "transport"} => recv_stream(e) = "Initiator"
  <1>1. stream[e] \in {"Initiator", None} /\ None # "Initiator"
    BY DEF TypeOK, None
  <1>2. CASE stream[e] = "Initiator"
    BY <1>1, <1>2 DEF send_stream, recv_stream
  <1>3. CASE stream[e] = None
    <2>1. hs[e] = 0 /\ out[e] = <<>>
      BY <1>3 DEF OneStream
    <2>2. CASE e = "Initiator"
      BY <1>3, <2>1, <2>2, PeerFacts, SMTT(30)
      DEF Turns, Roles, send_stream, recv_stream
    <2>3. CASE e = "Responder"
      BY <1>3, <2>1, <2>3, PeerFacts, SMTT(30)
      DEF Turns, Roles, send_stream, recv_stream
    <2> QED
      BY <2>2, <2>3 DEF Roles
  <1> QED
    BY <1>1, <1>2, <1>3

\* The first write of frame f by e: where its pieces go.
FirstWrite(e, f) ==
    /\ out[e] = <<>>
    /\ stream' \in [Roles -> {"Initiator", None}]
    /\ stream' = [stream EXCEPT ![e] = "Initiator"]
    /\ wire' \in [Roles -> [Roles -> Seq(AllPieces)]]
    /\ out' \in [Roles -> Seq(Frames)]
    /\ out' = IF transport = "mock" THEN out ELSE [out EXCEPT ![e] = <<f>>]
    /\ \E ps \in Seq(AllPieces) :
           /\ Len(ps) = IF transport = "mock" THEN 1 ELSE 2
           /\ \A i \in 1..Len(ps) : ps[i] = [frame |-> f, piece |-> Layout[i]]
           /\ wire' = [wire EXCEPT !["Initiator"][Peer[e]] = @ \o ps]

\* That is what send does (quic.rs:262-281).
LEMMA SendEffect ==
    ASSUME TypeOK, Turns, OneStream, NEW e \in Roles, NEW f \in Frames,
           phase[e] \in {"writing", "transport"}, send(e, f)
    PROVE  FirstWrite(e, f)
  <1>1. send_stream(e) = "Initiator"
    BY StreamFacts
  <1>2. out[e] = <<>> /\ stream' = [stream EXCEPT ![e] = "Initiator"]
    BY <1>1 DEF send
  <1>3. stream' \in [Roles -> {"Initiator", None}]
    BY <1>2 DEF TypeOK
  <1>4. out' = IF transport = "mock" THEN out ELSE [out EXCEPT ![e] = <<f>>]
    BY DEF send
  <1>5. out' \in [Roles -> Seq(Frames)]
    <2>1. <<f>> \in Seq(Frames)
      BY SMTT(30)
    <2> QED
      BY <1>4, <2>1 DEF TypeOK
  <1>6. PICK ps \in Seq(AllPieces) :
            /\ Len(ps) = IF transport = "mock" THEN 1 ELSE 2
            /\ \A i \in 1..Len(ps) : ps[i] = [frame |-> f, piece |-> Layout[i]]
            /\ Writes(e, ps)
    <2>1. CASE transport = "mock"
      <3> DEFINE w == Pieces(f, <<"whole">>)
      <3>1. Writes(e, w)
        BY <2>1 DEF send
      <3>2. w \in Seq(AllPieces) /\ Len(w) = 1 /\ w[1] = [frame |-> f, piece |-> "whole"]
        BY PiecesFacts
      <3> HIDE DEF w
      <3>3. \A i \in 1..Len(w) : w[i] = [frame |-> f, piece |-> Layout[i]]
        BY <2>1, <3>2, SMTT(30) DEF Layout
      <3> QED
        BY <2>1, <3>1, <3>2, <3>3
    <2>2. CASE transport # "mock"
      <3> DEFINE w == Pieces(f, Prefix)
      <3>1. Writes(e, w)
        BY <2>2 DEF send
      <3>2. /\ w \in Seq(AllPieces) /\ Len(w) = 2 /\ w[1] = [frame |-> f, piece |-> "len1"]
            /\ w[2] = [frame |-> f, piece |-> "len2"]
        BY PiecesFacts
      <3> HIDE DEF w
      <3>3. \A i \in 1..Len(w) : w[i] = [frame |-> f, piece |-> Layout[i]]
        BY <2>2, <3>2, SMTT(30) DEF Layout
      <3> QED
        BY <2>2, <3>1, <3>2, <3>3
    <2> QED
      BY <2>1, <2>2
  <1>7. wire' = [wire EXCEPT !["Initiator"][Peer[e]] = @ \o ps]
    BY <1>1, <1>6, PeerFacts DEF Writes
  <1>8. wire' \in [Roles -> [Roles -> Seq(AllPieces)]]
    <2>1. wire["Initiator"][Peer[e]] \o ps \in Seq(AllPieces)
      BY PeerFacts, ConcatFacts, SMTT(30) DEF TypeOK, Roles
    <2> QED
      BY <1>7, <2>1, PeerFacts DEF TypeOK, Roles
  <1> QED
    BY <1>2, <1>3, <1>4, <1>5, <1>6, <1>7, <1>8 DEF FirstWrite

\* A piece is a piece of a frame.
LEMMA PieceType ==
    ASSUME NEW x \in AllPieces
    PROVE  x.frame \in Frames
  BY DEF AllPieces

\* The nonce of a data frame is a number.
LEMMA FrameType ==
    ASSUME NEW f \in Frames
    PROVE  f.type = "data" => f.n \in Nat /\ f = [type |-> "data", n |-> f.n]
  BY DEF Frames, HandshakeFrames, DataFrames

\* More may be sent, but what is made stays made.
MoreSent ==
    /\ major' = major
    /\ \A e \in Roles : /\ Len(sent[e]) \in Nat /\ Len(sent'[e]) \in Nat
                        /\ Len(sent'[e]) >= Len(sent[e])

\* A step that sends no data leaves that as it is.
LEMMA NothingSent ==
    ASSUME TypeOK, UNCHANGED <<major, sent>>
    PROVE  MoreSent
  BY SMTT(30) DEF MoreSent, TypeOK

\* A stream stays in G when pieces of G are added to it.
LEMMA JoinedIn ==
    ASSUME NEW S, NEW w \in Seq(S), NEW ps \in Seq(S), NEW G,
           \A i \in DOMAIN w : w[i] \in G, \A i \in DOMAIN ps : ps[i] \in G
    PROVE  \A i \in DOMAIN (w \o ps) : (w \o ps)[i] \in G
  BY SMTT(30)

\* The pieces on the way to d that stay genuine.
GenuineTo(d) == {p \in AllPieces : Made(Peer[d], p.frame)}

\* Pieces of a frame that e made are added to the stream.
LEMMA WireAppended ==
    ASSUME TypeOK, WireGenuine, MoreSent, NEW e \in Roles, NEW f \in Frames,
           Made(e, f)', NEW ps \in Seq(AllPieces), \A i \in 1..Len(ps) : ps[i].frame = f,
           wire' = [wire EXCEPT !["Initiator"][Peer[e]] = @ \o ps]
    PROVE  WireGenuine'
  <1>1. \A g \in Frames, d \in Roles : Made(Peer[d], g) => Made(Peer[d], g)'
    <2> SUFFICES ASSUME NEW g \in Frames, NEW d \in Roles, Made(Peer[d], g)
                 PROVE  Made(Peer[d], g)'
      OBVIOUS
    <2> QED
      BY FrameType, PeerFacts, SMTT(30) DEF Made, MoreSent
  <1>2. ASSUME NEW o \in Roles, NEW d \in Roles
        PROVE  /\ wire[o][d] \in Seq(AllPieces)
               /\ \A i \in DOMAIN wire[o][d] : wire[o][d][i] \in GenuineTo(d)'
    <2>1. wire[o][d] \in Seq(AllPieces)
      BY DEF TypeOK
    <2>2. ASSUME NEW i \in DOMAIN wire[o][d]
          PROVE  wire[o][d][i] \in GenuineTo(d)'
      <3>1. PICK p \in AllPieces : p = wire[o][d][i]
        BY <2>1, SMTT(30)
      <3>2. Made(Peer[d], p.frame)
        BY <3>1 DEF WireGenuine
      <3> QED
        BY <1>1, <3>1, <3>2, PieceType DEF GenuineTo
    <2> QED
      BY <2>1, <2>2
  <1>3. \A i \in DOMAIN ps : ps[i] \in GenuineTo(Peer[e])'
    <2>1. Peer[Peer[e]] = e
      BY PeerFacts
    <2>2. Made(Peer[Peer[e]], f)'
      BY <2>1 DEF Made, Peer
    <2> QED
      BY <2>2, SMTT(30) DEF GenuineTo
  <1>4. ASSUME NEW o \in Roles, NEW d \in Roles
        PROVE  \A i \in DOMAIN wire'[o][d] : wire'[o][d][i] \in GenuineTo(d)'
    <2>1. CASE o = "Initiator" /\ d = Peer[e]
      <3>1. wire'[o][d] = wire[o][d] \o ps
        BY <2>1, PeerFacts DEF TypeOK, Roles
      <3> QED
        BY <1>2, <1>3, <2>1, <3>1, JoinedIn
    <2>2. CASE ~(o = "Initiator" /\ d = Peer[e])
      <3>1. wire'[o][d] = wire[o][d]
        BY <2>2, PeerFacts DEF TypeOK, Roles
      <3> QED
        BY <1>2, <3>1
    <2> QED
      BY <2>1, <2>2
  <1> QED
    BY <1>4 DEF WireGenuine, GenuineTo

\* The pieces in a recv that goes on or starts anew.
LEMMA GotKept ==
    ASSUME TypeOK, GotGenuine, MoreSent, 
           \A e \in Roles : got'[e] = got[e] \/ got'[e] = <<>>
    PROVE  GotGenuine'
  <1> SUFFICES ASSUME NEW d \in Roles, NEW i \in DOMAIN got'[d]
               PROVE  Made(Peer[d], got[d][i].frame)'
    BY PeerFacts DEF GotGenuine
  <1>1. got'[d] = got[d]
    <2>1. DOMAIN <<>> = {}
      BY SMTT(30)
    <2> QED
      BY <2>1
  <1>2. got[d][i] \in AllPieces /\ Made(Peer[d], got[d][i].frame)
    BY <1>1, SMTT(30) DEF TypeOK, GotGenuine
  <1>3. PICK g \in Frames : g = got[d][i].frame
    BY <1>2, PieceType
  <1>4. Made(Peer[d], g)'
    BY <1>2, <1>3, FrameType, PeerFacts, SMTT(30) DEF Made, MoreSent
  <1> QED
    BY <1>1, <1>3, <1>4 DEF Made

\* The frames whose body is still to be written.
LEMMA OutKept ==
    ASSUME TypeOK, OutGenuine, MoreSent, NEW e \in Roles,
           \A d \in Roles \ {e} : out'[d] = out[d],
           \/ out'[e] = out[e] \/ out'[e] = <<>>
           \/ \E f \in Frames : out'[e] = <<f>> /\ Made(e, f)'
    PROVE  OutGenuine'
  <1> SUFFICES ASSUME NEW d \in Roles, NEW i \in DOMAIN out'[d]
               PROVE  Made(d, out[d][i])'
    BY DEF OutGenuine
  <1>1. CASE out'[d] = out[d]
    <2>1. PICK g \in Frames : g = out[d][i] /\ Made(d, g)
      BY <1>1, SMTT(30) DEF TypeOK, OutGenuine
    <2>2. Made(d, g)'
      BY <2>1, FrameType, SMTT(30) DEF Made, MoreSent
    <2> QED
      BY <1>1, <2>1, <2>2 DEF Made
  <1>2. CASE d = e /\ out'[e] = <<>>
    <2>1. DOMAIN <<>> = {}
      BY SMTT(30)
    <2> QED
      BY <2>1, <1>2
  <1>3. CASE d = e /\ \E f \in Frames : out'[e] = <<f>> /\ Made(e, f)'
    <2>1. PICK f \in Frames : out'[e] = <<f>> /\ Made(e, f)'
      BY <1>3
    <2>2. out'[d][i] = f
      BY <1>3, <2>1, SMTT(30)
    <2> QED
      BY <1>3, <2>1, <2>2 DEF Made
  <1> QED
    BY <1>1, <1>2, <1>3

\* What an appended write leaves at the ends of the stream.
LEMMA InWireAppended ==
    ASSUME TypeOK, NEW e \in Roles, NEW ps \in Seq(AllPieces),
           wire' = [wire EXCEPT !["Initiator"][Peer[e]] = @ \o ps]
    PROVE  LET w == InWire(Peer[e])
           IN  /\ InWire(e)' = InWire(e)
               /\ w \in Seq(AllPieces) /\ Len(w) \in Nat
               /\ InWire(Peer[e])' = w \o ps
               /\ Len(w \o ps) = Len(w) + Len(ps)
               /\ \A i \in 1..(Len(w) + Len(ps)) :
                      (w \o ps)[i] = IF i <= Len(w) THEN w[i] ELSE ps[i - Len(w)]
  <1>i. "Initiator" \in Roles /\ Peer[e] \in Roles /\ Peer[e] # e /\ Peer' = Peer
    BY PeerFacts DEF Roles, Peer
  <1>1. wire["Initiator"] \in [Roles -> Seq(AllPieces)]
    BY <1>i DEF TypeOK
  <1>2. wire'["Initiator"] = [wire["Initiator"] EXCEPT ![Peer[e]] = @ \o ps]
    BY <1>i DEF TypeOK
  <1>3. /\ wire'["Initiator"][e] = wire["Initiator"][e]
        /\ wire'["Initiator"][Peer[e]] = wire["Initiator"][Peer[e]] \o ps
        /\ wire["Initiator"][Peer[e]] \in Seq(AllPieces)
    BY <1>i, <1>1, <1>2
  <1> DEFINE w == wire["Initiator"][Peer[e]]
  <1>4. /\ Len(w) \in Nat
        /\ Len(w \o ps) = Len(w) + Len(ps)
        /\ \A i \in 1..(Len(w) + Len(ps)) :
               (w \o ps)[i] = IF i <= Len(w) THEN w[i] ELSE ps[i - Len(w)]
    BY <1>3, ConcatFacts, SMTT(30)
  <1> QED
    BY <1>i, <1>3, <1>4 DEF InWire

\* write_message: the end whose turn it is puts the due message before its peer.
LEMMA ConnectionWrites ==
    ASSUME IInv, NEW e \in Roles, write_message(e)
    PROVE  IInv'
  <1>type. TypeOK /\ Turns /\ OneStream
    BY DEF IInv
  <1>d. PICK d \in Roles : d = Peer[e]
    BY PeerFacts
  <1>p. d # e /\ Peer[d] = e /\ Peer' = Peer /\ (\A c \in Roles : c = e \/ c = d)
    BY <1>d, PeerFacts DEF Peer, Roles
  <1>w. phase[e] = "writing"
    BY DEF write_message
  <1>t. hs[e] \in 0..2 /\ hs[d] = hs[e] /\ (hs[e] = 2 => e = "Initiator")
    <2>1. CASE e = "Initiator"
      BY <2>1, <1>w, <1>d, <1>type, PeerFacts, SMTT(30) DEF Turns
    <2>2. CASE e = "Responder"
      BY <2>2, <1>w, <1>d, <1>type, PeerFacts, SMTT(30) DEF Turns
    <2> QED
      BY <2>1, <2>2 DEF Roles
  <1>n. PICK n \in 1..3 : n = hs[e] + 1
    BY <1>t, SMTT(30)
  <1>f. PICK f \in Frames :
            f = [type |-> "handshake", n |-> n, major |-> major[e], peer_id |-> e]
    <2>1. major[e] \in Majors /\ n \in Nat
      BY <1>type, SMTT(30) DEF TypeOK
    <2>2. [type |-> "handshake", n |-> n, major |-> major[e], peer_id |-> e] \in HandshakeFrames
      BY <2>1 DEF HandshakeFrames
    <2> QED
      BY <2>2 DEF Frames
  <1>u. /\ UNCHANGED <<transport, major, remote, got, need, sent, received, dropped, failed>>
        /\ send(e, f)
        /\ hs' = [hs EXCEPT ![e] = n]
        /\ phase' = [phase EXCEPT ![e] = into_transport(n, "reading")]
    BY <1>n, <1>f DEF write_message
  <1>h. /\ hs'[e] = n /\ hs'[d] = hs[d] /\ hs' \in [Roles -> 0..3]
        /\ phase'[d] = phase[d]
        /\ phase'[e] = (IF n = 3 THEN "transport" ELSE "reading")
        /\ phase' \in [Roles -> {"writing", "reading", "transport", "gone"}]
    <2>1. into_transport(n, "reading") = (IF n = 3 THEN "transport" ELSE "reading")
      BY DEF into_transport, is_finished
    <2>2. n \in 0..3
      BY SMTT(30)
    <2> QED
      BY <2>1, <2>2, <1>u, <1>p, <1>type DEF TypeOK
  <1>s. FirstWrite(e, f)
    BY <1>type, <1>w, <1>u, SendEffect
  <1>o. out'[d] = out[d] /\ (out'[e] = IF transport = "mock" THEN <<>> ELSE <<f>>)
    BY <1>s, <1>p, <1>type, SMTT(30) DEF TypeOK, FirstWrite
  <1>ps. PICK ps \in Seq(AllPieces) :
               /\ Len(ps) = IF transport = "mock" THEN 1 ELSE 2
               /\ \A i \in 1..Len(ps) : ps[i] = [frame |-> f, piece |-> Layout[i]]
               /\ wire' = [wire EXCEPT !["Initiator"][Peer[e]] = @ \o ps]
    BY <1>s DEF FirstWrite
  <1>1. TypeOK'
    BY <1>type, <1>u, <1>h, <1>s DEF TypeOK, None, FirstWrite
  <1>2. Turns'
    <2>1. CASE e = "Initiator"
      <3>1. /\ hs'["Initiator"] = n /\ hs'["Responder"] = n - 1 /\ n \in {1, 3}
            /\ phase'["Initiator"] = (IF n = 3 THEN "transport" ELSE "reading")
            /\ phase'["Responder"] = phase["Responder"] /\ hs["Responder"] = hs'["Responder"]
        BY <2>1, <1>d, <1>w, <1>type, <1>h, <1>t, <1>n, PeerFacts, SMTT(30) DEF Turns
      <3> QED
        BY <3>1, <1>type, SMTT(30) DEF Turns, Roles
    <2>2. CASE e = "Responder"
      <3>1. /\ hs'["Responder"] = 2 /\ hs'["Initiator"] = 1 /\ hs["Initiator"] = 1
            /\ phase'["Responder"] = "reading"
            /\ phase'["Initiator"] = phase["Initiator"]
        BY <2>2, <1>d, <1>w, <1>type, <1>h, <1>t, <1>n, PeerFacts, SMTT(30) DEF Turns
      <3> QED
        BY <3>1, <1>type DEF Turns, Roles
    <2> QED
      BY <2>1, <2>2 DEF Roles
  <1>3. OneStream'
    <2>1. stream'[e] = "Initiator" /\ stream'[d] = stream[d] /\ None # "Initiator"
      BY <1>s, <1>p, <1>type, SMTT(30) DEF TypeOK, None, FirstWrite
    <2> QED
      BY <2>1, <1>p, <1>o, <1>h, <1>type DEF OneStream, None
  <1>4. Genuine'
    <2>1. MoreSent /\ Genuine
      BY <1>type, <1>u, NothingSent DEF IInv
    <2>2. Made(e, f)'
      BY <1>u, <1>f DEF Made
    <2>3. ASSUME NEW i \in 1..Len(ps) PROVE ps[i].frame = f
      <3>1. ps[i] = [frame |-> f, piece |-> Layout[i]]
        BY <1>ps
      <3> QED
        BY <3>1, SMTT(30)
    <2>4. WireGenuine'
      BY <2>1, <2>2, <2>3, <1>d, <1>ps, <1>type, WireAppended DEF Genuine
    <2>5. GotGenuine'
      BY <2>1, <1>u, <1>type, GotKept DEF Genuine
    <2>6. OutGenuine'
      <3>1. out'[e] = <<>> \/ \E g \in Frames : out'[e] = <<g>> /\ Made(e, g)'
        BY <1>o, <2>2
      <3>2. \A c \in Roles \ {e} : out'[c] = out[c]
        BY <1>o, <1>p
      <3> QED
        BY <2>1, <3>1, <3>2, <1>type, OutKept DEF Genuine
    <2>7. SentGenuine'
      BY <2>1, <1>u DEF Genuine, SentGenuine
    <2> QED
      BY <2>4, <2>5, <2>6, <2>7 DEF Genuine
  <1>5. Learnt'
    <2> SUFFICES ASSUME NEW c \in Roles, hs'[c] >= (IF c = "Initiator" THEN 2 ELSE 1)
                 PROVE  remote'[c] = Peer[c] /\ major'[c] = major'[Peer[c]]
      BY <1>p DEF Learnt
    <2>1. hs[c] >= (IF c = "Initiator" THEN 2 ELSE 1)
      <3>1. CASE c = d
        BY <3>1, <1>h
      <3>2. CASE c = e /\ e = "Initiator"
        <4>1. hs[e] # 1
          BY <3>2, <1>w, <1>type, SMTT(30) DEF Turns
        <4> QED
          BY <3>2, <4>1, <1>n, <1>t, <1>h, SMTT(30)
      <3>3. CASE c = e /\ e = "Responder"
        <4>1. hs[e] = 1
          BY <3>3, <1>w, <1>type DEF Turns
        <4> QED
          BY <3>3, <4>1, SMTT(30)
      <3> QED
        BY <3>1, <3>2, <3>3, <1>p DEF Roles
    <2>2. remote[c] = Peer[c] /\ major[c] = major[Peer[c]]
      BY <2>1 DEF IInv, Learnt
    <2> QED
      BY <2>2, <1>u
  <1>7. FailuresHaveCause'
    <2> SUFFICES ASSUME NEW c \in failed'
                 PROVE  major'[c] # major'[Peer[c]] \/ phase'[Peer[c]] = "gone"
      BY <1>p DEF FailuresHaveCause
    <2>1. c \in Roles /\ (major[c] # major[Peer[c]] \/ phase[Peer[c]] = "gone")
      BY <1>u, <1>type DEF IInv, FailuresHaveCause, TypeOK
    <2>2. phase[Peer[c]] = "gone" => phase'[Peer[c]] = "gone"
      BY <2>1, <1>d, <1>p, <1>h, <1>w
    <2> QED
      BY <2>1, <2>2, <1>u
  <1>6. Handshaking'
    <2>q. Quiet(e)
      BY <1>t, <1>w, <1>d, SMTT(30) DEF IInv, Handshaking
    <2>i. /\ InWire(e)' = InWire(e)
          /\ InWire(d) \in Seq(AllPieces) /\ Len(InWire(d)) \in Nat
          /\ InWire(d)' = InWire(d) \o ps
          /\ Len(InWire(d) \o ps) = Len(InWire(d)) + Len(ps)
          /\ \A i \in 1..(Len(InWire(d)) + Len(ps)) :
                 (InWire(d) \o ps)[i] = IF i <= Len(InWire(d)) THEN InWire(d)[i]
                                        ELSE ps[i - Len(InWire(d))]
      BY <1>type, <1>d, <1>ps, InWireAppended, ZenonT(60)
    <2>1. Quiet(e)'
      BY <2>q, <2>i, <1>u, <1>o, <1>d, <1>p DEF Quiet
    <2>2. hs'[d] <= hs'[e]
      BY <1>h, <1>t, <1>n, SMTT(30)
    <2>3. ASSUME phase[d] \in {"reading", "writing"}
          PROVE  Ahead(d)'
      <3>1. Quiet(d)
        BY <2>3, <1>t, <1>p, SMTT(30) DEF IInv, Handshaking
      <3>2. /\ Len(got'[d]) = 0 /\ got'[d] = <<>>
            /\ InWire(d)' = ps /\ Len(ps) \in Nat
        BY <3>1, <2>i, <1>u, EmptyFacts, SMTT(30) DEF Quiet
      <3>3. Unread(d)' = Len(ps) /\ \A i \in 1..Len(ps) : Piece(d, i)' = ps[i]
        BY <3>2, SMTT(30) DEF Unread, Piece
      <3>4. DueMessage(d)' = f
        BY <1>f, <1>p, <1>h, <1>t, <1>n, <1>u DEF DueMessage
      <3>5. transport' = transport /\ transport \in {"quic", "mock"}
        BY <1>u, <1>type DEF TypeOK
      <3>6. CASE transport = "mock"
        <4>1. FrameLen' = 1 /\ Layout'[1] = Layout[1] /\ Len(ps) = 1
          BY <3>5, <3>6, <1>ps DEF FrameLen, Layout
        <4>2. Piece(d, 1)' = [frame |-> f, piece |-> Layout[1]]
          BY <3>3, <4>1, <1>ps, SMTT(30)
        <4> QED
          BY <3>2, <3>3, <3>4, <3>6, <4>1, <4>2, <1>o, <1>p, <1>u, SMTT(30) DEF Ahead
      <3>7. CASE transport = "quic"
        <4>1. FrameLen' = 4 /\ Layout' = Layout /\ Len(ps) = 2
          BY <3>5, <3>7, <1>ps DEF FrameLen, Layout
        <4>2. /\ Piece(d, 1)' = [frame |-> f, piece |-> Layout[1]]
              /\ Piece(d, 2)' = [frame |-> f, piece |-> Layout[2]]
          BY <3>3, <4>1, <1>ps, SMTT(30)
        <4>3. out'[e] = <<f>>
          BY <3>7, <1>o
        <4>4. \A i \in 1..4 : i <= 2 => i = 1 \/ i = 2
          BY SMTT(30)
        <4> QED
          BY <3>2, <3>3, <3>4, <3>5, <3>7, <4>1, <4>2, <4>3, <4>4, <1>p, SMTT(30) DEF Ahead
      <3> QED
        BY <3>5, <3>6, <3>7
    <2>4. hs'[e] > hs'[d]
      BY <1>h, <1>t, <1>n, SMTT(30)
    <2> SUFFICES ASSUME NEW c \in Roles, phase'[c] \in {"reading", "writing"}
                 PROVE  (IF hs[Peer[c]] > hs[c] THEN Ahead(c) ELSE Quiet(c))'
      BY <1>p DEF Handshaking
    <2>5. CASE c = e
      <3>1. ~(hs'[d] > hs'[e])
        BY <2>2, <1>h, <1>t, SMTT(30)
      <3> QED
        BY <2>5, <2>1, <3>1, <1>d, <1>p
    <2>6. CASE c = d
      BY <2>6, <2>3, <2>4, <1>p, <1>h
    <2> QED
      BY <2>5, <2>6, <1>p
  <1> QED
    BY <1>1, <1>2, <1>3, <1>4, <1>5, <1>6, <1>7 DEF IInv

\* A failed handshake keeps its cause: an end that is gone does not come back.
LEMMA CausesKept ==
    ASSUME IInv, major' = major, failed' = failed,
           \A e \in Roles : phase[e] = "gone" => phase'[e] = "gone"
    PROVE  FailuresHaveCause'
  <1> SUFFICES ASSUME NEW c \in failed
               PROVE  major'[c] # major'[Peer[c]] \/ phase'[Peer[c]] = "gone"
    BY DEF FailuresHaveCause, Peer
  <1>1. c \in Roles /\ (major[c] # major[Peer[c]] \/ phase[Peer[c]] = "gone")
    BY DEF IInv, FailuresHaveCause, TypeOK
  <1> QED
    BY <1>1, PeerFacts

\* What is appended to the stream is read last.
LEMMA UnreadAppended ==
    ASSUME TypeOK, NEW e \in Roles, NEW d \in Roles, d = Peer[e], got'[d] = got[d],
           NEW ps \in Seq(AllPieces), wire' = [wire EXCEPT !["Initiator"][Peer[e]] = @ \o ps],
           NEW u \in Nat, u = Unread(d)
    PROVE  /\ Unread(d)' = u + Len(ps)
           /\ \A i \in 1..u : Piece(d, i)' = Piece(d, i)
           /\ \A i \in 1..Len(ps) : Piece(d, u + i)' = ps[i]
  <1>g. PICK g \in Nat : g = Len(got[d])
    BY SMTT(30) DEF TypeOK
  <1>w. PICK w \in Seq(AllPieces) : w = InWire(d)
    BY InWireAppended
  <1>1. /\ InWire(d)' = w \o ps
        /\ Len(w) \in Nat /\ Len(ps) \in Nat
        /\ Len(w \o ps) = Len(w) + Len(ps)
        /\ \A i \in 1..(Len(w) + Len(ps)) :
               (w \o ps)[i] = IF i <= Len(w) THEN w[i] ELSE ps[i - Len(w)]
    <2>1. InWire(d)' = w \o ps
      BY <1>w, InWireAppended
    <2>2. Len(w) \in Nat /\ Len(ps) \in Nat
      BY SMTT(30)
    <2> QED
      BY <2>1, <2>2, ConcatFacts
  <1>2. u = g + Len(w) /\ Unread(d)' = g + Len(w \o ps) /\ Len(got'[d]) = g
    BY <1>g, <1>w, <1>1 DEF Unread
  <1>3. ASSUME NEW i \in 1..u PROVE Piece(d, i)' = Piece(d, i)
    <2>1. CASE i <= g
      BY <2>1, <1>2, <1>g DEF Piece
    <2>2. CASE i > g
      <3>1. i - g \in 1..Len(w)
        BY <2>2, <1>1, <1>2, SMTT(30)
      <3>2. (w \o ps)[i - g] = w[i - g]
        BY <3>1, <1>1, SMTT(30)
      <3>3. ~(i <= g)
        BY <2>2, SMTT(30)
      <3>4. Piece(d, i) = w[i - g]
        BY <3>3, <1>g, <1>w DEF Piece
      <3>5. Piece(d, i)' = (w \o ps)[i - g]
        BY <3>3, <1>1, <1>2 DEF Piece
      <3> QED
        BY <3>2, <3>4, <3>5
    <2> QED
      BY <2>1, <2>2, SMTT(30)
  <1>4. ASSUME NEW i \in 1..Len(ps) PROVE Piece(d, u + i)' = ps[i]
    <2>1. (u + i) - g = Len(w) + i /\ ~(u + i <= g) /\ Len(w) + i \in 1..(Len(w) + Len(ps))
      BY <1>1, <1>2, SMTT(30)
    <2>2. (w \o ps)[Len(w) + i] = ps[i]
      <3>1. ~(Len(w) + i <= Len(w)) /\ (Len(w) + i) - Len(w) = i
        BY <1>1, SMTT(30)
      <3> QED
        BY <2>1, <3>1, <1>1
    <2>3. Piece(d, u + i)' = (w \o ps)[(u + i) - g]
      BY <2>1, <1>1, <1>2 DEF Piece
    <2> QED
      BY <2>1, <2>2, <2>3
  <1> QED
    BY <1>1, <1>2, <1>3, <1>4, SMTT(30)

\* More behind a whole message of the handshake leaves that message ahead.
LEMMA AheadKept ==
    ASSUME NEW d \in Roles, Ahead(d), hs[Peer[d]] = 3, hs'[Peer[d]] = 3,
           UNCHANGED <<transport, major>>, hs'[d] = hs[d], got'[d] = got[d], need'[d] = need[d],
           NEW u \in Nat, u = Unread(d), FrameLen <= u, Unread(d)' >= u,
           Unread(d)' \in Nat,
           \A i \in 1..u : Piece(d, i)' = Piece(d, i)
    PROVE  Ahead(d)'
  <1>1. FrameLen' = FrameLen /\ Layout' = Layout /\ FrameLen \in {1, 4}
    BY DEF FrameLen, Layout
  <1>2. DueMessage(d)' = DueMessage(d)
    BY DEF DueMessage, Peer
  <1>3. ASSUME NEW i \in 1..FrameLen
        PROVE  Piece(d, i)' = [frame |-> DueMessage(d), piece |-> Layout[i]]
    <2>1. i \in 1..u /\ i <= Unread(d)
      BY <1>1, SMTT(30)
    <2> QED
      BY <2>1 DEF Ahead
  <1>4. Len(got'[d]) < FrameLen /\ (Len(got'[d]) >= 2 => need'[d] = 2)
    BY DEF Ahead
  <1>5. Unread(d)' >= FrameLen
    BY <1>1, SMTT(30)
  <1>6. Peer' = Peer
    BY DEF Peer
  <1> QED
    BY <1>1, <1>2, <1>3, <1>4, <1>5, <1>6, SMTT(30) DEF Ahead

\* The body follows the prefix (quic.rs:282-285): it completes the message that
\* the peer waits for, or it comes behind it.
LEMMA ConnectionBody ==
    ASSUME IInv, NEW e \in Roles, send_body(e)
    PROVE  IInv'
  <1>type. TypeOK /\ Turns /\ OneStream
    BY DEF IInv
  <1>d. PICK d \in Roles : d = Peer[e]
    BY PeerFacts
  <1>p. d # e /\ Peer[d] = e /\ Peer' = Peer /\ (\A c \in Roles : c = e \/ c = d)
    BY <1>d, PeerFacts DEF Peer, Roles
  <1>o. out[e] # <<>> /\ out[e] \in Seq(Frames)
    BY <1>type DEF send_body, TypeOK
  <1>f. PICK f \in Frames : f = Head(out[e]) /\ f = out[e][1] /\ 1 \in DOMAIN out[e]
    BY <1>o, SMTT(30)
  <1>u. /\ UNCHANGED <<transport, major, phase, hs, remote, stream, got, need, sent, received,
                       dropped, failed>>
        /\ Writes(e, Pieces(f, Body))
        /\ out' = [out EXCEPT ![e] = <<>>]
    BY <1>f DEF send_body
  <1>ps. PICK ps \in Seq(AllPieces) :
             /\ ps = Pieces(f, Body)
             /\ Len(ps) = 2
             /\ ps[1] = [frame |-> f, piece |-> "data1"]
             /\ ps[2] = [frame |-> f, piece |-> "data2"]
    BY PiecesFacts
  <1>w. wire' = [wire EXCEPT !["Initiator"][Peer[e]] = @ \o ps]
    <2>1. send_stream(e) = "Initiator"
      BY <1>type, <1>o, StreamFacts
    <2> QED
      BY <1>u, <1>ps, <2>1, PeerFacts DEF Writes
  <1>e. /\ out'[e] = <<>> /\ out'[d] = out[d] /\ out' \in [Roles -> Seq(Frames)]
    BY <1>u, <1>p, <1>type, SMTT(30) DEF TypeOK
  <1>1. TypeOK'
    <2>1. wire' \in [Roles -> [Roles -> Seq(AllPieces)]]
      <3>1. "Initiator" \in Roles
        BY DEF Roles
      <3>2. wire["Initiator"][Peer[e]] \o ps \in Seq(AllPieces)
        <4>1. wire["Initiator"][Peer[e]] \in Seq(AllPieces)
          <5>1. wire["Initiator"] \in [Roles -> Seq(AllPieces)]
            BY <3>1, <1>type DEF TypeOK
          <5> QED
            BY <5>1, <1>d
        <4> QED
          BY <4>1, ConcatFacts
      <3> QED
        BY <3>1, <3>2, <1>w, <1>type, PeerFacts DEF TypeOK
    <2> QED
      BY <2>1, <1>e, <1>u, <1>type DEF TypeOK, None
  <1>2. Turns'
    BY <1>u, <1>type DEF Turns
  <1>3. OneStream'
    BY <1>u, <1>e, <1>p, <1>type DEF OneStream, None
  <1>4. Genuine'
    <2>1. MoreSent /\ Genuine
      BY <1>type, <1>u, NothingSent DEF IInv
    <2>2. Made(e, f)'
      <3>1. Made(e, f)
        BY <2>1, <1>f DEF Genuine, OutGenuine
      <3> QED
        BY <3>1, <1>u DEF Made
    <2>3. ASSUME NEW i \in 1..Len(ps) PROVE ps[i].frame = f
      <3>1. i = 1 \/ i = 2
        BY <1>ps, SMTT(30)
      <3> QED
        BY <3>1, <1>ps, SMTT(30)
    <2>4. WireGenuine'
      BY <2>1, <2>2, <2>3, <1>w, <1>type, WireAppended DEF Genuine
    <2>5. GotGenuine'
      BY <2>1, <1>u, <1>type, GotKept DEF Genuine
    <2>6. OutGenuine'
      <3>1. \A c \in Roles \ {e} : out'[c] = out[c]
        BY <1>e, <1>p
      <3> QED
        BY <2>1, <3>1, <1>e, <1>type, OutKept DEF Genuine
    <2>7. SentGenuine'
      BY <2>1, <1>u DEF Genuine, SentGenuine
    <2> QED
      BY <2>4, <2>5, <2>6, <2>7 DEF Genuine
  <1>5. Learnt'
    BY <1>u, <1>p DEF IInv, Learnt
  <1>6. Handshaking'
    <2>i. /\ InWire(e)' = InWire(e)
          /\ InWire(d) \in Seq(AllPieces) /\ Len(InWire(d)) \in Nat
          /\ InWire(d)' = InWire(d) \o ps
          /\ Len(InWire(d) \o ps) = Len(InWire(d)) + Len(ps)
          /\ \A i \in 1..(Len(InWire(d)) + Len(ps)) :
                 (InWire(d) \o ps)[i] = IF i <= Len(InWire(d)) THEN InWire(d)[i]
                                        ELSE ps[i - Len(InWire(d))]
      BY <1>type, <1>d, <1>w, InWireAppended, ZenonT(60)
    <2>l. /\ FrameLen' = FrameLen /\ Layout' = Layout /\ DueMessage(d)' = DueMessage(d)
          /\ DueMessage(e)' = DueMessage(e) /\ Unread(e)' = Unread(e) /\ FrameLen \in {1, 4}
          /\ \A i \in 1..FrameLen : Piece(e, i)' = Piece(e, i)
      BY <2>i, <1>u, <1>p DEF FrameLen, Layout, DueMessage, Unread, Piece
    <2>g. Len(got[d]) \in Nat
      BY <1>type, SMTT(30) DEF TypeOK
    <2>r. PICK u \in Nat : u = Unread(d)
      BY <2>g, <2>i, SMTT(30) DEF Unread
    <2>n. /\ Unread(d)' = u + 2
          /\ \A i \in 1..u : Piece(d, i)' = Piece(d, i)
          /\ Piece(d, u + 1)' = ps[1] /\ Piece(d, u + 2)' = ps[2]
      <3>1. /\ Unread(d)' = u + Len(ps)
            /\ \A i \in 1..u : Piece(d, i)' = Piece(d, i)
            /\ \A i \in 1..Len(ps) : Piece(d, u + i)' = ps[i]
        BY <2>r, <1>type, <1>d, <1>u, <1>w, UnreadAppended, ZenonT(60)
      <3> QED
        BY <3>1, <1>ps, SMTT(30)
    <2>1. ASSUME phase[d] \in {"reading", "writing"}
          PROVE  hs[e] > hs[d] /\ Ahead(d)'
      <3>1. hs[e] > hs[d] /\ Ahead(d)
        BY <2>1, <1>p, <1>o DEF IInv, Handshaking, Quiet
      <3>2. CASE transport = "quic" /\ Unread(d) = 2 /\ out[e] = <<DueMessage(d)>>
        <4>1. f = DueMessage(d)
          BY <3>2, <1>f, SMTT(30)
        <4>2. u = 2 /\ FrameLen = 4
          BY <3>2, <2>r DEF FrameLen
        <4>3. /\ Layout[1] = "len1" /\ Layout[2] = "len2" /\ Layout[3] = "data1"
              /\ Layout[4] = "data2"
          BY <3>2 DEF Layout
        <4>4. /\ Piece(d, 1) = [frame |-> f, piece |-> Layout[1]]
              /\ Piece(d, 2) = [frame |-> f, piece |-> Layout[2]]
          BY <3>1, <4>1, <4>2, <2>r, SMTT(30) DEF Ahead
        <4>5. /\ Piece(d, 1)' = Piece(d, 1) /\ Piece(d, 2)' = Piece(d, 2)
              /\ Piece(d, 3)' = ps[1] /\ Piece(d, 4)' = ps[2]
          BY <4>2, <2>n, SMTT(30)
        <4>6. \A i \in 1..4 : i = 1 \/ i = 2 \/ i = 3 \/ i = 4
          BY SMTT(30)
        <4>7. \A i \in 1..4 : Piece(d, i)' = [frame |-> f, piece |-> Layout[i]]
          BY <4>3, <4>4, <4>5, <4>6, <1>ps
        <4>8. Unread(d)' = 4 /\ FrameLen' = 4 /\ Layout' = Layout /\ DueMessage(d)' = f
          BY <4>1, <4>2, <2>n, <2>l, SMTT(30)
        <4>9. Len(got'[d]) < 4 /\ (Len(got'[d]) >= 2 => need'[d] = 2)
          BY <3>1, <4>2, <1>u DEF Ahead
        <4> QED
          BY <3>1, <4>7, <4>8, <4>9, <1>e, <1>p, SMTT(30) DEF Ahead
      <3>3. CASE Unread(d) >= FrameLen /\ (hs[e] < 3 => out[e] = <<>>)
        <4>1. hs[e] = 3 /\ hs[e] \in 0..3
          <5>1. hs[e] \in 0..3
            BY <1>type DEF TypeOK
          <5> QED
            BY <5>1, <3>3, <1>o, SMTT(30)
        <4>2. Unread(d)' >= u /\ Unread(d)' \in Nat /\ FrameLen <= u
          BY <2>n, <2>r, <2>l, <3>3, SMTT(30)
        <4> QED
          BY <3>1, <4>1, <4>2, <2>n, <2>r, <1>u, <1>p, AheadKept
      <3> QED
        BY <3>1, <3>2, <3>3, <1>p DEF Ahead
    <2>2. ASSUME phase[e] \in {"reading", "writing"}
          PROVE  (IF hs[d] > hs[e] THEN Ahead(e) ELSE Quiet(e))'
      <3>1. IF hs[d] > hs[e] THEN Ahead(e) ELSE Quiet(e)
        BY <2>2, <1>d DEF IInv, Handshaking
      <3>2. Ahead(e) => Ahead(e)'
        BY <2>l, <1>u, <1>e, <1>d, <1>p, SMTT(30) DEF Ahead
      <3>3. Quiet(e) => Quiet(e)'
        BY <2>i, <1>u, <1>e, <1>d, <1>p DEF Quiet
      <3> QED
        BY <3>1, <3>2, <3>3, <1>u
    <2> SUFFICES ASSUME NEW c \in Roles, phase'[c] \in {"reading", "writing"}
                 PROVE  (IF hs[Peer[c]] > hs[c] THEN Ahead(c) ELSE Quiet(c))'
      BY <1>p DEF Handshaking
    <2>5. CASE c = e
      BY <2>5, <2>2, <1>u, <1>d, <1>p
    <2>6. CASE c = d
      BY <2>6, <2>1, <1>u, <1>p
    <2> QED
      BY <2>5, <2>6, <1>p
  <1>7. FailuresHaveCause'
    BY <1>u, CausesKept
  <1> QED
    BY <1>1, <1>2, <1>3, <1>4, <1>5, <1>6, <1>7 DEF IInv

\* The write arm (lib.rs:373-387): a data frame comes behind whatever its peer
\* has still to read.
LEMMA ConnectionSends ==
    ASSUME IInv, NEW e \in Roles, write_arm(e)
    PROVE  IInv'
  <1>type. TypeOK /\ Turns /\ OneStream
    BY DEF IInv
  <1>d. PICK d \in Roles : d = Peer[e]
    BY PeerFacts
  <1>p. d # e /\ Peer[d] = e /\ Peer' = Peer /\ (\A c \in Roles : c = e \/ c = d)
    BY <1>d, PeerFacts DEF Peer, Roles
  <1>w. phase[e] = "transport" /\ hs[e] = 3
    BY <1>type DEF write_arm, Turns
  <1>l. PICK l \in Nat : l = Len(sent[e])
    BY <1>type, SMTT(30) DEF TypeOK
  <1>f. PICK f \in Frames : f = [type |-> "data", n |-> l] /\ f \in DataFrames
    <2>1. [type |-> "data", n |-> l] \in DataFrames
      BY DEF DataFrames
    <2> QED
      BY <2>1 DEF Frames
  <1>u. /\ UNCHANGED <<transport, major, phase, hs, remote, received, failed>>
        /\ send(e, f)
        /\ sent' = [sent EXCEPT ![e] = Append(@, f)]
        /\ got' = [got EXCEPT ![e] = <<>>]
        /\ need' = [need EXCEPT ![e] = 0]
    BY <1>l, <1>f DEF write_arm, encrypt
  <1>s. FirstWrite(e, f)
    BY <1>type, <1>w, <1>u, SendEffect
  <1>o. out[e] = <<>> /\ out'[d] = out[d] /\ (out'[e] = IF transport = "mock" THEN <<>> ELSE <<f>>)
    BY <1>s, <1>p, <1>type DEF TypeOK, FirstWrite
  <1>ps. PICK ps \in Seq(AllPieces) :
               /\ Len(ps) = IF transport = "mock" THEN 1 ELSE 2
               /\ \A i \in 1..Len(ps) : ps[i] = [frame |-> f, piece |-> Layout[i]]
               /\ wire' = [wire EXCEPT !["Initiator"][Peer[e]] = @ \o ps]
    BY <1>s DEF FirstWrite
  <1>e. /\ sent'[e] = Append(sent[e], f) /\ sent'[d] = sent[d]
        /\ got'[e] = <<>> /\ got'[d] = got[d] /\ need'[d] = need[d]
    BY <1>u, <1>p, <1>type DEF TypeOK
  <1>1. TypeOK'
    <2>1. sent' \in [Roles -> Seq(DataFrames)] /\ got' \in [Roles -> Seq(AllPieces)]
      BY <1>u, <1>f, <1>type, SMTT(30) DEF TypeOK
    <2>2. need' \in [Roles -> Nat]
      BY <1>u, <1>type DEF TypeOK
    <2> QED
      BY <2>1, <2>2, <1>type, <1>u, <1>s DEF TypeOK, None, FirstWrite
  <1>2. Turns'
    BY <1>u, <1>type DEF Turns
  <1>3. OneStream'
    <2>1. stream'[e] = "Initiator" /\ stream'[d] = stream[d] /\ None # "Initiator"
      BY <1>s, <1>p, <1>type, SMTT(30) DEF TypeOK, None, FirstWrite
    <2> QED
      BY <2>1, <1>p, <1>o, <1>u, <1>type DEF OneStream, None
  <1>4. Genuine'
    <2>0. sent[e] \in Seq(DataFrames) /\ Len(sent'[e]) = l + 1 /\ sent[d] \in Seq(DataFrames)
      BY <1>e, <1>l, <1>type, SMTT(30) DEF TypeOK
    <2>1. MoreSent
      BY <2>0, <1>e, <1>l, <1>p, <1>u, SMTT(30) DEF MoreSent
    <2>g. Genuine
      BY DEF IInv
    <2>2. Made(e, f)'
      BY <2>0, <1>f, SMTT(30) DEF Made
    <2>3. ASSUME NEW i \in 1..Len(ps) PROVE ps[i].frame = f
      <3>1. ps[i] = [frame |-> f, piece |-> Layout[i]]
        BY <1>ps
      <3> QED
        BY <3>1, SMTT(30)
    <2>4. WireGenuine'
      BY <2>1, <2>g, <2>2, <2>3, <1>ps, <1>type, WireAppended DEF Genuine
    <2>5. GotGenuine'
      <3>1. \A c \in Roles : got'[c] = got[c] \/ got'[c] = <<>>
        BY <1>e, <1>p
      <3> QED
        BY <3>1, <2>1, <2>g, <1>type, GotKept DEF Genuine
    <2>6. OutGenuine'
      <3>1. out'[e] = <<>> \/ \E g \in Frames : out'[e] = <<g>> /\ Made(e, g)'
        BY <1>o, <2>2
      <3>2. \A c \in Roles \ {e} : out'[c] = out[c]
        BY <1>o, <1>p
      <3> QED
        BY <2>1, <2>g, <3>1, <3>2, <1>type, OutKept DEF Genuine
    <2>7. SentGenuine'
      <3> SUFFICES ASSUME NEW c \in Roles, NEW i \in DOMAIN sent'[c]
                   PROVE  sent'[c][i] = [type |-> "data", n |-> i - 1]
        BY DEF SentGenuine
      <3>1. CASE c = d
        BY <3>1, <2>g, <1>e DEF Genuine, SentGenuine
      <3>2. CASE c = e
        <4>1. i \in 1..(l + 1)
          BY <3>2, <2>0, <1>e, SMTT(30)
        <4>2. CASE i = l + 1
          <5>1. sent'[e][i] = f
            BY <4>2, <1>e, <1>l, <2>0, SMTT(30)
          <5>2. i - 1 = l
            BY <4>2, SMTT(30)
          <5> QED
            BY <3>2, <5>1, <5>2, <1>f
        <4>3. CASE i # l + 1
          <5>1. i \in 1..l
            BY <4>1, <4>3, SMTT(30)
          <5>2. sent'[e][i] = sent[e][i] /\ i \in DOMAIN sent[e]
            BY <5>1, <1>e, <1>l, <2>0, SMTT(30)
          <5> QED
            BY <3>2, <5>2, <2>g DEF Genuine, SentGenuine
        <4> QED
          BY <4>2, <4>3
      <3> QED
        BY <3>1, <3>2, <1>p
    <2> QED
      BY <2>4, <2>5, <2>6, <2>7 DEF Genuine
  <1>5. Learnt'
    BY <1>u, <1>p DEF IInv, Learnt
  <1>6. Handshaking'
    <2>i. InWire(d) \in Seq(AllPieces) /\ Len(InWire(d)) \in Nat
      BY <1>type, <1>d, <1>ps, InWireAppended
    <2>g. Len(got[d]) \in Nat
      BY <1>type, SMTT(30) DEF TypeOK
    <2>r. PICK u \in Nat : u = Unread(d)
      BY <2>g, <2>i, SMTT(30) DEF Unread
    <2>n. /\ Unread(d)' = u + Len(ps)
          /\ \A i \in 1..u : Piece(d, i)' = Piece(d, i)
      <3>1. got'[d] = got[d] /\ wire' = [wire EXCEPT !["Initiator"][Peer[e]] = @ \o ps]
        BY <1>e, <1>ps
      <3> QED
        BY <2>r, <3>1, <1>type, <1>d, UnreadAppended, ZenonT(60)
    <2>1. ASSUME phase[d] \in {"reading", "writing"}
          PROVE  hs[e] > hs[d] /\ Ahead(d)'
      <3>1. hs[d] < 3 /\ hs[d] \in 0..3
        <4>1. hs[d] # 3
          BY <2>1, <1>d, <1>type, SMTT(30) DEF Turns, Roles
        <4> QED
          BY <4>1, <1>type, SMTT(30) DEF TypeOK
      <3>2. hs[e] > hs[d] /\ Ahead(d)
        BY <2>1, <3>1, <1>p, <1>w DEF IInv, Handshaking
      <3>3. Unread(d) >= FrameLen
        <4>1. out[e] # <<DueMessage(d)>>
          BY <1>o, SMTT(30)
        <4> QED
          BY <3>2, <4>1, <1>p DEF Ahead
      <3>4. Unread(d)' >= u /\ Unread(d)' \in Nat /\ FrameLen <= u
        BY <2>n, <2>r, <3>3, <1>ps, SMTT(30) DEF FrameLen
      <3>5. FrameLen' = FrameLen /\ Layout' = Layout /\ FrameLen \in {1, 4}
        BY <1>u DEF FrameLen, Layout
      <3> QED
        BY <3>2, <3>4, <2>n, <2>r, <1>u, <1>e, <1>p, <1>w, AheadKept
    <2> SUFFICES ASSUME NEW c \in Roles, phase'[c] \in {"reading", "writing"}
                 PROVE  (IF hs[Peer[c]] > hs[c] THEN Ahead(c) ELSE Quiet(c))'
      BY <1>p DEF Handshaking
    <2>5. c = d
      BY <1>p, <1>u, <1>w
    <2> QED
      BY <2>5, <2>1, <1>u, <1>p
  <1>7. FailuresHaveCause'
    BY <1>u, CausesKept
  <1> QED
    BY <1>1, <1>2, <1>3, <1>4, <1>5, <1>6, <1>7 DEF IInv

\* An end goes: what it leaves on the stream stays, and its peer's handshake may
\* fail for it.
LEMMA ConnectionGoes ==
    ASSUME IInv, NEW e \in Roles, disconnected(e) \/ close(e)
    PROVE  IInv'
  <1>type. TypeOK /\ Turns /\ OneStream
    BY DEF IInv
  <1>d. PICK d \in Roles : d = Peer[e]
    BY PeerFacts
  <1>p. d # e /\ Peer[d] = e /\ Peer' = Peer /\ (\A c \in Roles : c = e \/ c = d)
    BY <1>d, PeerFacts DEF Peer, Roles
  <1>u. /\ UNCHANGED <<transport, major, hs, remote, stream, wire, out, got, need, sent, received>>
        /\ phase' = [phase EXCEPT ![e] = "gone"]
        /\ failed' = failed \/ (failed' = failed \cup {e} /\ phase[d] = "gone")
    BY <1>d, PeerFacts DEF disconnected, close
  <1>h. /\ phase'[e] = "gone" /\ phase'[d] = phase[d]
        /\ phase' \in [Roles -> {"writing", "reading", "transport", "gone"}]
    BY <1>u, <1>p, <1>type DEF TypeOK
  <1>1. TypeOK'
    BY <1>u, <1>h, <1>type DEF TypeOK, None
  <1>2. Turns'
    BY <1>u, <1>h, <1>p, <1>type DEF Turns, Roles
  <1>3. OneStream'
    BY <1>u, <1>type DEF OneStream, None
  <1>4. Genuine'
    <2>1. Genuine
      BY ZenonT(60) DEF IInv
    <2>2. WireGenuine'
      BY <2>1, <1>u, <1>p, SMTT(30) DEF Genuine, WireGenuine, Made
    <2>3. GotGenuine'
      BY <2>1, <1>u, <1>p, SMTT(30) DEF Genuine, GotGenuine, Made
    <2>4. OutGenuine'
      BY <2>1, <1>u, SMTT(30) DEF Genuine, OutGenuine, Made
    <2>5. SentGenuine'
      BY <2>1, <1>u DEF Genuine, SentGenuine
    <2> QED
      BY <2>2, <2>3, <2>4, <2>5 DEF Genuine
  <1>5. Learnt'
    BY <1>u, <1>p DEF IInv, Learnt
  <1>6. Handshaking'
    <2>1. phase'[d] \in {"reading", "writing"} => IF hs[e] > hs[d] THEN Ahead(d) ELSE Quiet(d)
      BY <1>h, <1>p DEF IInv, Handshaking
    <2>2. Ahead(d)' = Ahead(d) /\ Quiet(d)' = Quiet(d)
      BY <1>u, <1>p, SMTT(30) DEF Ahead, Quiet, Unread, InWire, Piece, FrameLen, Layout, DueMessage
    <2> SUFFICES ASSUME NEW c \in Roles, phase'[c] \in {"reading", "writing"}
                 PROVE  (IF hs[Peer[c]] > hs[c] THEN Ahead(c) ELSE Quiet(c))'
      BY <1>p DEF Handshaking
    <2>3. c = d
      BY <1>p, <1>h
    <2> QED
      BY <2>1, <2>2, <2>3, <1>u, <1>p
  <1>7. FailuresHaveCause'
    <2> SUFFICES ASSUME NEW c \in failed'
                 PROVE  major'[c] # major'[Peer[c]] \/ phase'[Peer[c]] = "gone"
      BY <1>p DEF FailuresHaveCause
    <2>1. CASE c \in failed
      <3>1. c \in Roles /\ (major[c] # major[Peer[c]] \/ phase[Peer[c]] = "gone")
        BY <2>1, <1>type DEF IInv, FailuresHaveCause, TypeOK
      <3> QED
        BY <3>1, <1>u, <1>h, <1>p, <1>d, SMTT(30)
    <2>2. CASE c \notin failed
      BY <2>2, <1>u, <1>h, <1>d
    <2> QED
      BY <2>1, <2>2
  <1> QED
    BY <1>1, <1>2, <1>3, <1>4, <1>5, <1>6, <1>7 DEF IInv


-----------------------------------------------------------------------------
\* recv of e takes a piece from stream w and has ps then.
Takes(e, w, ps) ==
    /\ w \in Seq(AllPieces) /\ Len(w) > 0 /\ w = InWire(e)
    /\ wire' = [wire EXCEPT !["Initiator"][e] = Tail(w)]
    /\ stream' = [stream EXCEPT ![e] = "Initiator"]
    /\ ps = Append(got[e], w[1]) /\ ps \in Seq(AllPieces)
    /\ \A i \in 1..Len(ps) : Made(Peer[e], ps[i].frame)
    /\ UNCHANGED <<transport, major, out, sent>>

\* That is the beginning of every recv (quic.rs:287-308).
LEMMA RecvTakes ==
    ASSUME IInv, NEW e \in Roles, recv(e)
    PROVE  /\ Takes(e, InWire(e), Append(got[e], Head(InWire(e))))
           /\ wire[recv_stream(e)][e] = InWire(e)
  <1>type. TypeOK /\ Turns /\ OneStream
    BY DEF IInv
  <1>1. recv_stream(e) = "Initiator"
    BY <1>type, StreamFacts DEF recv
  <1>i. "Initiator" \in Roles /\ Peer[e] \in Roles
    BY PeerFacts DEF Roles
  <1>w. PICK w \in Seq(AllPieces) : w = wire["Initiator"][e]
    <2>1. wire["Initiator"] \in [Roles -> Seq(AllPieces)]
      BY <1>i, <1>type DEF TypeOK
    <2> QED
      BY <2>1
  <1>2. /\ w # <<>>
        /\ stream' = [stream EXCEPT ![e] = "Initiator"]
        /\ wire' = [wire EXCEPT !["Initiator"][e] = Tail(w)]
        /\ UNCHANGED <<transport, major, out, sent>>
    BY <1>1, <1>w DEF recv
  <1>3. Len(w) > 0 /\ Len(w) \in Nat /\ Head(w) = w[1] /\ w[1] \in AllPieces /\ 1 \in DOMAIN w
    BY <1>2, SMTT(30)
  <1>4. got[e] \in Seq(AllPieces)
    BY <1>type DEF TypeOK
  <1>ps. PICK ps \in Seq(AllPieces) : ps = Append(got[e], w[1])
    <2>1. Append(got[e], w[1]) \in Seq(AllPieces)
      BY <1>3, <1>4, AppendFacts
    <2> QED
      BY <2>1
  <1>5. ASSUME NEW i \in 1..Len(ps) PROVE Made(Peer[e], ps[i].frame)
    <2>1. CASE i \in 1..Len(got[e])
      <3>1. ps[i] = got[e][i] /\ i \in DOMAIN got[e]
        BY <2>1, <1>ps, <1>3, <1>4, SMTT(30)
      <3>2. Made(Peer[e], got[e][i].frame)
        BY <3>1 DEF IInv, Genuine, GotGenuine
      <3> QED
        BY <3>1, <3>2
    <2>2. CASE i = Len(got[e]) + 1
      <3>1. ps[i] = w[1]
        BY <2>2, <1>ps, <1>3, <1>4, SMTT(30)
      <3>2. Made(Peer[e], w[1].frame)
        BY <1>i, <1>w, <1>3 DEF IInv, Genuine, WireGenuine
      <3> QED
        BY <3>1, <3>2
    <2>3. i \in 1..(Len(got[e]) + 1) /\ Len(got[e]) \in Nat
      BY <1>ps, <1>3, <1>4, SMTT(30)
    <2> QED
      BY <2>1, <2>2, <2>3, SMTT(30)
  <1>6. Takes(e, w, ps)
    BY <1>w, <1>2, <1>3, <1>ps, <1>5 DEF Takes, InWire
  <1> QED
    BY <1>1, <1>w, <1>3, <1>ps, <1>6 DEF InWire

\* What a recv of e leaves: of the stream the rest, and g of the pieces.
Leaves(e, d, w, g, m) ==
    /\ wire' \in [Roles -> [Roles -> Seq(AllPieces)]]
    /\ stream' \in [Roles -> {"Initiator", None}]
    /\ got' \in [Roles -> Seq(AllPieces)]
    /\ need' \in [Roles -> Nat]
    /\ OneStream'
    /\ Genuine'
    /\ InWire(d)' = InWire(d) /\ InWire(e)' = Tail(w)
    /\ got'[d] = got[d] /\ got'[e] = g
    /\ need'[d] = need[d] /\ need'[e] = m

\* The pieces that recv has taken are kept or given up.
LEMMA TakesKeeps ==
    ASSUME IInv, NEW e \in Roles, NEW w, NEW ps, Takes(e, w, ps),
           NEW g \in {<<>>, ps}, got' = [got EXCEPT ![e] = g],
           NEW m \in Nat, need' = [need EXCEPT ![e] = m],
           NEW d \in Roles, d = Peer[e], hs'[d] = hs[d]
    PROVE  Leaves(e, d, w, g, m)
  <1>type. TypeOK /\ OneStream /\ Genuine
    BY DEF IInv
  <1>p. d # e /\ Peer[d] = e /\ Peer' = Peer /\ "Initiator" \in Roles
        /\ (\A c \in Roles : c = e \/ c = d)
    BY PeerFacts DEF Peer, Roles
  <1>t. w \in Seq(AllPieces) /\ w # <<>> /\ Tail(w) \in Seq(AllPieces)
    BY SMTT(30) DEF Takes
  <1>s. /\ wire' = [wire EXCEPT !["Initiator"][e] = Tail(w)]
        /\ stream' = [stream EXCEPT ![e] = "Initiator"]
        /\ UNCHANGED <<transport, major, out, sent>>
        /\ ps \in Seq(AllPieces) /\ w = wire["Initiator"][e]
    BY DEF Takes, InWire
  <1>1. wire' \in [Roles -> [Roles -> Seq(AllPieces)]]
    BY <1>type, <1>s, <1>t, <1>p DEF TypeOK
  <1>2. /\ wire'["Initiator"][e] = Tail(w)
        /\ wire'["Initiator"][d] = wire["Initiator"][d]
        /\ \A o \in Roles : o # "Initiator" => wire'[o] = wire[o]
    BY <1>type, <1>s, <1>p, SMTT(30) DEF TypeOK
  <1>3. /\ stream' \in [Roles -> {"Initiator", None}]
        /\ stream'[e] = "Initiator" /\ stream'[d] = stream[d]
    BY <1>type, <1>s, <1>p DEF TypeOK
  <1>4. /\ got' \in [Roles -> Seq(AllPieces)]
        /\ got'[d] = got[d] /\ got'[e] = g
    <2>1. g \in Seq(AllPieces)
      <3>1. <<>> \in Seq(AllPieces)
        BY SMTT(30)
      <3> QED
        BY <3>1, <1>s
    <2> QED
      BY <2>1, <1>type, <1>p DEF TypeOK
  <1>5. /\ need' \in [Roles -> Nat]
        /\ need'[d] = need[d] /\ need'[e] = m
    BY <1>type, <1>p DEF TypeOK
  <1>6. OneStream'
    <2>1. None # "Initiator"
      BY DEF None
    <2> QED
      BY <2>1, <1>type, <1>p, <1>3, <1>s DEF OneStream, None
  <1>7. Genuine'
    <2>1. WireGenuine'
      <3> SUFFICES ASSUME NEW o \in Roles, NEW c \in Roles, NEW i \in DOMAIN wire'[o][c]
                   PROVE  Made(Peer[c], wire[o][c][i].frame)'
        BY <1>p DEF WireGenuine
      <3>1. ASSUME NEW j \in DOMAIN wire[o][c], wire'[o][c][i] = wire[o][c][j]
            PROVE  Made(Peer[c], wire[o][c][i].frame)'
        <4>1. Made(Peer[c], wire[o][c][j].frame)
          BY <1>type DEF Genuine, WireGenuine
        <4> QED
          BY <3>1, <4>1, <1>s, <1>p DEF Made
      <3>2. CASE wire'[o][c] = wire[o][c]
        BY <3>1, <3>2
      <3>3. CASE o = "Initiator" /\ c = e
        <4>1. wire'[o][c] = Tail(w) /\ wire[o][c] = w
          BY <3>3, <1>2, <1>s
        <4>2. i + 1 \in DOMAIN w /\ Tail(w)[i] = w[i + 1]
          BY <4>1, <1>t, SMTT(30)
        <4> QED
          BY <3>1, <4>1, <4>2
      <3> QED
        BY <3>2, <3>3, <1>2, <1>p
    <2>2. GotGenuine'
      <3> SUFFICES ASSUME NEW c \in Roles, NEW i \in DOMAIN got'[c]
                   PROVE  Made(Peer[c], got[c][i].frame)'
        BY <1>p DEF GotGenuine
      <3>1. CASE c = d
        <4>1. Made(Peer[d], got[d][i].frame)
          BY <3>1, <1>4, <1>type DEF Genuine, GotGenuine
        <4> QED
          BY <3>1, <4>1, <1>4, <1>s, <1>p DEF Made
      <3>2. CASE c = e
        <4>1. got'[e] = ps /\ i \in 1..Len(ps)
          <5>1. DOMAIN <<>> = {}
            BY SMTT(30)
          <5>2. got'[e] = ps
            BY <5>1, <3>2, <1>4
          <5> QED
            BY <5>2, <3>2, <1>s, SMTT(30)
        <4>2. Made(Peer[e], ps[i].frame)
          BY <4>1 DEF Takes
        <4> QED
          BY <3>2, <4>1, <4>2, <1>s, <1>p DEF Made
      <3> QED
        BY <3>1, <3>2, <1>p
    <2>3. OutGenuine'
      BY <1>type, <1>s DEF Genuine, OutGenuine, Made
    <2>4. SentGenuine'
      BY <1>type, <1>s DEF Genuine, SentGenuine
    <2> QED
      BY <2>1, <2>2, <2>3, <2>4 DEF Genuine
  <1>8. InWire(d)' = InWire(d) /\ InWire(e)' = Tail(w)
    BY <1>2 DEF InWire
  <1> QED
    BY <1>1, <1>3, <1>4, <1>5, <1>6, <1>7, <1>8 DEF Leaves

\* How a recv ends: with frame f, or with pieces that do not make one yet.
Ends(e, ps, f) ==
    /\ f \in {ps[1].frame, [type |-> "garbage"]}
    /\ \E g \in {<<>>, ps}, m \in Nat : got' = [got EXCEPT ![e] = g] /\ need' = [need EXCEPT ![e] = m]
    /\ \/ phase[e] = "reading" /\ read_message(e, f)
       \/ phase[e] = "transport" /\ handle_wire_packet(e, f)
       \/ UNCHANGED <<hs, remote, phase, failed, received>>

\* Every recv ends like that, whatever a slipped stream reads as.
LEMMA RecvEnds ==
    ASSUME IInv, NEW e \in Roles, recv(e)
    PROVE  \E w, ps, f : Takes(e, w, ps) /\ Ends(e, ps, f)
  <1>type. TypeOK
    BY DEF IInv
  <1>w. PICK w : w = InWire(e)
    OBVIOUS
  <1>ps. PICK ps : ps = Append(got[e], Head(w))
    OBVIOUS
  <1>t. Takes(e, w, ps) /\ wire[recv_stream(e)][e] = w
    BY <1>w, <1>ps, RecvTakes
  <1>l. PICK len \in IF Len(ps) = PrefixLen THEN BodyLens(ps) ELSE {need[e]} :
            IF Len(ps) >= PrefixLen /\ Len(ps) = PrefixLen + len
            THEN /\ IF phase[e] = "reading"
                    THEN read_message(e, FrameOf(ps))
                    ELSE handle_wire_packet(e, FrameOf(ps))
                 /\ got' = [got EXCEPT ![e] = <<>>]
                 /\ need' = [need EXCEPT ![e] = 0]
            ELSE /\ got' = [got EXCEPT ![e] = ps]
                 /\ need' = [need EXCEPT ![e] = len]
                 /\ UNCHANGED <<hs, remote, phase, failed, received>>
    BY <1>t, <1>ps DEF recv
  <1>n. len \in Nat
    <2>1. need[e] \in Nat
      BY <1>type DEF TypeOK
    <2>2. BodyLens(ps) \subseteq Nat
      <3>1. Len(Body) = 2
        BY DEF Body
      <3> QED
        BY <3>1, ConnectionAssumption, SMTT(30) DEF BodyLens
    <2> QED
      BY <2>1, <2>2
  <1>p. phase[e] = "reading" \/ phase[e] = "transport"
    BY DEF recv
  <1>f. PICK f : f = FrameOf(ps)
    OBVIOUS
  <1>1. f \in {ps[1].frame, [type |-> "garbage"]}
    BY <1>f, FrameOfAny
  <1>2. Ends(e, ps, f)
    <2>1. CASE Len(ps) >= PrefixLen /\ Len(ps) = PrefixLen + len
      <3>1. /\ IF phase[e] = "reading" THEN read_message(e, f)
               ELSE handle_wire_packet(e, f)
            /\ got' = [got EXCEPT ![e] = <<>>]
            /\ need' = [need EXCEPT ![e] = 0]
        BY <1>l, <1>f, <2>1
      <3>2. \E g \in {<<>>, ps}, m \in Nat : got' = [got EXCEPT ![e] = g] /\ need' = [need EXCEPT ![e] = m]
        BY <3>1
      <3>3. \/ phase[e] = "reading" /\ read_message(e, f)
            \/ phase[e] = "transport" /\ handle_wire_packet(e, f)
        BY <3>1, <1>p
      <3> QED
        BY <1>1, <3>2, <3>3 DEF Ends
    <2>2. CASE ~(Len(ps) >= PrefixLen /\ Len(ps) = PrefixLen + len)
      <3>1. /\ got' = [got EXCEPT ![e] = ps]
            /\ need' = [need EXCEPT ![e] = len]
            /\ UNCHANGED <<hs, remote, phase, failed, received>>
        BY <1>l, <2>2
      <3>2. \E g \in {<<>>, ps}, m \in Nat : got' = [got EXCEPT ![e] = g] /\ need' = [need EXCEPT ![e] = m]
        BY <3>1, <1>n
      <3> QED
        BY <1>1, <3>1, <3>2 DEF Ends
    <2> QED
      BY <2>1, <2>2
  <1> QED
    BY <1>t, <1>2

\* recv in the session loop: what is opened is a frame that the peer has sent.
LEMMA ConnectionReceives ==
    ASSUME IInv, NEW e \in Roles, recv(e), phase[e] = "transport"
    PROVE  /\ IInv'
           /\ sent' = sent
           /\ \/ received' = received
              \/ /\ Len(received[e]) < Len(sent[Peer[e]])
                 /\ received' = [received EXCEPT ![e] =
                                     Append(@, sent[Peer[e]][Len(@) + 1])]
  <1>type. TypeOK /\ Turns
    BY DEF IInv
  <1>d. PICK d \in Roles : d = Peer[e]
    BY PeerFacts
  <1>p. d # e /\ Peer[d] = e /\ Peer' = Peer /\ (\A c \in Roles : c = e \/ c = d)
    BY <1>d, PeerFacts DEF Peer, Roles
  <1>t. PICK w, ps, f : Takes(e, w, ps) /\ Ends(e, ps, f)
    BY RecvEnds
  <1>g. PICK g \in {<<>>, ps}, m \in Nat :
            got' = [got EXCEPT ![e] = g] /\ need' = [need EXCEPT ![e] = m]
    BY <1>t DEF Ends
  <1>u. UNCHANGED <<hs, remote, phase, failed, transport, major, out, sent>>
    <2>1. UNCHANGED <<transport, major, out, sent>>
      BY <1>t DEF Takes
    <2>2. UNCHANGED <<hs, remote, phase, failed>>
      BY <1>t DEF Ends, handle_wire_packet
    <2> QED
      BY <2>1, <2>2
  <1>k. Leaves(e, d, w, g, m)
    <2>1. hs'[d] = hs[d]
      BY <1>u
    <2> QED
      BY <1>t, <1>g, <1>d, <2>1, TakesKeeps
  <1>2. Turns'
    BY <1>u, <1>type DEF Turns
  <1>5. Learnt'
    BY <1>u, <1>p DEF IInv, Learnt
  <1>6. Handshaking'
    <2>1. phase'[d] \in {"reading", "writing"} => IF hs[e] > hs[d] THEN Ahead(d) ELSE Quiet(d)
      BY <1>u, <1>p DEF IInv, Handshaking
    <2>2. /\ Unread(d)' = Unread(d) /\ FrameLen' = FrameLen /\ Layout' = Layout
          /\ DueMessage(d)' = DueMessage(d) /\ \A i \in 1..FrameLen : Piece(d, i)' = Piece(d, i)
      BY <1>u, <1>k, <1>p DEF Leaves, Unread, FrameLen, Layout, DueMessage, Piece
    <2>3. Ahead(d) => Ahead(d)'
      BY <2>2, <1>u, <1>k, <1>p DEF Leaves, Ahead
    <2>4. Quiet(d) => Quiet(d)'
      BY <1>u, <1>k, <1>p DEF Leaves, Quiet
    <2> SUFFICES ASSUME NEW c \in Roles, phase'[c] \in {"reading", "writing"}
                 PROVE  (IF hs[Peer[c]] > hs[c] THEN Ahead(c) ELSE Quiet(c))'
      BY <1>p DEF Handshaking
    <2>5. c = d
      BY <1>p, <1>u
    <2> QED
      BY <2>1, <2>3, <2>4, <2>5, <1>u, <1>p
  <1>7. FailuresHaveCause'
    BY <1>u, CausesKept
  <1>r. /\ received' \in [Roles -> Seq(DataFrames)]
        /\ \/ received' = received
           \/ /\ Len(received[e]) < Len(sent[Peer[e]])
              /\ received' = [received EXCEPT ![e] = Append(@, sent[Peer[e]][Len(@) + 1])]
    <2>1. CASE received' = received
      BY <2>1, <1>type DEF TypeOK
    <2>2. CASE received' # received
      <3>1. opens(e, f) /\ received' = [received EXCEPT ![e] = Append(@, f)]
        BY <2>2, <1>t DEF Ends, handle_wire_packet, read_message
      <3>2. f.type = "data" /\ f.n = Len(received[e])
        BY <3>1 DEF opens
      <3>3. f = ps[1].frame
        BY <3>2, <1>t, SMTT(30) DEF Ends
      <3>4. ps \in Seq(AllPieces) /\ 1 \in 1..Len(ps)
        <4>1. got[e] \in Seq(AllPieces) /\ w[1] \in AllPieces /\ ps = Append(got[e], w[1])
          BY <1>t, <1>type, SMTT(30) DEF Takes, TypeOK
        <4> QED
          BY <4>1, AppendFacts, SMTT(30)
      <3>5. Made(d, f)
        BY <3>3, <3>4, <1>t, <1>d DEF Takes
      <3>6. f \in Frames
        BY <3>3, <3>4, PieceType, SMTT(30)
      <3>7. f \in DataFrames /\ f = [type |-> "data", n |-> f.n] /\ f.n \in Nat
        BY <3>2, <3>6, FrameType, SMTT(30) DEF DataFrames
      <3>8. f.n < Len(sent[d])
        BY <3>2, <3>5 DEF Made
      <3>9. sent[d] \in Seq(DataFrames) /\ f.n + 1 \in DOMAIN sent[d]
        BY <3>7, <3>8, <1>type, SMTT(30) DEF TypeOK
      <3>10. sent[d][f.n + 1] = f
        <4>1. sent[d][f.n + 1] = [type |-> "data", n |-> (f.n + 1) - 1]
          BY <3>9 DEF IInv, Genuine, SentGenuine
        <4>2. (f.n + 1) - 1 = f.n
          BY <3>7, SMTT(30)
        <4> QED
          BY <4>1, <4>2, <3>7
      <3>11. received' \in [Roles -> Seq(DataFrames)]
        BY <3>1, <3>7, <1>type, SMTT(30) DEF TypeOK
      <3> QED
        BY <3>1, <3>2, <3>8, <3>10, <3>11, <1>d
    <2> QED
      BY <2>1, <2>2
  <1>1. TypeOK'
    BY <1>type, <1>u, <1>k, <1>r DEF TypeOK, None, Leaves
  <1>8. IInv'
    BY <1>1, <1>2, <1>k, <1>5, <1>6, <1>7 DEF IInv, Leaves
  <1> QED
    BY <1>8, <1>r, <1>u

\* A recv in the handshake takes a piece of the message that is due, D: the last
\* one, and the message is read, or another one.
TakesMessage(e, w, ps, D) ==
    /\ Takes(e, w, ps)
    /\ D = DueMessage(e)
    /\ hs[Peer[e]] > hs[e] /\ Ahead(e)
    /\ Len(ps) = Len(got[e]) + 1 /\ Len(ps) <= FrameLen
    /\ IF Len(ps) = FrameLen
       THEN /\ read_message(e, D)
            /\ got' = [got EXCEPT ![e] = <<>>]
            /\ need' = [need EXCEPT ![e] = 0]
       ELSE /\ got' = [got EXCEPT ![e] = ps]
            /\ \E m \in Nat : need' = [need EXCEPT ![e] = m] /\ (Len(ps) >= 2 => m = 2)
            /\ UNCHANGED <<hs, remote, phase, failed, received>>

\* That is what happens: the stream cannot have slipped yet.
LEMMA RecvTakesMessage ==
    ASSUME IInv, NEW e \in Roles, recv(e), phase[e] = "reading"
    PROVE  \E w, ps, D : TakesMessage(e, w, ps, D)
  <1>type. TypeOK
    BY DEF IInv
  <1>w. PICK w : w = InWire(e)
    OBVIOUS
  <1>ps. PICK ps : ps = Append(got[e], Head(w))
    OBVIOUS
  <1>D. PICK D : D = DueMessage(e)
    OBVIOUS
  <1>t. Takes(e, w, ps) /\ wire[recv_stream(e)][e] = w
    BY <1>w, <1>ps, RecvTakes
  <1>T. /\ w \in Seq(AllPieces) /\ Len(w) > 0 /\ Len(w) \in Nat /\ w # <<>>
        /\ ps = Append(got[e], w[1]) /\ ps \in Seq(AllPieces)
    BY <1>t, SMTT(30) DEF Takes
  <1>a. hs[Peer[e]] > hs[e] /\ Ahead(e)
    <2>1. ~Quiet(e)
      BY <1>T, <1>w DEF Quiet
    <2> QED
      BY <2>1 DEF IInv, Handshaking
  <1>g. PICK g \in Nat : g = Len(got[e]) /\ got[e] \in Seq(AllPieces)
    BY <1>type, SMTT(30) DEF TypeOK
  <1>l. /\ Len(ps) = g + 1
        /\ \A i \in 1..g : ps[i] = got[e][i]
        /\ ps[g + 1] = w[1]
    <2>1. w[1] \in AllPieces
      BY <1>T, SMTT(30)
    <2> QED
      BY <2>1, <1>T, <1>g, AppendFacts, SMTT(30)
  <1>k. PICK k \in Nat : k = Len(ps) /\ k = g + 1
    BY <1>l, SMTT(30)
  <1>f. FrameLen \in {1, 4} /\ g < FrameLen
    BY <1>a, <1>g DEF Ahead, FrameLen
  <1>b. ASSUME NEW i \in 1..(g + 1) PROVE ps[i] = [frame |-> D, piece |-> Layout[i]]
    <2>1. Unread(e) = g + Len(w)
      BY <1>g, <1>w DEF Unread
    <2>2. i \in 1..FrameLen /\ i <= Unread(e)
      BY <2>1, <1>f, <1>T, SMTT(30)
    <2>3. Piece(e, i) = [frame |-> D, piece |-> Layout[i]]
      BY <2>2, <1>a, <1>D DEF Ahead
    <2>4. CASE i <= g
      BY <2>3, <2>4, <1>g, <1>l, SMTT(30) DEF Piece
    <2>5. CASE i = g + 1
      <3>1. ~(i <= g) /\ i - g = 1
        BY <2>5, SMTT(30)
      <3>2. Piece(e, i) = w[1]
        BY <3>1, <1>g, <1>w DEF Piece
      <3> QED
        BY <2>3, <2>5, <3>2, <1>l
    <2> QED
      BY <2>4, <2>5, SMTT(30)
  <1>len. PICK len \in IF Len(ps) = PrefixLen THEN BodyLens(ps) ELSE {need[e]} :
            IF Len(ps) >= PrefixLen /\ Len(ps) = PrefixLen + len
            THEN /\ IF phase[e] = "reading"
                    THEN read_message(e, FrameOf(ps))
                    ELSE handle_wire_packet(e, FrameOf(ps))
                 /\ got' = [got EXCEPT ![e] = <<>>]
                 /\ need' = [need EXCEPT ![e] = 0]
            ELSE /\ got' = [got EXCEPT ![e] = ps]
                 /\ need' = [need EXCEPT ![e] = len]
                 /\ UNCHANGED <<hs, remote, phase, failed, received>>
    BY <1>t, <1>ps DEF recv
  <1>1. CASE transport = "mock"
    <2>1. FrameLen = 1 /\ g = 0 /\ PrefixLen = 1 /\ BodyLens(ps) = {0}
      BY <1>1, <1>f, SMTT(30) DEF FrameLen, PrefixLen, BodyLens
    <2>2. Len(ps) = 1 /\ ps[1] = [frame |-> D, piece |-> "whole"]
      BY <1>1, <2>1, <1>b, <1>l, SMTT(30) DEF Layout
    <2>3. len = 0
      BY <2>1, <2>2
    <2>4. FrameOf(ps) = D
      BY <2>2, <1>T, FrameOfWhole
    <2>5. /\ read_message(e, D)
          /\ got' = [got EXCEPT ![e] = <<>>]
          /\ need' = [need EXCEPT ![e] = 0]
      BY <2>1, <2>2, <2>3, <2>4, <1>len, SMTT(30)
    <2>6. TakesMessage(e, w, ps, D)
      BY <2>1, <2>2, <2>5, <1>t, <1>D, <1>a, <1>g, SMTT(30) DEF TakesMessage
    <2> QED
      BY <2>6
  <1>2. CASE transport = "quic"
    <2>1. FrameLen = 4 /\ PrefixLen = 2
      BY <1>2 DEF FrameLen, PrefixLen, Prefix
    <2>2. /\ Layout[1] = "len1" /\ Layout[2] = "len2"
          /\ \A i \in 1..4 : Layout[i] = <<"len1", "len2", "data1", "data2">>[i]
      BY <1>2 DEF Layout
    <2>3. CASE Len(ps) = 4
      <3>1. g = 3
        BY <2>3, <1>k, SMTT(30)
      <3>2. need[e] = 2
        <4>0. Len(got[e]) = 3
          BY <3>1, <1>g
        <4>1. Len(got[e]) >= 2
          BY <4>0, SMTT(30)
        <4> QED
          BY <4>1, <1>a DEF Ahead
      <3>3. len = 2
        BY <2>1, <2>3, <3>2, SMTT(30)
      <3>4. FrameOf(ps) = D
        <4>1. \A i \in 1..4 : ps[i] = [frame |-> D, piece |-> <<"len1", "len2", "data1", "data2">>[i]]
          BY <2>2, <3>1, <1>b, SMTT(30)
        <4> QED
          BY <2>3, <4>1, <1>T, FrameOfParts
      <3>5. /\ read_message(e, D)
            /\ got' = [got EXCEPT ![e] = <<>>]
            /\ need' = [need EXCEPT ![e] = 0]
        BY <2>1, <2>3, <3>3, <3>4, <1>len, SMTT(30)
      <3>6. TakesMessage(e, w, ps, D)
        <4>1. Len(ps) = Len(got[e]) + 1 /\ Len(ps) <= FrameLen /\ Len(ps) = FrameLen
          BY <2>1, <2>3, <1>k, <1>g, SMTT(30)
        <4> QED
          BY <3>5, <4>1, <1>t, <1>D, <1>a DEF TakesMessage
      <3> QED
        BY <3>6
    <2>4. CASE Len(ps) # 4
      <3>1. g \in 0..2 /\ k \in 1..3
        BY <2>1, <2>4, <1>k, <1>f, SMTT(30)
      <3>2. Len(ps) >= 2 => len = 2
        <4>1. CASE g = 2
          BY <4>1, <2>1, <1>l, <1>g, <1>a, SMTT(30) DEF Ahead
        <4>2. CASE g = 1
          <5>1. ps = Pieces(D, Prefix)
            <6>1. /\ Pieces(D, Prefix)
                         = [i \in 1..2 |-> [frame |-> D, piece |-> <<"len1", "len2">>[i]]]
              BY DEF Pieces, Prefix
            <6>2. /\ ps[1] = [frame |-> D, piece |-> "len1"]
                  /\ ps[2] = [frame |-> D, piece |-> "len2"]
              BY <4>2, <2>2, <1>b, SMTT(30)
            <6>3. ps = [i \in 1..2 |-> [frame |-> D, piece |-> <<"len1", "len2">>[i]]]
              <7>1. Len(ps) = 2
                BY <4>2, <1>l, SMTT(30)
              <7>2. ps \in Seq(AllPieces)
                BY <1>T
              <7> QED
                BY ONLY <6>2, <7>1, <7>2, TwoPieces, SMTT(30)
            <6> QED
              BY <6>1, <6>3
          <5>2. ps[1].frame = D
            BY <4>2, <1>b, SMTT(30)
          <5>3. BodyLens(ps) = {2}
            BY <5>1, <5>2, <1>2 DEF BodyLens, Body
          <5> QED
            BY <5>3, <4>2, <2>1, <1>l, SMTT(30)
        <4> QED
          BY <3>1, <4>1, <4>2, <1>k, SMTT(30)
      <3>3. len \in Nat
        <4>1. CASE Len(ps) >= 2
          BY <4>1, <3>2, SMTT(30)
        <4>2. CASE Len(ps) = 1
          <5>1. need[e] \in Nat
            BY <1>type DEF TypeOK
          <5> QED
            BY <5>1, <4>2, <2>1, SMTT(30)
        <4> QED
          BY <4>1, <4>2, <3>1, <1>k, SMTT(30)
      <3>4. ~(Len(ps) >= PrefixLen /\ Len(ps) = PrefixLen + len)
        BY <2>1, <3>1, <3>2, <3>3, <1>k, SMTT(30)
      <3>5. /\ got' = [got EXCEPT ![e] = ps]
            /\ need' = [need EXCEPT ![e] = len]
            /\ UNCHANGED <<hs, remote, phase, failed, received>>
        BY <3>4, <1>len
      <3>6. TakesMessage(e, w, ps, D)
        <4>1. Len(ps) = Len(got[e]) + 1 /\ Len(ps) <= FrameLen /\ Len(ps) # FrameLen
          BY <2>1, <2>4, <3>1, <1>k, <1>g, SMTT(30)
        <4>2. \E m \in Nat : need' = [need EXCEPT ![e] = m] /\ (Len(ps) >= 2 => m = 2)
          BY <3>2, <3>3, <3>5
        <4> QED
          BY <3>5, <4>1, <4>2, <1>t, <1>D, <1>a DEF TakesMessage
      <3> QED
        BY <3>6
    <2> QED
      BY <2>3, <2>4
  <1> QED
    BY <1>1, <1>2, <1>type DEF TypeOK

\* A piece moves from the stream to the recv: what is unread stays the same.
LEMMA UnreadMoved ==
    ASSUME NEW e \in Roles, NEW w \in Seq(AllPieces), w # <<>>, w = InWire(e),
           got[e] \in Seq(AllPieces), got'[e] = Append(got[e], w[1]), InWire(e)' = Tail(w)
    PROVE  /\ Unread(e)' = Unread(e)
           /\ \A i \in 1..Unread(e) : Piece(e, i)' = Piece(e, i)
  <1>g. PICK g \in Nat : g = Len(got[e])
    BY SMTT(30)
  <1>n. PICK n \in Nat : n = Len(w) /\ n > 0
    BY SMTT(30)
  <1>p. PICK ps : ps = got'[e]
    OBVIOUS
  <1>1. /\ Len(ps) = g + 1 /\ ps[g + 1] = w[1]
        /\ \A i \in 1..g : ps[i] = got[e][i]
    BY <1>g, <1>p, AppendFacts, SMTT(30)
  <1>2. Len(Tail(w)) = n - 1 /\ \A i \in 1..(n - 1) : Tail(w)[i] = w[i + 1]
    BY <1>n, TailFacts, SMTT(30)
  <1>3. Unread(e) = g + n /\ Unread(e)' = (g + 1) + (n - 1)
    BY <1>g, <1>n, <1>p, <1>1, <1>2 DEF Unread
  <1>4. ASSUME NEW i \in 1..(g + n) PROVE Piece(e, i)' = Piece(e, i)
    <2>0. /\ Piece(e, i) = IF i <= g THEN got[e][i] ELSE w[i - g]
          /\ Piece(e, i)' = IF i <= g + 1 THEN ps[i] ELSE Tail(w)[i - (g + 1)]
      BY <1>g, <1>p, <1>1 DEF Piece
    <2>1. CASE i <= g
      BY <2>0, <2>1, <1>1, SMTT(30)
    <2>2. CASE i = g + 1
      <3>1. i - g = 1 /\ ~(i <= g) /\ i <= g + 1
        BY <2>2, SMTT(30)
      <3> QED
        BY <2>0, <2>2, <3>1, <1>1
    <2>3. CASE i > g + 1
      <3>1. i - (g + 1) \in 1..(n - 1) /\ (i - (g + 1)) + 1 = i - g
        BY <2>3, SMTT(30)
      <3>2. Tail(w)[i - (g + 1)] = w[i - g]
        BY <3>1, <1>2
      <3>3. ~(i <= g) /\ ~(i <= g + 1)
        BY <2>3, SMTT(30)
      <3> QED
        BY <2>0, <3>2, <3>3
    <2> QED
      BY <2>1, <2>2, <2>3, SMTT(30)
  <1> QED
    BY <1>3, <1>4, SMTT(30)

\* recv in the handshake: the message that is due is read in whole, and refused
\* only for its version (lib.rs:610-693).
LEMMA ConnectionReads ==
    ASSUME IInv, NEW e \in Roles, recv(e), phase[e] = "reading"
    PROVE  IInv' /\ UNCHANGED <<sent, received>>
  <1>type. TypeOK /\ Turns
    BY DEF IInv
  <1>d. PICK d \in Roles : d = Peer[e]
    BY PeerFacts
  <1>p. d # e /\ Peer[d] = e /\ Peer' = Peer /\ (\A c \in Roles : c = e \/ c = d)
    BY <1>d, PeerFacts DEF Peer, Roles
  <1>t. PICK w, ps, D : TakesMessage(e, w, ps, D)
    BY RecvTakesMessage
  <1>T. /\ Takes(e, w, ps) /\ D = DueMessage(e) /\ hs[d] > hs[e] /\ Ahead(e)
        /\ UNCHANGED <<transport, major, out, sent, received>>
    BY <1>t, <1>d DEF TakesMessage, Takes, read_message
  <1>h. /\ hs[e] \in 0..2 /\ hs[d] \in 1..3
        /\ e = "Initiator" => hs[e] = 1 /\ hs[d] = 2
        /\ e = "Responder" => \/ hs[e] = 0 /\ hs[d] = 1
                              \/ hs[e] = 2 /\ hs[d] = 3
    <2>1. CASE e = "Initiator"
      BY <2>1, <1>T, <1>d, <1>type, PeerFacts, SMTT(30) DEF Turns
    <2>2. CASE e = "Responder"
      BY <2>2, <1>T, <1>d, <1>type, PeerFacts, SMTT(30) DEF Turns
    <2> QED
      BY <2>1, <2>2 DEF Roles
  <1>l. /\ FrameLen' = FrameLen /\ Layout' = Layout /\ FrameLen \in {1, 4}
    BY <1>T DEF FrameLen, Layout
  <1>q. phase[d] \in {"reading", "writing"} => Quiet(d)
    <2>1. ~(hs[e] > hs[d])
      BY <1>T, <1>h, SMTT(30)
    <2> QED
      BY <2>1, <1>p DEF IInv, Handshaking
  <1>1. CASE Len(ps) # FrameLen
    <2>1. PICK m \in Nat : need' = [need EXCEPT ![e] = m] /\ (Len(ps) >= 2 => m = 2)
      BY <1>1, <1>t DEF TakesMessage
    <2>2. got' = [got EXCEPT ![e] = ps] /\ UNCHANGED <<hs, remote, phase, failed, received>>
      BY <1>1, <1>t DEF TakesMessage
    <2>k. Leaves(e, d, w, ps, m)
      <3>1. hs'[d] = hs[d] /\ ps \in {<<>>, ps}
        BY <2>2
      <3> QED
        BY <2>1, <2>2, <3>1, <1>T, <1>d, TakesKeeps
    <2>3. TypeOK'
      BY <1>type, <1>T, <2>2, <2>k DEF TypeOK, None, Leaves
    <2>4. Turns'
      BY <2>2, <1>type DEF Turns
    <2>5. Learnt'
      BY <2>2, <1>T, <1>p DEF IInv, Learnt
    <2>6. Handshaking'
      <3>1. /\ w \in Seq(AllPieces) /\ w # <<>> /\ w = InWire(e) /\ ps = Append(got[e], w[1])
            /\ got[e] \in Seq(AllPieces)
        BY <1>T, <1>type, SMTT(30) DEF Takes, TypeOK
      <3>2. got'[e] = ps /\ InWire(e)' = Tail(w) /\ need'[e] = m
        BY <2>k DEF Leaves
      <3>3. PICK u \in Nat : u = Unread(e)
        <4>1. Len(got[e]) \in Nat /\ Len(w) \in Nat
          BY <3>1, SMTT(30)
        <4> QED
          BY <3>1, <4>1, SMTT(30) DEF Unread
      <3>4. Unread(e)' = u /\ \A i \in 1..u : Piece(e, i)' = Piece(e, i)
        BY <3>1, <3>2, <3>3, UnreadMoved
      <3>5. DueMessage(e)' = D
        BY <2>2, <1>T, <1>p DEF DueMessage
      <3>6. ASSUME NEW i \in 1..FrameLen', i <= Unread(e)'
            PROVE  Piece(e, i)' = [frame |-> D, piece |-> Layout'[i]]
        <4>1. i \in 1..FrameLen /\ i <= Unread(e) /\ i \in 1..u
          BY <3>3, <3>4, <3>6, <1>l, SMTT(30)
        <4>2. Piece(e, i) = [frame |-> D, piece |-> Layout[i]]
          BY <4>1, <1>T DEF Ahead
        <4> QED
          BY <3>4, <4>1, <4>2, <1>l
      <3>7. Len(got'[e]) < FrameLen' /\ (Len(got'[e]) >= 2 => need'[e] = 2)
        <4>1. Len(ps) <= FrameLen /\ Len(ps) \in Nat
          <5>1. ps \in Seq(AllPieces)
            BY <1>T DEF Takes
          <5> QED
            BY <5>1, <1>t, SMTT(30) DEF TakesMessage
        <4> QED
          BY <3>2, <4>1, <1>1, <1>l, <2>1, SMTT(30)
      <3>8. \/ transport' = "quic" /\ Unread(e)' = 2 /\ out'[d] = <<D>>
            \/ /\ Unread(e)' >= FrameLen'
               /\ hs'[d] < 3 => Unread(e)' = FrameLen' /\ out'[d] = <<>>
        BY <3>3, <3>4, <2>2, <1>T, <1>l, <1>d DEF Ahead
      <3>9. Ahead(e)'
        BY <3>5, <3>6, <3>7, <3>8, <1>d, <1>p DEF Ahead
      <3>10. Quiet(d) => Quiet(d)'
        BY <2>k, <1>T, <1>p DEF Leaves, Quiet
      <3> SUFFICES ASSUME NEW c \in Roles, phase'[c] \in {"reading", "writing"}
                   PROVE  (IF hs[Peer[c]] > hs[c] THEN Ahead(c) ELSE Quiet(c))'
        BY <1>p DEF Handshaking
      <3>11. CASE c = e
        BY <3>9, <3>11, <2>2, <1>T, <1>d, <1>p
      <3>12. CASE c = d
        <4>1. Quiet(d)'
          BY <3>10, <3>12, <1>q, <2>2
        <4>2. ~(hs'[e] > hs'[d])
          BY <2>2, <1>T, <1>h, SMTT(30)
        <4> QED
          BY <3>12, <4>1, <4>2, <1>p
      <3> QED
        BY <3>11, <3>12, <1>p
    <2>7. FailuresHaveCause'
      BY <2>2, <1>T, CausesKept
    <2> QED
      BY <2>3, <2>4, <2>5, <2>6, <2>7, <2>k, <1>T DEF IInv, Leaves
  <1>2. CASE Len(ps) = FrameLen
    <2>1. /\ read_message(e, D)
          /\ got' = [got EXCEPT ![e] = <<>>] /\ need' = [need EXCEPT ![e] = 0]
      BY <1>2, <1>t DEF TakesMessage
    <2>D. D.type = "handshake" /\ D.n = hs[e] + 1 /\ D.major = major[d] /\ D.peer_id = d
      BY <1>T, <1>d DEF DueMessage
    <2>k. hs'[d] = hs[d] => Leaves(e, d, w, <<>>, 0)
      <3>1. <<>> \in {<<>>, ps} /\ 0 \in Nat
        OBVIOUS
      <3> QED
        BY <2>1, <3>1, <1>T, <1>d, TakesKeeps
    <2>q. hs'[d] = hs[d] => (Quiet(d) => Quiet(d)')
      BY <2>k, <1>T, <1>p DEF Leaves, Quiet
    <2>2. CASE major[e] # major[d]
      <3>1. /\ UNCHANGED <<hs, remote>>
            /\ phase' = [phase EXCEPT ![e] = "gone"] /\ failed' = failed \cup {e}
        BY <2>1, <2>2, <2>D DEF read_message, is_compatible_with
      <3>2. /\ phase'[e] = "gone" /\ phase'[d] = phase[d]
            /\ phase' \in [Roles -> {"writing", "reading", "transport", "gone"}]
        BY <3>1, <1>type, <1>p DEF TypeOK
      <3>k. Leaves(e, d, w, <<>>, 0)
        BY <2>k, <3>1
      <3>3. TypeOK'
        BY <1>type, <1>T, <3>1, <3>2, <3>k DEF TypeOK, None, Leaves
      <3>4. Turns'
        BY <3>1, <3>2, <1>p, <1>type DEF Turns, Roles
      <3>5. Learnt'
        BY <3>1, <1>T, <1>p DEF IInv, Learnt
      <3>6. Handshaking'
        <4> SUFFICES ASSUME NEW c \in Roles, phase'[c] \in {"reading", "writing"}
                     PROVE  (IF hs[Peer[c]] > hs[c] THEN Ahead(c) ELSE Quiet(c))'
          BY <1>p DEF Handshaking
        <4>1. c = d
          BY <3>2, <1>p
        <4>2. Quiet(d)' /\ ~(hs'[e] > hs'[d])
          BY <4>1, <3>1, <3>2, <2>q, <1>q, <1>T, <1>h, SMTT(30)
        <4> QED
          BY <4>1, <4>2, <1>p
      <3>7. FailuresHaveCause'
        <4> SUFFICES ASSUME NEW c \in failed'
                     PROVE  major'[c] # major'[Peer[c]] \/ phase'[Peer[c]] = "gone"
          BY <1>p DEF FailuresHaveCause
        <4>1. CASE c = e
          BY <4>1, <2>2, <1>T, <1>d
        <4>2. CASE c # e
          <5>1. c \in Roles /\ (major[c] # major[Peer[c]] \/ phase[Peer[c]] = "gone")
            BY <4>2, <3>1, <1>type DEF IInv, FailuresHaveCause, TypeOK
          <5> QED
            BY <5>1, <3>2, <1>T, <1>p, <1>d
        <4> QED
          BY <4>1, <4>2
      <3> QED
        BY <3>3, <3>4, <3>5, <3>6, <3>7, <3>k, <1>T DEF IInv, Leaves
    <2>3. CASE major[e] = major[d]
      <3>n. PICK n \in 1..3 : n = hs[e] + 1
        BY <1>h, SMTT(30)
      <3>1. /\ hs' = [hs EXCEPT ![e] = n] /\ remote' = [remote EXCEPT ![e] = d]
            /\ phase' = [phase EXCEPT ![e] = into_transport(n, "writing")]
            /\ failed' = failed
        BY <2>1, <2>3, <2>D, <3>n DEF read_message, is_compatible_with
      <3>2. /\ hs'[e] = n /\ hs'[d] = hs[d] /\ hs' \in [Roles -> 0..3]
            /\ remote'[e] = d /\ remote'[d] = remote[d]
            /\ remote' \in [Roles -> Roles \cup {None}]
            /\ phase'[d] = phase[d]
            /\ phase'[e] = (IF n = 3 THEN "transport" ELSE "writing")
            /\ phase' \in [Roles -> {"writing", "reading", "transport", "gone"}]
        <4>1. into_transport(n, "writing") = (IF n = 3 THEN "transport" ELSE "writing")
          BY DEF into_transport, is_finished
        <4>2. n \in 0..3
          BY SMTT(30)
        <4> QED
          BY <3>1, <4>1, <4>2, <1>p, <1>type DEF TypeOK
      <3>k. Leaves(e, d, w, <<>>, 0)
        BY <2>k, <3>2
      <3>3. TypeOK'
        BY <1>type, <1>T, <3>1, <3>2, <3>k DEF TypeOK, None, Leaves
      <3>4. Turns'
        <4>1. CASE e = "Initiator"
          <5>1. /\ hs'["Initiator"] = 2 /\ hs'["Responder"] = 2 /\ hs["Responder"] = 2
                /\ phase'["Initiator"] = "writing" /\ phase'["Responder"] = phase["Responder"]
            BY <4>1, <3>2, <3>n, <1>h, <1>d, PeerFacts, SMTT(30)
          <5> QED
            BY <5>1, <1>type, SMTT(30) DEF Turns, Roles
        <4>2. CASE e = "Responder"
          <5>1. /\ hs'["Responder"] = n /\ hs'["Initiator"] = n /\ hs["Initiator"] = n
                /\ n \in {1, 3}
                /\ phase'["Responder"] = (IF n = 3 THEN "transport" ELSE "writing")
                /\ phase'["Initiator"] = phase["Initiator"]
            BY <4>2, <3>2, <3>n, <1>h, <1>d, PeerFacts, SMTT(30)
          <5> QED
            BY <5>1, <1>type, SMTT(30) DEF Turns, Roles
        <4> QED
          BY <4>1, <4>2 DEF Roles
      <3>5. Learnt'
        <4> SUFFICES ASSUME NEW c \in Roles, hs'[c] >= (IF c = "Initiator" THEN 2 ELSE 1)
                     PROVE  remote'[c] = Peer[c] /\ major'[c] = major'[Peer[c]]
          BY <1>p DEF Learnt
        <4>1. CASE c = e
          BY <4>1, <3>2, <2>3, <1>T, <1>d
        <4>2. CASE c = d
          <5>1. remote[d] = Peer[d] /\ major[d] = major[Peer[d]]
            BY <4>2, <3>2 DEF IInv, Learnt
          <5> QED
            BY <4>2, <5>1, <3>2, <1>T
        <4> QED
          BY <4>1, <4>2, <1>p
      <3>6. Handshaking'
        <4>1. ASSUME n # 3 PROVE Quiet(e)'
          <5>1. hs[d] = n /\ hs[d] < 3
            BY <4>1, <3>n, <1>h, SMTT(30) DEF Roles
          <5>2. /\ w \in Seq(AllPieces) /\ w # <<>> /\ w = InWire(e)
                /\ got[e] \in Seq(AllPieces)
            <6>1. w \in Seq(AllPieces) /\ Len(w) > 0 /\ w = InWire(e)
              BY <1>T DEF Takes
            <6>2. got[e] \in Seq(AllPieces)
              BY <1>type DEF TypeOK
            <6>3. w # <<>>
              BY <6>1, SMTT(30)
            <6> QED
              BY <6>1, <6>2, <6>3
          <5>3. PICK g \in Nat : g = Len(got[e]) /\ Len(ps) = g + 1
            <6>1. Len(ps) = Len(got[e]) + 1
              BY <1>t DEF TakesMessage
            <6>2. Len(got[e]) \in Nat
              BY <5>2, SMTT(30)
            <6> QED
              BY <6>1, <6>2
          <5>4. PICK x \in Nat : x = Len(w) /\ x > 0
            BY <5>2, SMTT(30)
          <5>5. Unread(e) = g + x
            BY <5>2, <5>3, <5>4 DEF Unread
          <5>6. FrameLen = g + 1
            BY <5>3, <1>2
          <5>7. Unread(e) # 2 \/ transport # "quic"
            <6>1. transport = "quic" => FrameLen = 4
              BY DEF FrameLen
            <6> QED
              BY <6>1, <5>4, <5>5, <5>6, SMTT(30)
          <5>8. Unread(e) = FrameLen /\ out[d] = <<>>
            BY <5>1, <5>7, <1>T, <1>d DEF Ahead
          <5>9. x = 1
            BY <5>5, <5>6, <5>8, SMTT(30)
          <5>10. Tail(w) = <<>>
            <6>1. Tail(w) \in Seq(AllPieces) /\ Len(Tail(w)) = Len(w) - 1
              BY <5>2, TailFacts
            <6>2. Len(Tail(w)) = 0
              BY <6>1, <5>4, <5>9, SMTT(30)
            <6> QED
              BY <6>1, <6>2, EmptyFacts
          <5> QED
            BY <5>8, <5>10, <3>k, <1>T, <1>d, <1>p DEF Leaves, Quiet
        <4>2. ~(hs'[d] > hs'[e]) /\ ~(hs'[e] > hs'[d])
          BY <3>2, <3>n, <1>h, SMTT(30) DEF Roles
        <4> SUFFICES ASSUME NEW c \in Roles, phase'[c] \in {"reading", "writing"}
                     PROVE  (IF hs[Peer[c]] > hs[c] THEN Ahead(c) ELSE Quiet(c))'
          BY <1>p DEF Handshaking
        <4>3. CASE c = e
          <5>1. Quiet(e)'
            BY <4>1, <4>3, <3>2
          <5> QED
            BY <4>2, <4>3, <5>1, <1>d, <1>p
        <4>4. CASE c = d
          <5>1. Quiet(d)'
            BY <4>4, <3>2, <2>q, <1>q
          <5> QED
            BY <4>2, <4>4, <5>1, <1>p
        <4> QED
          BY <4>3, <4>4, <1>p
      <3>7. FailuresHaveCause'
        <4>1. \A c \in Roles : phase[c] = "gone" => phase'[c] = "gone"
          BY <3>2, <1>p
        <4> QED
          BY <4>1, <3>1, <1>T, CausesKept
      <3> QED
        BY <3>3, <3>4, <3>5, <3>6, <3>7, <3>k, <1>T DEF IInv, Leaves
    <2> QED
      BY <2>2, <2>3
  <1> QED
    BY <1>1, <1>2


\* Every step of a connection, and every step that leaves it alone.
LEMMA ConnectionNext ==
    ASSUME IInv, [Next]_vars
    PROVE  IInv'
  <1>1. CASE Next
    <2>r. Roles = Roles
      BY DEF Roles
    <2>1. PICK e \in Roles : \/ write_message(e) \/ write_arm(e)
                             \/ send_body(e) \/ recv(e)
                             \/ disconnected(e) \/ close(e)
      BY <1>1, <2>r DEF Next
    <2>2. CASE recv(e)
      <3>1. phase[e] \in {"reading", "transport"}
        BY <2>2 DEF recv
      <3> QED
        BY <2>2, <3>1, ConnectionReceives, ConnectionReads
    <2> QED
      BY <2>1, <2>2, ConnectionWrites, ConnectionSends, ConnectionBody, ConnectionGoes
  <1>2. CASE UNCHANGED vars
    <2> USE <1>2 DEF vars
    <2>1. TypeOK'
      BY DEF IInv, TypeOK
    <2>2. Turns' /\ OneStream'
      BY DEF IInv, Turns, OneStream
    <2>p. Peer' = Peer
      BY DEF Peer
    <2>3. Genuine'
      <3>1. \A e, f : Made(e, f)' = Made(e, f)
        BY DEF Made
      <3> QED
        BY <2>p, <3>1
           DEF IInv, Genuine, WireGenuine, GotGenuine, OutGenuine, SentGenuine
    <2>4. Learnt' /\ FailuresHaveCause'
      BY DEF IInv, Learnt, FailuresHaveCause
    <2>5. Handshaking'
      <3>1. \A e \in Roles : Ahead(e)' = Ahead(e)
        BY <2>p, SMTT(30) DEF Ahead, Unread, Piece, InWire, DueMessage, FrameLen, Layout
      <3>2. \A e \in Roles : Quiet(e)' = Quiet(e)
        BY <2>p DEF Quiet, InWire
      <3> QED
        BY <2>p, <3>1, <3>2, ZenonT(60) DEF IInv, Handshaking
    <2> QED
      BY <2>1, <2>2, <2>3, <2>4, <2>5 DEF IInv
  <1> QED
    BY <1>1, <1>2

\* The inductive invariant of a connection.
THEOREM Invariance == Spec => []IInv
  <1>1. IInv /\ [Next]_vars => IInv'
    BY ConnectionNext
  <1> QED
    BY <1>1, ConnectionInit, PTL DEF Spec

\* perform_handshake leaves two ends that know each other and run compatible
\* versions, and it fails only for a reason (lib.rs:610-693, noise.rs:92-155).
THEOREM HandshakeAgreesHolds == Spec => []HandshakeAgrees
  <1>1. IInv => HandshakeAgrees
    <2> SUFFICES ASSUME IInv PROVE HandshakeAgrees
      OBVIOUS
    <2>1. ASSUME NEW e \in Roles, phase[e] = "transport"
          PROVE  remote[e] = Peer[e] /\ major[e] = major[Peer[e]]
      BY <2>1, SMTT(30) DEF IInv, Turns, Learnt
    <2>2. \A e \in failed : major[e] # major[Peer[e]] \/ phase[Peer[e]] = "gone"
      BY DEF IInv, FailuresHaveCause
    <2> QED
      BY <2>1, <2>2 DEF HandshakeAgrees, Roles, Peer
  <1> QED
    BY <1>1, Invariance, PTL

\* Whatever is dropped and whatever a slipped stream is taken for, a session
\* delivers what its peer sent, in order, none twice and none left out
\* (quic.rs:287-308, noise.rs:171-179).
THEOREM ConnectionIsFifoHolds == Spec => ConnectionIsFifo
  <1> USE DEF ConnectionIsFifo
  <1>r. Roles = Roles /\ Peer = Peer
    BY DEF Roles, Peer
  <1>1. Init => Fifo!Init
    BY DEF Init, Fifo!Init
  <1>2. IInv /\ [Next]_vars
            => [Fifo!Next]_Fifo!vars
    <2> SUFFICES ASSUME IInv, [Next]_vars
                 PROVE  [Fifo!Next]_Fifo!vars
      OBVIOUS
    <2> USE DEF Fifo!vars
    <2>1. CASE UNCHANGED vars
      BY <2>1 DEF vars
    <2>2. CASE Next
      <3>1. PICK e \in Roles : \/ write_message(e) \/ write_arm(e)
                               \/ send_body(e) \/ recv(e)
                               \/ disconnected(e) \/ close(e)
        BY <2>2, <1>r DEF Next
      <3>2. CASE write_arm(e)
        <4>1. PICK s \in Seq(DataFrames) : s = sent[e] /\ sent \in [Roles -> Seq(DataFrames)]
          BY DEF IInv, TypeOK
        <4>2. PICK f : f = encrypt(e)
          OBVIOUS
        <4>3. sent' = [sent EXCEPT ![e] = Append(s, f)] /\ UNCHANGED received
          BY <3>2, <4>1, <4>2 DEF write_arm
        <4>4. sent'[e] = Append(s, f)
          BY <4>1, <4>3
        <4>5. Len(Append(s, f)) = Len(s) + 1 /\ Append(s, f)[Len(s) + 1] = f
          BY <4>1, SMTT(30)
        <4>6. Fifo!Send(e)
          BY <4>1, <4>3, <4>4, <4>5 DEF Fifo!Send
        <4> QED
          BY <4>6, <1>r DEF Fifo!Next
      <3>3. CASE recv(e) /\ phase[e] = "transport"
        <4>1. /\ sent' = sent
              /\ \/ received' = received
                 \/ /\ Len(received[e]) < Len(sent[Peer[e]])
                    /\ received' = [received EXCEPT ![e] =
                                        Append(@, sent[Peer[e]][Len(@) + 1])]
          BY <3>3, ConnectionReceives
        <4>2. UNCHANGED <<sent, received>> \/ Fifo!Deliver(e)
          BY <4>1, <1>r DEF Fifo!Deliver
        <4> QED
          BY <4>2, <1>r DEF Fifo!Next
      <3>4. CASE recv(e) /\ phase[e] = "reading"
        BY <3>4, ConnectionReads
      <3>5. CASE \/ write_message(e) \/ send_body(e)
                 \/ disconnected(e) \/ close(e)
        BY <3>5 DEF write_message, send_body, disconnected, close
      <3> QED
        BY <3>1, <3>2, <3>3, <3>4, <3>5 DEF recv
    <2> QED
      BY <2>1, <2>2
  <1> QED
    BY <1>1, <1>2, Invariance, PTL DEF Spec, Fifo!Spec
=============================================================================
