--------------------------- MODULE RoutingProofs ---------------------------
(***************************************************************************)
(* Gossip among any nodes, sessions and measured links: proofs that what a *)
(* node knows of a link is the link's own, and does not go back in time as *)
(* long as the source of the link has not restarted, and that no update    *)
(* that is read is dropped unless it was overtaken.  The argument is that  *)
(* sequence numbers order the updates as their measurements are ordered,   *)
(* on all the connections of a source taken together.  Then the            *)
(* coordinator of one node, for any number of tasks, neighbours and links. *)
(***************************************************************************)
EXTENDS Routing, TLAPS

USE Zenon

Elems(s) == {s[i] : i \in DOMAIN s}

\* The updates on their way from a[1] to a[2].
OnWire(a) == Elems(wire[<<a, "old">>]) \cup Elems(wire[<<a, "new">>])

\* The source of the link has not restarted.
Stable(l) == restarts[l[1]] = 0

\* No node knows a link better than it was measured.
PicturesAreMeasured == \A n \in Nodes, l \in Measured : graph[n][l] <= clock[l]

\* What is gossiped is the last measurement of the source's present life.
TrackersCurrent ==
    \A l \in Measured : /\ local_trackers[l] <= clock[l]
                        /\ Stable(l) => local_trackers[l] = clock[l]

\* An update is sent by the source of its link, and measured before.
UpdatesAreSourced ==
    \A a \in Adjacent : \A u \in OnWire(a) :
        /\ u.link[1] = a[1]
        /\ u.metrics <= clock[u.link]
        /\ u.sequence \in 1..MaxUpdates
        /\ Stable(u.link) => u.sequence < sequence_generator[a[1]]

\* A receiver has applied only numbers that the source has used.
AppliedAreNumbered ==
    \A n \in Nodes, l \in Measured :
        Stable(l) => gossip_sequences[n][l] < sequence_generator[l[1]]

\* Later numbers carry later measurements, also across connections.
UpdatesInOrder ==
    \A a, b \in Adjacent : \A u \in OnWire(a), v \in OnWire(b) :
        (u.link = v.link /\ Stable(u.link) /\ u.sequence <= v.sequence)
            => u.metrics <= v.metrics

\* An update that the receiver will take for new is new.
NewIsNotBehind ==
    \A a \in Adjacent : \A u \in OnWire(a) :
        (Stable(u.link) /\ u.sequence > gossip_sequences[a[2]][u.link])
            => u.metrics >= graph[a[2]][u.link]

\* An update that the receiver will take for old has nothing new.
OldIsNotAhead ==
    \A a \in Adjacent : \A u \in OnWire(a) :
        (Stable(u.link) /\ u.sequence <= gossip_sequences[a[2]][u.link])
            => u.metrics <= graph[a[2]][u.link]

IInv == /\ TypeOK /\ PicturesAreMeasured
        /\ TrackersCurrent /\ UpdatesAreSourced /\ AppliedAreNumbered
        /\ UpdatesInOrder /\ NewIsNotBehind /\ OldIsNotAhead

-----------------------------------------------------------------------------
\* What reading, appending and joining do to the elements of a queue.
LEMMA ElemsFacts ==
    ASSUME NEW S, NEW s \in Seq(S)
    PROVE  /\ Elems(s) \subseteq S
           /\ s # <<>> => /\ Tail(s) \in Seq(S) /\ Elems(Tail(s)) \subseteq Elems(s)
                          /\ Head(s) \in Elems(s)
           /\ \A x \in S : Append(s, x) \in Seq(S) /\ Elems(Append(s, x)) \subseteq Elems(s) \cup {x}
           /\ \A t \in Seq(S) : s \o t \in Seq(S) /\ Elems(s \o t) \subseteq Elems(s) \cup Elems(t)
  <1>1. Elems(s) \subseteq S
    BY SMTT(30) DEF Elems
  <1>2. ASSUME s # <<>>
        PROVE  Tail(s) \in Seq(S) /\ Elems(Tail(s)) \subseteq Elems(s) /\ Head(s) \in Elems(s)
    BY <1>2, SMTT(30) DEF Elems
  <1>3. ASSUME NEW x \in S
        PROVE  Append(s, x) \in Seq(S) /\ Elems(Append(s, x)) \subseteq Elems(s) \cup {x}
    BY SMTT(30) DEF Elems
  <1>4. ASSUME NEW t \in Seq(S)
        PROVE  s \o t \in Seq(S) /\ Elems(s \o t) \subseteq Elems(s) \cup Elems(t)
    BY SMTT(30) DEF Elems
  <1> QED
    BY <1>1, <1>2, <1>3, <1>4

\* Sessions join two different nodes, by two connections in each direction.
LEMMA AdjacentFacts ==
    ASSUME NEW a \in Adjacent
    PROVE  /\ a[1] \in Nodes /\ a[2] \in Nodes /\ a[1] # a[2] /\ a = <<a[1], a[2]>>
           /\ <<a, "old">> \in Conns /\ <<a, "new">> \in Conns
  BY MeshAssumption, SMTT(30) DEF Conns

\* Every connection is one of those.
LEMMA ConnFacts ==
    ASSUME NEW c \in Conns
    PROVE  /\ c[1] \in Adjacent /\ c[2] \in {"old", "new"} /\ c = <<c[1], c[2]>>
           /\ c = <<c[1], "old">> \/ c = <<c[1], "new">>
  BY SMTT(30) DEF Conns

\* A measured link is one between adjacent nodes.
LEMMA LinkFacts ==
    ASSUME NEW l \in Measured
    PROVE  l \in Adjacent /\ l[1] \in Nodes /\ l[2] \in Nodes /\ l[1] # l[2]
  BY MeshAssumption, AdjacentFacts

\* What is on the wire is an update.
LEMMA WireFacts ==
    ASSUME TypeOK, NEW a \in Adjacent, NEW u \in OnWire(a)
    PROVE  u \in Updates /\ u.link \in Measured /\ u.metrics \in Nat /\ u.sequence \in Nat
  <1>1. wire[<<a, "old">>] \in Seq(Updates) /\ wire[<<a, "new">>] \in Seq(Updates)
    BY AdjacentFacts DEF TypeOK
  <1>2. u \in Updates
    BY <1>1, ElemsFacts DEF OnWire
  <1> QED
    BY <1>2 DEF Updates

\* What a node knows of a link is not newer than the link.
LEMMA PictureFacts ==
    ASSUME IInv, NEW n \in Nodes, NEW k \in Measured
    PROVE  /\ graph[n][k] \in Nat /\ clock[k] \in Nat /\ gossip_sequences[n][k] \in Nat
           /\ graph[n][k] <= clock[k]
  <1>1. /\ graph[n] \in [Measured -> 0..MaxMeasurements]
        /\ gossip_sequences[n] \in [Measured -> 0..MaxUpdates]
        /\ clock \in [Measured -> 0..MaxMeasurements]
    BY DEF IInv, TypeOK
  <1>2. graph[n][k] \in Nat /\ clock[k] \in Nat /\ gossip_sequences[n][k] \in Nat
    BY <1>1, MeshAssumption, SMTT(30)
  <1>3. graph[n][k] <= clock[k]
    BY DEF IInv, PicturesAreMeasured
  <1> QED
    BY <1>2, <1>3

\* Nothing is known and nothing on the way at first.
LEMMA InitIInv == Init => IInv
  <1> SUFFICES ASSUME Init PROVE IInv
    OBVIOUS
  <1>1. TypeOK
    BY MeshAssumption, SMTT(30) DEF Init, TypeOK, first_sequence
  <1>2. \A a \in Adjacent : OnWire(a) = {}
    <2>1. Elems(<<>>) = {}
      BY SMTT(30) DEF Elems
    <2>2. \A a \in Adjacent : wire[<<a, "old">>] = <<>> /\ wire[<<a, "new">>] = <<>>
      BY AdjacentFacts DEF Init
    <2> QED
      BY <2>1, <2>2 DEF OnWire
  <1>3. PicturesAreMeasured /\ TrackersCurrent /\ AppliedAreNumbered
    BY LinkFacts, SMTT(30) DEF Init, PicturesAreMeasured, TrackersCurrent, AppliedAreNumbered, first_sequence
  <1> QED
    BY <1>1, <1>2, <1>3 DEF IInv, UpdatesAreSourced, UpdatesInOrder, NewIsNotBehind, OldIsNotAhead

\* A measurement changes the source's own picture only (lib.rs:484-501).
LEMMA RecordIInv ==
    ASSUME IInv, NEW l \in Measured, record_latency(l)
    PROVE  IInv' /\ \A n \in Nodes, k \in Measured : graph'[n][k] >= graph[n][k]
  <1> USE LinkFacts
  <1>1. /\ clock[l] < MaxMeasurements
        /\ clock' = [clock EXCEPT ![l] = @ + 1]
        /\ local_trackers' = [local_trackers EXCEPT ![l] = clock[l] + 1]
        /\ graph' = [graph EXCEPT ![l[1]][l] = clock[l] + 1]
        /\ UNCHANGED <<sequence_generator, gossip_sequences, wire, restarts>>
    BY DEF record_latency
  <1>2. /\ clock \in [Measured -> 0..MaxMeasurements]
        /\ clock[l] + 1 \in 0..MaxMeasurements
        /\ \A n \in Nodes, k \in Measured : graph[n][k] \in Nat /\ graph[n][k] <= clock[k]
    <2>1. clock \in [Measured -> 0..MaxMeasurements]
      BY DEF IInv, TypeOK
    <2>2. clock[l] + 1 \in 0..MaxMeasurements
      BY <1>1, <2>1, MeshAssumption, SMTT(30)
    <2> QED
      BY <2>1, <2>2, PictureFacts
  <1>3. /\ \A k \in Measured : clock'[k] \in Nat /\ clock[k] \in Nat /\ clock'[k] >= clock[k]
        /\ clock'[l] = clock[l] + 1
        /\ \A k \in Measured : k # l => clock'[k] = clock[k]
    BY <1>1, <1>2, MeshAssumption, SMTT(30)
  <1>4. /\ graph'[l[1]][l] = clock[l] + 1
        /\ \A n \in Nodes, k \in Measured : n # l[1] \/ k # l => graph'[n][k] = graph[n][k]
    BY <1>1 DEF IInv, TypeOK
  <1>5. TypeOK'
    BY <1>1, <1>2 DEF IInv, TypeOK
  <1>6. PicturesAreMeasured'
    <2> SUFFICES ASSUME NEW n \in Nodes, NEW k \in Measured
                 PROVE  graph'[n][k] <= clock'[k]
      BY DEF PicturesAreMeasured
    <2>1. CASE n = l[1] /\ k = l
      BY <1>3, <1>4, <2>1, SMTT(30)
    <2>2. CASE n # l[1] \/ k # l
      BY <1>2, <1>3, <1>4, <2>2, SMTT(30)
    <2> QED
      BY <2>1, <2>2
  <1>7. TrackersCurrent'
    <2>1. \A k \in Measured : k # l => local_trackers'[k] = local_trackers[k]
      BY <1>1 DEF IInv, TypeOK
    <2>2. local_trackers'[l] = clock[l] + 1
      BY <1>1 DEF IInv, TypeOK
    <2> QED
      BY <1>1, <1>2, <1>3, <2>1, <2>2, SMTT(30) DEF IInv, TrackersCurrent, Stable
  <1>8. \A a \in Adjacent : OnWire(a)' = OnWire(a)
    BY <1>1 DEF OnWire
  <1>9. \A k \in Measured : Stable(k)' <=> Stable(k)
    BY <1>1 DEF Stable
  <1>10. UpdatesAreSourced'
    <2> SUFFICES ASSUME NEW a \in Adjacent, NEW u \in OnWire(a)
                 PROVE  /\ u.link[1] = a[1] /\ u.metrics <= clock'[u.link]
                        /\ u.sequence \in 1..MaxUpdates
                        /\ Stable(u.link)' => u.sequence < sequence_generator'[a[1]]
      BY <1>8 DEF UpdatesAreSourced
    <2>1. u.link \in Measured /\ u.metrics \in Nat
      BY WireFacts DEF IInv
    <2> QED
      BY <1>1, <1>3, <1>9, <2>1, SMTT(30) DEF IInv, UpdatesAreSourced
  <1>11. AppliedAreNumbered'
    BY <1>1, <1>9 DEF IInv, AppliedAreNumbered
  <1>12. UpdatesInOrder'
    BY <1>8, <1>9, WireFacts DEF IInv, UpdatesInOrder
  <1>13. NewIsNotBehind'
    <2> SUFFICES ASSUME NEW a \in Adjacent, NEW u \in OnWire(a), Stable(u.link)',
                        u.sequence > gossip_sequences'[a[2]][u.link]
                 PROVE  u.metrics >= graph'[a[2]][u.link]
      BY <1>8 DEF NewIsNotBehind
    <2>1. u.link \in Measured /\ u.link[1] = a[1] /\ a[2] \in Nodes /\ a[1] # a[2]
      BY WireFacts, AdjacentFacts DEF IInv, UpdatesAreSourced
    <2>2. graph'[a[2]][u.link] = graph[a[2]][u.link]
      BY <1>4, <2>1, SMTT(30)
    <2> QED
      BY <1>1, <1>9, <2>1, <2>2 DEF IInv, NewIsNotBehind
  <1>14. OldIsNotAhead'
    <2> SUFFICES ASSUME NEW a \in Adjacent, NEW u \in OnWire(a), Stable(u.link)',
                        u.sequence <= gossip_sequences'[a[2]][u.link]
                 PROVE  u.metrics <= graph'[a[2]][u.link]
      BY <1>8 DEF OldIsNotAhead
    <2>1. u.link \in Measured /\ u.link[1] = a[1] /\ a[2] \in Nodes /\ a[1] # a[2]
      BY WireFacts, AdjacentFacts DEF IInv, UpdatesAreSourced
    <2>2. graph'[a[2]][u.link] = graph[a[2]][u.link]
      BY <1>4, <2>1, SMTT(30)
    <2> QED
      BY <1>1, <1>9, <2>1, <2>2 DEF IInv, OldIsNotAhead
  <1>15. \A n \in Nodes, k \in Measured : graph'[n][k] >= graph[n][k]
    BY <1>2, <1>3, <1>4, SMTT(30)
  <1> QED
    BY <1>5, <1>6, <1>7, <1>10, <1>11, <1>12, <1>13, <1>14, <1>15 DEF IInv

\* A gossiped update has the next number and the last measurement, so it comes
\* after all that its source has sent (lib.rs:550-594).
LEMMA GossipIInv ==
    ASSUME IInv, NEW l \in Measured, gossip(l)
    PROVE  IInv'
  <1> USE LinkFacts
  <1> DEFINE n == l[1]
             u == [link |-> l, metrics |-> local_trackers[l], sequence |-> sequence_generator[n]]
  <1>1. /\ local_trackers[l] > 0 /\ sequence_generator[n] <= MaxUpdates
        /\ sequence_generator' = [sequence_generator EXCEPT ![n] = @ + 1]
        /\ wire' = [c \in Conns |-> IF c \in Recipients(l) THEN Append(wire[c], u) ELSE wire[c]]
        /\ UNCHANGED <<clock, local_trackers, gossip_sequences, graph, restarts>>
    BY DEF gossip
  <1>2. /\ sequence_generator[n] \in 1..MaxUpdates
        /\ sequence_generator[n] \in Nat /\ local_trackers[l] \in Nat
        /\ \A k \in Measured : clock[k] \in Nat
        /\ \A m \in Nodes : sequence_generator[m] \in Nat
    <2>1. /\ sequence_generator \in [Nodes -> 1..(MaxUpdates + 1)]
          /\ local_trackers \in [Measured -> 0..MaxMeasurements]
          /\ clock \in [Measured -> 0..MaxMeasurements]
      BY DEF IInv, TypeOK
    <2> QED
      BY <1>1, <2>1, MeshAssumption, SMTT(30)
  <1>3. u \in Updates /\ u.link = l /\ u.metrics = local_trackers[l]
        /\ u.sequence = sequence_generator[n]
    BY <1>2 DEF Updates
  <1> HIDE DEF u
  <1>4. ASSUME NEW c \in Conns
        PROVE  /\ wire'[c] \in Seq(Updates)
               /\ Elems(wire'[c]) \subseteq Elems(wire[c]) \cup {u}
               /\ c[1][1] # n => wire'[c] = wire[c]
    <2>1. wire[c] \in Seq(Updates)
      BY DEF IInv, TypeOK
    <2>2. wire'[c] = wire[c] \/ (c[1][1] = n /\ wire'[c] = Append(wire[c], u))
      BY <1>1 DEF Recipients
    <2>3. CASE wire'[c] = wire[c]
      BY <2>1, <2>3
    <2>4. CASE c[1][1] = n /\ wire'[c] = Append(wire[c], u)
      BY <1>3, <2>1, <2>4, ElemsFacts, SMTT(30)
    <2> QED
      BY <2>2, <2>3, <2>4
  <1>5. ASSUME NEW a \in Adjacent, NEW v \in OnWire(a)'
        PROVE  v \in OnWire(a) \/ (v = u /\ a[1] = n)
    BY <1>4, AdjacentFacts DEF OnWire
  <1>6. /\ sequence_generator'[n] = sequence_generator[n] + 1
        /\ \A m \in Nodes : m # n => sequence_generator'[m] = sequence_generator[m]
        /\ \A m \in Nodes : sequence_generator'[m] >= sequence_generator[m]
    BY <1>1, <1>2, SMTT(30) DEF IInv, TypeOK
  <1>7. TypeOK'
    <2>1. wire' \in [Conns -> Seq(Updates)]
      BY <1>1, <1>4
    <2>2. sequence_generator' \in [Nodes -> 1..(MaxUpdates + 1)]
      <3>1. sequence_generator \in [Nodes -> 1..(MaxUpdates + 1)]
        BY DEF IInv, TypeOK
      <3>2. sequence_generator[n] + 1 \in 1..(MaxUpdates + 1)
        BY <1>2, MeshAssumption, SMTT(30)
      <3> QED
        BY <1>1, <3>1, <3>2
    <2> QED
      BY <1>1, <2>1, <2>2 DEF IInv, TypeOK
  <1>8. PicturesAreMeasured' /\ TrackersCurrent'
    BY <1>1 DEF IInv, PicturesAreMeasured, TrackersCurrent, Stable
  <1>9. \A k : Stable(k)' <=> Stable(k)
    BY <1>1 DEF Stable
  <1>10. u.metrics <= clock[l] /\ (Stable(l) => u.metrics = clock[l])
    BY <1>3 DEF IInv, TrackersCurrent
  <1>11. UpdatesAreSourced'
    <2> SUFFICES ASSUME NEW a \in Adjacent, NEW v \in OnWire(a)'
                 PROVE  /\ v.link[1] = a[1] /\ v.metrics <= clock'[v.link]
                        /\ v.sequence \in 1..MaxUpdates
                        /\ Stable(v.link)' => v.sequence < sequence_generator'[a[1]]
      BY DEF UpdatesAreSourced
    <2>1. CASE v \in OnWire(a)
      <3>1. v.sequence \in Nat /\ a[1] \in Nodes
        BY <2>1, WireFacts, AdjacentFacts DEF IInv
      <3> QED
        BY <1>1, <1>2, <1>6, <1>9, <2>1, <3>1, SMTT(30) DEF IInv, UpdatesAreSourced
    <2>2. CASE v = u /\ a[1] = n
      BY <1>1, <1>2, <1>3, <1>6, <1>10, <2>2, SMTT(30)
    <2> QED
      BY <1>5, <2>1, <2>2
  <1>12. AppliedAreNumbered'
    <2> SUFFICES ASSUME NEW m \in Nodes, NEW k \in Measured, Stable(k)'
                 PROVE  gossip_sequences'[m][k] < sequence_generator'[k[1]]
      BY DEF AppliedAreNumbered
    <2>1. gossip_sequences[m][k] < sequence_generator[k[1]] /\ gossip_sequences[m][k] \in Nat
      BY <1>9, PictureFacts DEF IInv, AppliedAreNumbered
    <2> QED
      BY <1>1, <1>2, <1>6, <2>1, SMTT(30)
  <1>13. UpdatesInOrder'
    <2> SUFFICES ASSUME NEW a \in Adjacent, NEW b \in Adjacent,
                        NEW v \in OnWire(a)', NEW w \in OnWire(b)',
                        v.link = w.link, Stable(v.link)', v.sequence <= w.sequence
                 PROVE  v.metrics <= w.metrics
      BY DEF UpdatesInOrder
    <2>1. CASE v \in OnWire(a) /\ w \in OnWire(b)
      BY <1>9, <2>1 DEF IInv, UpdatesInOrder
    <2>2. CASE v \in OnWire(a) /\ w = u
      BY <1>3, <1>9, <1>10, <2>2 DEF IInv, UpdatesAreSourced
    <2>3. CASE v = u /\ w \in OnWire(b)
      <3>1. w.sequence < sequence_generator[b[1]] /\ b[1] = n /\ w.sequence \in Nat
        BY <1>3, <1>9, <2>3, WireFacts DEF IInv, UpdatesAreSourced
      <3> QED
        BY <1>2, <1>3, <2>3, <3>1, SMTT(30)
    <2>4. CASE v = u /\ w = u
      BY <1>2, <1>3, <2>4, SMTT(30)
    <2> QED
      BY <1>5, <2>1, <2>2, <2>3, <2>4
  <1>14. NewIsNotBehind'
    <2> SUFFICES ASSUME NEW a \in Adjacent, NEW v \in OnWire(a)', Stable(v.link)',
                        v.sequence > gossip_sequences'[a[2]][v.link]
                 PROVE  v.metrics >= graph'[a[2]][v.link]
      BY DEF NewIsNotBehind
    <2>1. CASE v \in OnWire(a)
      BY <1>1, <1>9, <2>1 DEF IInv, NewIsNotBehind
    <2>2. CASE v = u
      <3>1. graph[a[2]][l] <= clock[l] /\ graph[a[2]][l] \in Nat
        BY PictureFacts, AdjacentFacts
      <3> QED
        BY <1>1, <1>2, <1>3, <1>9, <1>10, <2>2, <3>1
    <2> QED
      BY <1>5, <2>1, <2>2
  <1>15. OldIsNotAhead'
    <2> SUFFICES ASSUME NEW a \in Adjacent, NEW v \in OnWire(a)', Stable(v.link)',
                        v.sequence <= gossip_sequences'[a[2]][v.link]
                 PROVE  v.metrics <= graph'[a[2]][v.link]
      BY DEF OldIsNotAhead
    <2>1. CASE v \in OnWire(a)
      BY <1>1, <1>9, <2>1 DEF IInv, OldIsNotAhead
    <2>2. CASE v = u
      <3>1. gossip_sequences[a[2]][l] \in Nat /\ gossip_sequences[a[2]][l] < sequence_generator[n]
        BY <1>3, <1>9, <2>2, PictureFacts, AdjacentFacts DEF IInv, AppliedAreNumbered
      <3>2. sequence_generator[n] <= gossip_sequences[a[2]][l]
        BY <1>1, <1>3, <2>2
      <3> QED
        BY <1>2, <3>1, <3>2, SMTT(30)
    <2> QED
      BY <1>5, <2>1, <2>2
  <1> QED
    BY <1>7, <1>8, <1>11, <1>12, <1>13, <1>14, <1>15 DEF IInv

\* Updates that are lost, or move to the old connection, disturb nothing.
LEMMA FewerIInv ==
    ASSUME IInv, wire' \in [Conns -> Seq(Updates)],
           \A a \in Adjacent : OnWire(a)' \subseteq OnWire(a),
           UNCHANGED <<clock, local_trackers, sequence_generator, gossip_sequences,
                       graph, restarts>>
    PROVE  IInv'
  <1>1. TypeOK'
    BY DEF IInv, TypeOK
  <1>2. \A k : Stable(k)' <=> Stable(k)
    BY DEF Stable
  <1>3. PicturesAreMeasured' /\ TrackersCurrent' /\ AppliedAreNumbered'
    BY <1>2 DEF IInv, PicturesAreMeasured, TrackersCurrent, AppliedAreNumbered
  <1>4. UpdatesAreSourced'
    BY <1>2 DEF IInv, UpdatesAreSourced
  <1>5. UpdatesInOrder'
    BY <1>2 DEF IInv, UpdatesInOrder
  <1>6. NewIsNotBehind'
    BY <1>2 DEF IInv, NewIsNotBehind
  <1>7. OldIsNotAhead'
    BY <1>2 DEF IInv, OldIsNotAhead
  <1> QED
    BY <1>1, <1>3, <1>4, <1>5, <1>6, <1>7 DEF IInv

\* A connection whose queue has become shorter.
LEMMA ShorterIInv ==
    ASSUME IInv, NEW c \in Conns, NEW q \in Seq(Updates),
           Elems(q) \subseteq Elems(wire[c]), wire' = [wire EXCEPT ![c] = q],
           UNCHANGED <<clock, local_trackers, sequence_generator, gossip_sequences,
                       graph, restarts>>
    PROVE  IInv'
  <1>1. wire \in [Conns -> Seq(Updates)]
    BY DEF IInv, TypeOK
  <1>2. wire' \in [Conns -> Seq(Updates)]
    BY <1>1
  <1>3. \A d \in Conns : Elems(wire'[d]) \subseteq Elems(wire[d])
    BY <1>1
  <1>4. \A a \in Adjacent : OnWire(a)' \subseteq OnWire(a)
    BY <1>3, AdjacentFacts DEF OnWire
  <1> QED
    BY <1>2, <1>4, FewerIInv

\* A connection that is closed or breaks loses what has not been read
\* (quic.rs:310-314).
LEMMA LoseIInv ==
    ASSUME IInv, NEW c \in Conns, lose(c)
    PROVE  IInv'
  <1>1. PICK i \in DOMAIN wire[c] : wire' = [wire EXCEPT ![c] = SubSeq(@, 1, i - 1)]
    BY DEF lose
  <1>2. wire[c] \in Seq(Updates) /\ wire \in [Conns -> Seq(Updates)]
    BY DEF IInv, TypeOK
  <1> DEFINE q == SubSeq(wire[c], 1, i - 1)
  <1>3. q \in Seq(Updates) /\ Elems(q) \subseteq Elems(wire[c])
    BY <1>2, SMTT(30) DEF Elems
  <1>4. wire' = [wire EXCEPT ![c] = q]
    BY <1>1, <1>2
  <1>5. UNCHANGED <<clock, local_trackers, sequence_generator, gossip_sequences,
                    graph, restarts>>
    BY DEF lose
  <1> QED
    BY <1>3, <1>4, <1>5, ShorterIInv

\* A frame that cannot be decrypted is dropped (lib.rs:398-400).
LEMMA RejectIInv ==
    ASSUME IInv, NEW c \in Conns, reject(c)
    PROVE  IInv'
  <1>1. /\ wire[c] # <<>> /\ wire' = [wire EXCEPT ![c] = Tail(@)]
        /\ UNCHANGED <<clock, local_trackers, sequence_generator, gossip_sequences,
                       graph, restarts>>
    BY DEF reject
  <1>2. wire[c] \in Seq(Updates) /\ wire \in [Conns -> Seq(Updates)]
    BY DEF IInv, TypeOK
  <1>3. Tail(wire[c]) \in Seq(Updates) /\ Elems(Tail(wire[c])) \subseteq Elems(wire[c])
    BY <1>1, <1>2, ElemsFacts
  <1>4. wire' = [wire EXCEPT ![c] = Tail(wire[c])]
    BY <1>1, <1>2
  <1> QED
    BY <1>1, <1>3, <1>4, ShorterIInv

\* An update that is applied is not older than the picture it replaces, and
\* what is still to come is not older either (router.rs:118-141).
LEMMA ProcessIInv ==
    ASSUME IInv, NEW c \in Conns, process_link_state_update(c)
    PROVE  /\ IInv'
           /\ restarts' = restarts
           /\ \A m \in Nodes, k \in Measured : Stable(k) => graph'[m][k] >= graph[m][k]
           /\ LET u == Head(wire[c])
              IN  u.link \in Measured /\ (Stable(u.link) => graph'[c[1][2]][u.link] >= u.metrics)
  <1> DEFINE a == c[1]
             n == c[1][2]
             u == Head(wire[c])
  <1>1. /\ wire[c] # <<>> /\ wire' = [wire EXCEPT ![c] = Tail(@)]
        /\ UNCHANGED <<clock, local_trackers, sequence_generator, restarts>>
    BY DEF process_link_state_update
  <1>2. a \in Adjacent /\ n \in Nodes
    BY ConnFacts, AdjacentFacts
  <1>3. ASSUME NEW d \in Conns
        PROVE  wire'[d] \in Seq(Updates) /\ Elems(wire'[d]) \subseteq Elems(wire[d])
    <2>1. wire[d] \in Seq(Updates) /\ wire \in [Conns -> Seq(Updates)]
      BY DEF IInv, TypeOK
    <2>2. CASE d = c
      <3>1. wire'[d] = Tail(wire[d]) /\ wire[d] # <<>>
        BY <1>1, <2>1, <2>2
      <3> QED
        BY <2>1, <3>1, ElemsFacts, SMTT(30)
    <2>3. CASE d # c
      <3>1. wire'[d] = wire[d]
        BY <1>1, <2>1, <2>3
      <3> QED
        BY <2>1, <3>1
    <2> QED
      BY <2>2, <2>3
  <1>4. \A b \in Adjacent : OnWire(b)' \subseteq OnWire(b)
    BY <1>3, AdjacentFacts DEF OnWire
  <1>5. wire' \in [Conns -> Seq(Updates)]
    BY <1>1, <1>3 DEF IInv, TypeOK
  <1>6. u \in OnWire(a)
    <2>1. wire[c] \in Seq(Updates)
      BY DEF IInv, TypeOK
    <2>2. u \in Elems(wire[c])
      BY <1>1, <2>1, ElemsFacts
    <2> QED
      BY <2>2, ConnFacts DEF OnWire
  <1>7. u.link \in Measured /\ u.metrics \in Nat /\ u.sequence \in Nat
    BY <1>2, <1>6, WireFacts DEF IInv
  <1>8. /\ u.link[1] = a[1] /\ u.metrics <= clock[u.link] /\ u.sequence \in 1..MaxUpdates
        /\ Stable(u.link) => u.sequence < sequence_generator[a[1]]
    BY <1>2, <1>6 DEF IInv, UpdatesAreSourced
  <1>9. \A m \in Nodes, k \in Measured : graph[m][k] >= graph[m][k]
    BY PictureFacts, SMTT(30)
  <1>10. CASE ~isNew(n, u)
    <2>1. UNCHANGED <<gossip_sequences, graph>>
      BY <1>10 DEF process_link_state_update
    <2>2. gossip_sequences[n][u.link] \in Nat /\ graph[n][u.link] \in Nat
      BY <1>2, <1>7, PictureFacts
    <2>3. u.sequence <= gossip_sequences[n][u.link]
      BY <1>7, <1>10, <2>2, SMTT(30) DEF isNew
    <2>4. Stable(u.link) => u.metrics <= graph[n][u.link]
      BY <1>2, <1>6, <2>3 DEF IInv, OldIsNotAhead
    <2>5. Stable(u.link) => graph'[n][u.link] >= u.metrics
      BY <1>7, <2>1, <2>2, <2>4, SMTT(30)
    <2>6. IInv'
      BY <1>1, <1>4, <1>5, <2>1, FewerIInv
    <2> QED
      BY <1>1, <1>7, <1>9, <2>1, <2>5, <2>6
  <1>11. CASE isNew(n, u)
    <2>1. /\ gossip_sequences' = [gossip_sequences EXCEPT ![n][u.link] = u.sequence]
          /\ graph' = [graph EXCEPT ![n][u.link] = u.metrics]
      BY <1>11 DEF process_link_state_update, add_link
    <2>2. u.sequence > gossip_sequences[n][u.link]
      BY <1>11 DEF isNew
    <2> HIDE DEF u, n, a
    <2>3. /\ graph'[n][u.link] = u.metrics /\ gossip_sequences'[n][u.link] = u.sequence
          /\ \A m \in Nodes, k \in Measured :
                 m # n \/ k # u.link => /\ graph'[m][k] = graph[m][k]
                                        /\ gossip_sequences'[m][k] = gossip_sequences[m][k]
      BY <1>2, <1>7, <2>1 DEF IInv, TypeOK
    <2>4. u.metrics \in 0..MaxMeasurements /\ u.sequence \in 0..MaxUpdates
      <3>1. clock[u.link] \in 0..MaxMeasurements
        BY <1>7 DEF IInv, TypeOK
      <3> QED
        BY <1>7, <1>8, <3>1, MeshAssumption, SMTT(30)
    <2>5. TypeOK'
      BY <1>1, <1>2, <1>5, <1>7, <2>1, <2>4 DEF IInv, TypeOK
    <2>6. \A k : Stable(k)' <=> Stable(k)
      BY <1>1 DEF Stable
    <2>7. PicturesAreMeasured'
      <3> SUFFICES ASSUME NEW m \in Nodes, NEW k \in Measured
                   PROVE  graph'[m][k] <= clock'[k]
        BY DEF PicturesAreMeasured
      <3>1. CASE m = n /\ k = u.link
        BY <1>1, <1>8, <2>3, <3>1
      <3>2. CASE m # n \/ k # u.link
        BY <1>1, <2>3, <3>2 DEF IInv, PicturesAreMeasured
      <3> QED
        BY <3>1, <3>2
    <2>8. TrackersCurrent'
      BY <1>1, <2>6 DEF IInv, TrackersCurrent
    <2>9. UpdatesAreSourced'
      BY <1>1, <1>4, <2>6 DEF IInv, UpdatesAreSourced
    <2>10. AppliedAreNumbered'
      <3> SUFFICES ASSUME NEW m \in Nodes, NEW k \in Measured, Stable(k)
                   PROVE  gossip_sequences'[m][k] < sequence_generator[k[1]]
        BY <1>1, <2>6 DEF AppliedAreNumbered
      <3>1. CASE m = n /\ k = u.link
        BY <1>8, <2>3, <3>1
      <3>2. CASE m # n \/ k # u.link
        BY <2>3, <3>2 DEF IInv, AppliedAreNumbered
      <3> QED
        BY <3>1, <3>2
    <2>11. UpdatesInOrder'
      BY <1>4, <2>6 DEF IInv, UpdatesInOrder
    <2>12. NewIsNotBehind'
      <3> SUFFICES ASSUME NEW b \in Adjacent, NEW v \in OnWire(b)', Stable(v.link),
                          v.sequence > gossip_sequences'[b[2]][v.link]
                   PROVE  v.metrics >= graph'[b[2]][v.link]
        BY <2>6 DEF NewIsNotBehind
      <3>1. /\ v \in OnWire(b) /\ b[2] \in Nodes
            /\ v.link \in Measured /\ v.sequence \in Nat /\ v.metrics \in Nat
        BY <1>4, WireFacts, AdjacentFacts DEF IInv
      <3>2. CASE b[2] = n /\ v.link = u.link
        <4>1. u.sequence <= v.sequence
          BY <1>7, <2>3, <3>1, <3>2, SMTT(30)
        <4>2. u.metrics <= v.metrics
          BY <1>2, <1>6, <3>1, <3>2, <4>1 DEF IInv, UpdatesInOrder
        <4> QED
          BY <1>7, <2>3, <3>1, <3>2, <4>2
      <3>3. CASE b[2] # n \/ v.link # u.link
        BY <2>3, <3>1, <3>3 DEF IInv, NewIsNotBehind
      <3> QED
        BY <3>2, <3>3
    <2>13. ASSUME NEW m \in Nodes, NEW k \in Measured, Stable(k)
           PROVE  graph'[m][k] >= graph[m][k]
      <3>1. CASE m = n /\ k = u.link
        <4>1. u.metrics >= graph[a[2]][u.link]
          BY <1>2, <1>6, <2>2, <2>13, <3>1 DEF IInv, NewIsNotBehind, n, a
        <4> QED
          BY <2>3, <3>1, <4>1 DEF n, a
      <3>2. CASE m # n \/ k # u.link
        BY <1>9, <2>3, <3>2
      <3> QED
        BY <3>1, <3>2
    <2>14. OldIsNotAhead'
      <3> SUFFICES ASSUME NEW b \in Adjacent, NEW v \in OnWire(b)', Stable(v.link),
                          v.sequence <= gossip_sequences'[b[2]][v.link]
                   PROVE  v.metrics <= graph'[b[2]][v.link]
        BY <2>6 DEF OldIsNotAhead
      <3>1. /\ v \in OnWire(b) /\ b[2] \in Nodes /\ v.link \in Measured
        BY <1>4, WireFacts, AdjacentFacts DEF IInv
      <3>2. CASE b[2] = n /\ v.link = u.link
        <4>1. v.sequence <= u.sequence
          BY <2>3, <3>2
        <4>2. v.metrics <= u.metrics
          BY <1>2, <1>6, <3>1, <3>2, <4>1 DEF IInv, UpdatesInOrder
        <4> QED
          BY <2>3, <3>2, <4>2
      <3>3. CASE b[2] # n \/ v.link # u.link
        BY <2>3, <3>1, <3>3 DEF IInv, OldIsNotAhead
      <3> QED
        BY <3>2, <3>3
    <2>15. IInv'
      BY <2>5, <2>7, <2>8, <2>9, <2>10, <2>11, <2>12, <2>14 DEF IInv
    <2>16. graph'[n][u.link] >= u.metrics
      BY <1>7, <2>3, SMTT(30)
    <2> QED
      BY <1>1, <1>7, <2>13, <2>15, <2>16 DEF u, n
  <1> QED
    BY <1>10, <1>11

\* A replaced session keeps what was sent on it until its loop ends.
LEMMA ReplaceIInv ==
    ASSUME IInv, NEW a \in Adjacent, replace_session(a)
    PROVE  IInv'
  <1>1. /\ wire' = [wire EXCEPT ![<<a, "old">>] = wire[<<a, "new">>], ![<<a, "new">>] = <<>>]
        /\ UNCHANGED <<clock, local_trackers, sequence_generator, gossip_sequences,
                       graph, restarts>>
    BY DEF replace_session
  <1>2. /\ wire \in [Conns -> Seq(Updates)] /\ <<>> \in Seq(Updates)
        /\ <<a, "old">> \in Conns /\ <<a, "new">> \in Conns
    BY AdjacentFacts, SMTT(30) DEF IInv, TypeOK
  <1>3. wire' \in [Conns -> Seq(Updates)]
    BY <1>1, <1>2
  <1>4. ASSUME NEW b \in Adjacent
        PROVE  OnWire(b)' \subseteq OnWire(b)
    <2>1. CASE b = a
      <3>1. wire'[<<a, "old">>] = wire[<<a, "new">>] /\ wire'[<<a, "new">>] = <<>>
        BY <1>1, <1>2
      <3>2. Elems(<<>>) = {}
        BY SMTT(30) DEF Elems
      <3> QED
        BY <2>1, <3>1, <3>2 DEF OnWire
    <2>2. CASE b # a
      <3>1. wire'[<<b, "old">>] = wire[<<b, "old">>] /\ wire'[<<b, "new">>] = wire[<<b, "new">>]
        BY <1>1, <1>2, <2>2, AdjacentFacts
      <3> QED
        BY <3>1 DEF OnWire
    <2> QED
      BY <2>1, <2>2
  <1> QED
    BY <1>1, <1>3, <1>4, FewerIInv

\* A node that restarts forgets what it knew, and its links are not stable any
\* more; nothing changes between the other nodes.
LEMMA RestartIInv ==
    ASSUME IInv, NEW n \in Nodes, restart(n)
    PROVE  /\ IInv'
           /\ restarts'[n] # restarts[n]
           /\ \A m \in Nodes, k \in Measured : m # n => graph'[m][k] = graph[m][k]
  <1>1. /\ restarts[n] < MaxRestarts /\ restarts' = [restarts EXCEPT ![n] = @ + 1]
        /\ local_trackers' = [l \in Measured |-> IF l[1] = n THEN 0 ELSE local_trackers[l]]
        /\ sequence_generator' = [sequence_generator EXCEPT ![n] = 1]
        /\ gossip_sequences' = [gossip_sequences EXCEPT ![n] = [l \in Measured |-> 0]]
        /\ graph' = [graph EXCEPT ![n] = [l \in Measured |-> 0]]
        /\ UNCHANGED clock
    BY DEF restart, first_sequence
  <1>2. PICK arrived \in BOOLEAN :
            wire' = [c \in Conns |->
                       IF n \notin {c[1][1], c[1][2]} THEN wire[c]
                       ELSE IF arrived /\ c[1][1] = n /\ c[2] = "old"
                       THEN wire[c] \o wire[<<c[1], "new">>] ELSE <<>>]
    BY DEF restart
  <1>3. \A c \in Conns : wire[c] \in Seq(Updates)
    BY DEF IInv, TypeOK
  <1>4. ASSUME NEW a \in Adjacent
        PROVE  /\ wire'[<<a, "old">>] \in Seq(Updates) /\ wire'[<<a, "new">>] \in Seq(Updates)
               /\ OnWire(a)' \subseteq OnWire(a)
               /\ a[2] = n => OnWire(a)' = {}
    <2> DEFINE old == wire[<<a, "old">>]
               new == wire[<<a, "new">>]
    <2>1. Elems(<<>>) = {} /\ <<>> \in Seq(Updates)
      BY SMTT(30) DEF Elems
    <2>2. /\ old \in Seq(Updates) /\ new \in Seq(Updates)
          /\ old \o new \in Seq(Updates) /\ Elems(old \o new) \subseteq Elems(old) \cup Elems(new)
      BY <1>3, AdjacentFacts, ElemsFacts, SMTT(30)
    <2>3. CASE n \notin {a[1], a[2]}
      <3>1. wire'[<<a, "old">>] = old /\ wire'[<<a, "new">>] = new
        BY <1>2, <2>3, AdjacentFacts
      <3> QED
        BY <2>2, <2>3, <3>1 DEF OnWire
    <2>4. CASE n = a[1]
      <3>1. /\ wire'[<<a, "old">>] = old \o new \/ wire'[<<a, "old">>] = <<>>
            /\ wire'[<<a, "new">>] = <<>>
        BY <1>2, <2>4, AdjacentFacts
      <3>2. a[2] # n
        BY <2>4, AdjacentFacts
      <3> QED
        BY <2>1, <2>2, <3>1, <3>2 DEF OnWire
    <2>5. CASE n = a[2]
      <3>1. wire'[<<a, "old">>] = <<>> /\ wire'[<<a, "new">>] = <<>>
        BY <1>2, <2>5, AdjacentFacts
      <3> QED
        BY <2>1, <3>1 DEF OnWire
    <2> QED
      BY <2>3, <2>4, <2>5
  <1>5. /\ restarts'[n] = restarts[n] + 1 /\ restarts[n] \in Nat
        /\ \A m \in Nodes : m # n => restarts'[m] = restarts[m]
    BY <1>1, MeshAssumption, SMTT(30) DEF IInv, TypeOK
  <1>6. \A k \in Measured : Stable(k)' => Stable(k) /\ k[1] # n
    BY <1>5, LinkFacts, SMTT(30) DEF Stable
  <1>7. /\ \A k \in Measured : graph'[n][k] = 0 /\ gossip_sequences'[n][k] = 0
        /\ \A m \in Nodes, k \in Measured :
               m # n => graph'[m][k] = graph[m][k] /\ gossip_sequences'[m][k] = gossip_sequences[m][k]
        /\ \A m \in Nodes : m # n => sequence_generator'[m] = sequence_generator[m]
        /\ \A m \in Nodes : sequence_generator[m] \in Nat /\ sequence_generator[m] > 0
    BY <1>1, MeshAssumption, SMTT(30) DEF IInv, TypeOK
  <1>8. TypeOK'
    <2>1. wire' \in [Conns -> Seq(Updates)]
      BY <1>2, <1>4, ConnFacts
    <2>2. /\ restarts' \in [Nodes -> 0..MaxRestarts]
          /\ sequence_generator' \in [Nodes -> 1..(MaxUpdates + 1)]
      BY <1>1, MeshAssumption, SMTT(30) DEF IInv, TypeOK
    <2>3. /\ local_trackers' \in [Measured -> 0..MaxMeasurements]
          /\ gossip_sequences' \in [Nodes -> [Measured -> 0..MaxUpdates]]
          /\ graph' \in [Nodes -> [Measured -> 0..MaxMeasurements]]
      BY <1>1, MeshAssumption, SMTT(30) DEF IInv, TypeOK
    <2> QED
      BY <1>1, <2>1, <2>2, <2>3 DEF IInv, TypeOK
  <1>9. PicturesAreMeasured'
    <2> SUFFICES ASSUME NEW m \in Nodes, NEW k \in Measured
                 PROVE  graph'[m][k] <= clock[k]
      BY <1>1 DEF PicturesAreMeasured
    <2>1. CASE m = n
      BY <1>7, <2>1, PictureFacts, SMTT(30)
    <2>2. CASE m # n
      BY <1>7, <2>2, SMTT(30) DEF IInv, PicturesAreMeasured
    <2> QED
      BY <2>1, <2>2
  <1>10. TrackersCurrent'
    <2> SUFFICES ASSUME NEW k \in Measured
                 PROVE  /\ local_trackers'[k] <= clock[k]
                        /\ Stable(k)' => local_trackers'[k] = clock[k]
      BY <1>1 DEF TrackersCurrent
    <2>1. CASE k[1] = n
      <3>1. local_trackers'[k] = 0 /\ clock[k] \in Nat
        BY <1>1, <2>1, PictureFacts
      <3> QED
        BY <1>6, <2>1, <3>1, SMTT(30)
    <2>2. CASE k[1] # n
      BY <1>1, <1>6, <2>2 DEF IInv, TrackersCurrent
    <2> QED
      BY <2>1, <2>2
  <1>11. ASSUME NEW a \in Adjacent, NEW u \in OnWire(a)'
         PROVE  u \in OnWire(a) /\ a[2] # n /\ u.link \in Measured /\ a[1] \in Nodes
                /\ a[2] \in Nodes /\ u.link[1] = a[1]
    BY <1>4, WireFacts, AdjacentFacts DEF IInv, UpdatesAreSourced
  <1>12. UpdatesAreSourced'
    <2> SUFFICES ASSUME NEW a \in Adjacent, NEW u \in OnWire(a)'
                 PROVE  /\ u.link[1] = a[1] /\ u.metrics <= clock[u.link]
                        /\ u.sequence \in 1..MaxUpdates
                        /\ Stable(u.link)' => u.sequence < sequence_generator'[a[1]]
      BY <1>1 DEF UpdatesAreSourced
    <2>1. /\ u.link[1] = a[1] /\ u.metrics <= clock[u.link]
          /\ u.sequence \in 1..MaxUpdates
          /\ Stable(u.link) => u.sequence < sequence_generator[a[1]]
      BY <1>11 DEF IInv, UpdatesAreSourced
    <2>2. Stable(u.link)' => Stable(u.link) /\ sequence_generator'[a[1]] = sequence_generator[a[1]]
      <3>1. u.link \in Measured /\ a[1] \in Nodes
        BY <1>11
      <3>2. Stable(u.link)' => Stable(u.link) /\ a[1] # n
        BY <1>6, <2>1, <3>1
      <3> QED
        BY <1>7, <3>1, <3>2
    <2> QED
      BY <2>1, <2>2
  <1>13. AppliedAreNumbered'
    <2> SUFFICES ASSUME NEW m \in Nodes, NEW k \in Measured, Stable(k)'
                 PROVE  gossip_sequences'[m][k] < sequence_generator'[k[1]]
      BY DEF AppliedAreNumbered
    <2>1. CASE m = n
      BY <1>6, <1>7, <2>1, LinkFacts
    <2>2. CASE m # n
      BY <1>6, <1>7, <2>2, LinkFacts DEF IInv, AppliedAreNumbered
    <2> QED
      BY <2>1, <2>2
  <1>14. UpdatesInOrder'
    BY <1>6, <1>11 DEF IInv, UpdatesInOrder
  <1>15. NewIsNotBehind'
    <2> SUFFICES ASSUME NEW a \in Adjacent, NEW u \in OnWire(a)', Stable(u.link)',
                        u.sequence > gossip_sequences'[a[2]][u.link]
                 PROVE  u.metrics >= graph'[a[2]][u.link]
      BY DEF NewIsNotBehind
    <2>1. /\ Stable(u.link) /\ u \in OnWire(a)
          /\ graph'[a[2]][u.link] = graph[a[2]][u.link]
          /\ gossip_sequences'[a[2]][u.link] = gossip_sequences[a[2]][u.link]
      BY <1>6, <1>7, <1>11, SMTT(30)
    <2> QED
      BY <2>1 DEF IInv, NewIsNotBehind
  <1>16. OldIsNotAhead'
    <2> SUFFICES ASSUME NEW a \in Adjacent, NEW u \in OnWire(a)', Stable(u.link)',
                        u.sequence <= gossip_sequences'[a[2]][u.link]
                 PROVE  u.metrics <= graph'[a[2]][u.link]
      BY DEF OldIsNotAhead
    <2>1. /\ Stable(u.link) /\ u \in OnWire(a)
          /\ graph'[a[2]][u.link] = graph[a[2]][u.link]
          /\ gossip_sequences'[a[2]][u.link] = gossip_sequences[a[2]][u.link]
      BY <1>6, <1>7, <1>11, SMTT(30)
    <2> QED
      BY <2>1 DEF IInv, OldIsNotAhead
  <1>17. /\ restarts'[n] # restarts[n]
         /\ \A m \in Nodes, k \in Measured : m # n => graph'[m][k] = graph[m][k]
    BY <1>5, <1>7, SMTT(30)
  <1> QED
    BY <1>8, <1>9, <1>10, <1>12, <1>13, <1>14, <1>15, <1>16, <1>17 DEF IInv

\* One step of the mesh: the invariant is kept, and a picture that goes back is
\* that of a node that restarts, or of a link whose source has restarted.
LEMMA StepIInv ==
    ASSUME IInv, [Next]_vars
    PROVE  /\ IInv'
           /\ \A n \in Nodes, l \in Measured :
                  graph'[n][l] < graph[n][l] => restarts'[n] # restarts[n] \/ restarts[l[1]] > 0
  <1>0. \A l \in Measured : restarts[l[1]] \in Nat /\ (Stable(l) \/ restarts[l[1]] > 0)
    <2>1. \A l \in Measured : restarts[l[1]] \in Nat
      BY LinkFacts, MeshAssumption, SMTT(30) DEF IInv, TypeOK
    <2> QED
      BY <2>1, SMTT(30) DEF Stable
  <1>1. ASSUME IInv', \A n \in Nodes, l \in Measured :
                          \/ graph'[n][l] >= graph[n][l]
                          \/ ~Stable(l)
                          \/ restarts'[n] # restarts[n]
        PROVE  /\ IInv'
               /\ \A n \in Nodes, l \in Measured :
                      graph'[n][l] < graph[n][l] => restarts'[n] # restarts[n] \/ restarts[l[1]] > 0
    <2> SUFFICES ASSUME NEW n \in Nodes, NEW l \in Measured, graph'[n][l] < graph[n][l]
                 PROVE  restarts'[n] # restarts[n] \/ restarts[l[1]] > 0
      BY <1>1
    <2>1. graph[n][l] \in Nat
      BY PictureFacts
    <2>2. graph'[n][l] \in Nat
      <3>1. graph'[n] \in [Measured -> 0..MaxMeasurements]
        BY <1>1 DEF IInv, TypeOK
      <3> QED
        BY <3>1, MeshAssumption, SMTT(30)
    <2> QED
      BY <1>0, <1>1, <2>1, <2>2, SMTT(30)
  <1>2. \A n \in Nodes, l \in Measured : graph[n][l] >= graph[n][l]
    BY PictureFacts, SMTT(30)
  <1>3. ASSUME NEW l \in Measured, record_latency(l)
        PROVE  IInv' /\ \A n \in Nodes, k \in Measured : graph'[n][k] >= graph[n][k]
    BY <1>3, RecordIInv
  <1>4. ASSUME NEW l \in Measured, gossip(l) PROVE IInv' /\ graph' = graph
    BY <1>4, GossipIInv DEF gossip
  <1>5. ASSUME NEW c \in Conns, process_link_state_update(c)
        PROVE  IInv' /\ \A m \in Nodes, k \in Measured : Stable(k) => graph'[m][k] >= graph[m][k]
    BY <1>5, ProcessIInv
  <1>6. ASSUME NEW a \in Adjacent, replace_session(a) PROVE IInv' /\ graph' = graph
    BY <1>6, ReplaceIInv DEF replace_session
  <1>7. ASSUME NEW n \in Nodes, restart(n)
        PROVE  /\ IInv'
               /\ \A m \in Nodes, k \in Measured :
                      graph'[m][k] >= graph[m][k] \/ restarts'[m] # restarts[m]
    BY <1>2, <1>7, RestartIInv, SMTT(30)
  <1>8. CASE UNCHANGED vars
    <2>1. wire' = wire /\ graph' = graph
      BY <1>8 DEF vars
    <2>2. \A a \in Adjacent : OnWire(a)' \subseteq OnWire(a)
      BY <2>1 DEF OnWire
    <2>3. wire' \in [Conns -> Seq(Updates)]
      BY <2>1 DEF IInv, TypeOK
    <2> QED
      BY <1>1, <1>2, <1>8, <2>1, <2>2, <2>3, FewerIInv DEF vars
  <1>9. ASSUME NEW c \in Conns, lose(c) PROVE IInv' /\ graph' = graph
    BY <1>9, LoseIInv DEF lose
  <1>10. ASSUME NEW c \in Conns, reject(c) PROVE IInv' /\ graph' = graph
    BY <1>10, RejectIInv DEF reject
  <1> QED
    BY <1>1, <1>2, <1>3, <1>4, <1>5, <1>6, <1>7, <1>8, <1>9, <1>10 DEF Next

\* The inductive invariant holds in every behaviour of the mesh.
THEOREM Invariance == Spec => []IInv
  <1>1. IInv /\ [Next]_vars => IInv'
    BY StepIInv
  <1> QED
    BY <1>1, InitIInv, PTL DEF Spec

\* No node replaces its picture of a link by an older one while the source of
\* the link has not restarted, whatever sessions are replaced and whoever else
\* restarts (router.rs:124-135).
THEOREM PictureNeverGoesBackHolds == Spec => PictureNeverGoesBack
  <1> DEFINE Kept == \A n \in Nodes, l \in Measured :
                        graph'[n][l] < graph[n][l] =>
                            restarts'[n] # restarts[n] \/ restarts[l[1]] > 0
  <1>1. IInv /\ [Next]_vars => [Kept]_vars
    BY StepIInv
  <1> QED
    BY <1>1, Invariance, PTL DEF Spec, PictureNeverGoesBack

\* An update that a node reads is applied or was overtaken, in a mesh of any
\* shape, whatever was lost, rejected or delivered late before it, as long as
\* the source of its link has not restarted (router.rs:124-135).
THEOREM UpdatesTakeEffectHolds == Spec => UpdatesTakeEffect
  <1> DEFINE Effective ==
                 \A c \in Conns :
                     process_link_state_update(c) =>
                         LET u == Head(wire[c])
                         IN  graph'[c[1][2]][u.link] >= u.metrics \/ restarts[u.link[1]] > 0
  <1>1. ASSUME IInv PROVE Effective
    <2> SUFFICES ASSUME NEW c \in Conns, process_link_state_update(c)
                 PROVE  \/ graph'[c[1][2]][Head(wire[c]).link] >= Head(wire[c]).metrics
                        \/ restarts[Head(wire[c]).link[1]] > 0
      OBVIOUS
    <2> DEFINE u == Head(wire[c])
    <2>1. /\ u.link \in Measured
          /\ Stable(u.link) => graph'[c[1][2]][u.link] >= u.metrics
      BY <1>1, ProcessIInv
    <2>2. restarts[u.link[1]] \in Nat
      <3>1. u.link[1] \in Nodes
        BY <2>1, LinkFacts
      <3> HIDE DEF u
      <3> QED
        BY <1>1, <3>1, MeshAssumption, SMTT(30) DEF IInv, TypeOK
    <2>3. Stable(u.link) \/ restarts[u.link[1]] > 0
      BY <2>2, SMTT(30) DEF Stable
    <2> QED
      BY <2>1, <2>3
  <1>2. IInv /\ [Next]_vars => [Effective]_vars
    BY <1>1
  <1> QED
    BY <1>2, Invariance, PTL DEF Spec, UpdatesTakeEffect

-----------------------------------------------------------------------------
(* The coordinator: Router. *)

\* The metrics a task copied under a tracker's guard are still the tracker's.
CopiesAreFresh ==
    \A t \in Tasks : pc[t].at \in {"linking", "stamping"} =>
        pc[t].metrics = node_trackers[pc[t].peer]

\* The update a task is about to write is the one node_sequences names, no
\* other task is writing that link, and the edge is not newer.
AppliersAreCurrent ==
    \A t \in Tasks : pc[t].at = "applying" =>
        /\ pc[t].metrics = node_sequences[pc[t].link]
        /\ graph_remote[pc[t].link] <= pc[t].metrics
        /\ \A u \in Tasks : pc[u].at = "applying" /\ pc[u].link = pc[t].link => u = t

\* No edge and no update is ahead of the tracker it was copied from.
NothingAhead ==
    /\ \A p \in Peers : graph_local[p] <= node_trackers[p]
    /\ \A u \in out : /\ u.sequence < node_generator
                      /\ u.metrics <= node_trackers[u.destination]

RouterIInv ==
    /\ Router!TypeOK
    /\ CopiesAreFresh
    /\ AppliersAreCurrent
    /\ NothingAhead
    /\ Router!GraphMatchesTrackers
    /\ Router!GraphMatchesGossip
    /\ Router!UpdatesAreOrdered

\* The program counters a task can move to.
LEMMA PcTypes ==
    /\ Router!Idle \in Router!TypeOfPc
    /\ \A p \in Peers : [at |-> "recorded", peer |-> p] \in Router!TypeOfPc
    /\ \A p \in Peers, m \in Nat :
           /\ [at |-> "linking", peer |-> p, metrics |-> m] \in Router!TypeOfPc
           /\ [at |-> "stamping", peer |-> p, metrics |-> m] \in Router!TypeOfPc
    /\ \A l \in RemoteLinks, m \in Nat :
           [at |-> "applying", link |-> l, metrics |-> m] \in Router!TypeOfPc
  BY DEF Router!TypeOfPc

\* What a program counter carries.
LEMMA PcFields ==
    \A c \in Router!TypeOfPc :
        /\ c.at \in {"idle", "recorded", "linking", "stamping", "applying"}
        /\ c.at \in {"recorded", "linking", "stamping"} => c.peer \in Peers
        /\ c.at \in {"linking", "stamping"} => c.metrics \in Nat
        /\ c.at = "applying" => c.link \in RemoteLinks /\ c.metrics \in Nat
  BY SMTT(30) DEF Router!TypeOfPc, Router!Idle

\* A new router satisfies the invariant (router.rs:45-53).
LEMMA RouterInitIInv == Router!Init => RouterIInv
  <1> SUFFICES ASSUME Router!Init PROVE RouterIInv
    OBVIOUS
  <1> USE RoutingAssumption DEF Router!Init
  <1>1. Router!TypeOK
    BY PcTypes, SMTT(30) DEF Router!TypeOK
  <1>2. \A t \in Tasks : pc[t].at = "idle"
    BY DEF Router!Idle
  <1> QED
    BY <1>1, <1>2, SMTT(30) DEF RouterIInv, CopiesAreFresh, AppliersAreCurrent, NothingAhead,
       Router!GraphMatchesTrackers, Router!GraphMatchesGossip, Router!UpdatesAreOrdered

\* Recording a measurement waits for the readers of its tracker, so no copy
\* becomes outdated (router.rs:56-86).
LEMMA RouterRecordIInv ==
    ASSUME RouterIInv, NEW t \in Tasks, NEW p \in Peers, Router!record(t, p)
    PROVE  RouterIInv'
  <1> USE RoutingAssumption DEF Router!record
  <1>1. Router!TypeOK'
    BY PcTypes, SMTT(30) DEF RouterIInv, Router!TypeOK
  <1>2. pc \in [Tasks -> Router!TypeOfPc] /\ node_trackers \in [Peers -> 0..MaxMeasurements]
    BY DEF RouterIInv, Router!TypeOK
  <1>3. /\ pc'[t] = [at |-> "recorded", peer |-> p]
        /\ \A u \in Tasks : u # t => pc'[u] = pc[u]
        /\ pc[t].at = "idle"
    BY <1>2, SMTT(30) DEF Router!Idle
  <1>4. /\ node_trackers'[p] = node_trackers[p] + 1
        /\ \A q \in Peers : q # p => node_trackers'[q] = node_trackers[q]
        /\ \A q \in Peers : node_trackers[q] \in Nat
    BY <1>2, SMTT(30)
  <1>5. CopiesAreFresh'
    <2> SUFFICES ASSUME NEW u \in Tasks, pc'[u].at \in {"linking", "stamping"}
                 PROVE  pc'[u].metrics = node_trackers'[pc'[u].peer]
      BY DEF CopiesAreFresh
    <2>1. u # t /\ pc'[u] = pc[u]
      BY <1>3, SMTT(30)
    <2>2. pc[u].peer # p /\ pc[u].peer \in Peers
      BY <1>2, <2>1, PcFields DEF Router!TrackerReaders
    <2> QED
      BY <1>4, <2>1, <2>2, SMTT(30) DEF RouterIInv, CopiesAreFresh
  <1>6. AppliersAreCurrent'
    BY <1>3, SMTT(30) DEF RouterIInv, AppliersAreCurrent
  <1>7. NothingAhead'
    <2>1. \A u \in out : u.destination \in Peers /\ u.metrics \in Nat
      BY DEF RouterIInv, Router!TypeOK
    <2>2. \A q \in Peers : graph_local[q] \in Nat
      BY DEF RouterIInv, Router!TypeOK
    <2> QED
      BY <1>4, <2>1, <2>2, SMTT(30) DEF RouterIInv, NothingAhead
  <1>8. Router!GraphMatchesTrackers'
    <2> SUFFICES ASSUME NEW q \in Peers, ~Router!Pending(q)'
                 PROVE  graph_local'[q] = node_trackers'[q]
      BY DEF Router!GraphMatchesTrackers
    <2>1. q # p
      BY <1>3, SMTT(30) DEF Router!Pending
    <2>2. ~Router!Pending(q)
      BY <1>3 DEF Router!Pending
    <2> QED
      BY <1>4, <2>1, <2>2 DEF RouterIInv, Router!GraphMatchesTrackers
  <1>9. Router!GraphMatchesGossip'
    <2>1. \A l \in RemoteLinks : Router!SequenceHolders(l)' = Router!SequenceHolders(l)
      BY <1>3, SMTT(30) DEF Router!SequenceHolders
    <2> QED
      BY <2>1 DEF RouterIInv, Router!GraphMatchesGossip
  <1>10. Router!UpdatesAreOrdered'
    BY DEF RouterIInv, Router!UpdatesAreOrdered
  <1> QED
    BY <1>1, <1>5, <1>6, <1>7, <1>8, <1>9, <1>10, SMTT(30) DEF RouterIInv

\* Copying the tracker for the graph keeps the invariant (router.rs:89-91).
LEMMA LinkReadIInv ==
    ASSUME RouterIInv, NEW t \in Tasks, Router!update_graph_link_read(t)
    PROVE  RouterIInv'
  <1> USE DEF Router!update_graph_link_read
  <1>1. pc \in [Tasks -> Router!TypeOfPc] /\ node_trackers \in [Peers -> 0..MaxMeasurements]
    BY DEF RouterIInv, Router!TypeOK
  <1> DEFINE p == pc[t].peer
  <1>2. p \in Peers /\ node_trackers[p] \in Nat
    BY <1>1, PcFields, RoutingAssumption, SMTT(30)
  <1>3. /\ pc'[t] = [at |-> "linking", peer |-> p, metrics |-> node_trackers[p]]
        /\ \A u \in Tasks : u # t => pc'[u] = pc[u]
    BY <1>1
  <1>4. Router!TypeOK'
    <2>1. pc' \in [Tasks -> Router!TypeOfPc]
      BY <1>1, <1>2, PcTypes
    <2> QED
      BY <2>1 DEF RouterIInv, Router!TypeOK
  <1>5. CopiesAreFresh'
    BY <1>3, SMTT(30) DEF RouterIInv, CopiesAreFresh
  <1>6. AppliersAreCurrent'
    BY <1>3, SMTT(30) DEF RouterIInv, AppliersAreCurrent
  <1>7. NothingAhead' /\ Router!UpdatesAreOrdered'
    BY DEF RouterIInv, NothingAhead, Router!UpdatesAreOrdered
  <1>8. Router!GraphMatchesTrackers'
    <2>1. \A q \in Peers : Router!Pending(q) => Router!Pending(q)'
      BY <1>3, SMTT(30) DEF Router!Pending
    <2> QED
      BY <2>1 DEF RouterIInv, Router!GraphMatchesTrackers
  <1>9. Router!GraphMatchesGossip'
    <2>1. \A l \in RemoteLinks : Router!SequenceHolders(l)' = Router!SequenceHolders(l)
      BY <1>3, SMTT(30) DEF Router!SequenceHolders
    <2> QED
      BY <2>1 DEF RouterIInv, Router!GraphMatchesGossip
  <1> QED
    BY <1>4, <1>5, <1>6, <1>7, <1>8, <1>9, SMTT(30) DEF RouterIInv

\* Writing the copy into the graph keeps the invariant (router.rs:92-95).
LEMMA LinkWriteIInv ==
    ASSUME RouterIInv, NEW t \in Tasks, Router!update_graph_link_write(t)
    PROVE  RouterIInv'
  <1> USE DEF Router!update_graph_link_write
  <1>1. /\ pc \in [Tasks -> Router!TypeOfPc]
        /\ node_trackers \in [Peers -> 0..MaxMeasurements]
        /\ graph_local \in [Peers -> Nat]
    BY DEF RouterIInv, Router!TypeOK
  <1> DEFINE p == pc[t].peer
  <1>2. p \in Peers /\ pc[t].metrics = node_trackers[p] /\ node_trackers[p] \in Nat
    BY <1>1, PcFields, RoutingAssumption DEF RouterIInv, CopiesAreFresh
  <1>3. /\ pc'[t].at = "idle"
        /\ \A u \in Tasks : u # t => pc'[u] = pc[u]
        /\ graph_local'[p] = node_trackers[p]
        /\ \A q \in Peers : q # p => graph_local'[q] = graph_local[q]
    BY <1>1, <1>2 DEF Router!Idle
  <1>4. Router!TypeOK'
    <2>1. pc' \in [Tasks -> Router!TypeOfPc]
      BY <1>1, PcTypes
    <2>2. graph_local' \in [Peers -> Nat]
      BY <1>1, <1>2
    <2> QED
      BY <2>1, <2>2 DEF RouterIInv, Router!TypeOK
  <1>5. CopiesAreFresh'
    BY <1>3, SMTT(30) DEF RouterIInv, CopiesAreFresh
  <1>6. AppliersAreCurrent'
    BY <1>3, SMTT(30) DEF RouterIInv, AppliersAreCurrent
  <1>7. NothingAhead'
    BY <1>2, <1>3, SMTT(30) DEF RouterIInv, NothingAhead
  <1>8. Router!GraphMatchesTrackers'
    <2> SUFFICES ASSUME NEW q \in Peers, ~Router!Pending(q)'
                 PROVE  graph_local'[q] = node_trackers[q]
      BY DEF Router!GraphMatchesTrackers
    <2>1. CASE q = p
      BY <1>3, <2>1
    <2>2. CASE q # p
      <3>1. ~Router!Pending(q)
        BY <1>3, <2>2, SMTT(30) DEF Router!Pending
      <3> QED
        BY <1>3, <2>2, <3>1 DEF RouterIInv, Router!GraphMatchesTrackers
    <2> QED
      BY <2>1, <2>2
  <1>9. Router!GraphMatchesGossip'
    <2>1. \A l \in RemoteLinks : Router!SequenceHolders(l)' = Router!SequenceHolders(l)
      BY <1>3, SMTT(30) DEF Router!SequenceHolders
    <2> QED
      BY <2>1 DEF RouterIInv, Router!GraphMatchesGossip
  <1>10. Router!UpdatesAreOrdered'
    BY DEF RouterIInv, Router!UpdatesAreOrdered
  <1> QED
    BY <1>4, <1>5, <1>6, <1>7, <1>8, <1>9, <1>10, SMTT(30) DEF RouterIInv

\* Copying the tracker for an update keeps the invariant (router.rs:98-100).
LEMMA UpdateReadIInv ==
    ASSUME RouterIInv, NEW t \in Tasks, NEW p \in Peers, Router!get_link_state_update_read(t, p)
    PROVE  RouterIInv'
  <1> USE DEF Router!get_link_state_update_read
  <1>1. pc \in [Tasks -> Router!TypeOfPc] /\ node_trackers \in [Peers -> 0..MaxMeasurements]
    BY DEF RouterIInv, Router!TypeOK
  <1>2. node_trackers[p] \in Nat
    BY <1>1, RoutingAssumption, SMTT(30)
  <1>3. /\ pc'[t] = [at |-> "stamping", peer |-> p, metrics |-> node_trackers[p]]
        /\ \A u \in Tasks : u # t => pc'[u] = pc[u]
        /\ pc[t].at = "idle"
    BY <1>1, SMTT(30) DEF Router!Idle
  <1>4. Router!TypeOK'
    <2>1. pc' \in [Tasks -> Router!TypeOfPc]
      BY <1>1, <1>2, PcTypes
    <2> QED
      BY <2>1 DEF RouterIInv, Router!TypeOK
  <1>5. CopiesAreFresh'
    BY <1>3, SMTT(30) DEF RouterIInv, CopiesAreFresh
  <1>6. AppliersAreCurrent'
    BY <1>3, SMTT(30) DEF RouterIInv, AppliersAreCurrent
  <1>7. NothingAhead' /\ Router!UpdatesAreOrdered'
    BY DEF RouterIInv, NothingAhead, Router!UpdatesAreOrdered
  <1>8. Router!GraphMatchesTrackers'
    <2>1. \A q \in Peers : Router!Pending(q) => Router!Pending(q)'
      BY <1>3 DEF Router!Pending
    <2> QED
      BY <2>1 DEF RouterIInv, Router!GraphMatchesTrackers
  <1>9. Router!GraphMatchesGossip'
    <2>1. \A l \in RemoteLinks : Router!SequenceHolders(l)' = Router!SequenceHolders(l)
      BY <1>3, SMTT(30) DEF Router!SequenceHolders
    <2> QED
      BY <2>1 DEF RouterIInv, Router!GraphMatchesGossip
  <1> QED
    BY <1>4, <1>5, <1>6, <1>7, <1>8, <1>9, SMTT(30) DEF RouterIInv

\* The new sequence is above all others, and the copy it is given to is as new
\* as any sent before (router.rs:101-114).
LEMMA UpdateStampIInv ==
    ASSUME RouterIInv, NEW t \in Tasks, Router!get_link_state_update_stamp(t)
    PROVE  RouterIInv'
  <1> USE DEF Router!get_link_state_update_stamp
  <1>1. /\ pc \in [Tasks -> Router!TypeOfPc]
        /\ node_trackers \in [Peers -> 0..MaxMeasurements]
        /\ node_generator \in Nat \ {0}
        /\ out \in SUBSET [destination : Peers, metrics : Nat, sequence : Nat]
    BY DEF RouterIInv, Router!TypeOK
  <1> DEFINE p == pc[t].peer
             new == [destination |-> p, metrics |-> pc[t].metrics,
                     sequence |-> node_generator]
  <1>2. /\ p \in Peers
        /\ pc[t].metrics = node_trackers[p]
        /\ node_trackers[p] \in Nat
    BY <1>1, PcFields, RoutingAssumption DEF RouterIInv, CopiesAreFresh
  <1>3. /\ pc'[t].at = "idle"
        /\ \A u \in Tasks : u # t => pc'[u] = pc[u]
        /\ node_generator' = node_generator + 1
        /\ out' = out \cup {new}
    BY <1>1 DEF Router!Idle, Router!fetch_add
  <1>4. Router!TypeOK'
    <2>1. pc' \in [Tasks -> Router!TypeOfPc]
      BY <1>1, PcTypes
    <2>2. new \in [destination : Peers, metrics : Nat, sequence : Nat]
      BY <1>1, <1>2
    <2> QED
      BY <1>1, <1>3, <2>1, <2>2, SMTT(30) DEF RouterIInv, Router!TypeOK
  <1>5. CopiesAreFresh'
    BY <1>3, SMTT(30) DEF RouterIInv, CopiesAreFresh
  <1>6. AppliersAreCurrent'
    BY <1>3, SMTT(30) DEF RouterIInv, AppliersAreCurrent
  <1>7. NothingAhead'
    <2>1. \A u \in out : u.sequence < node_generator /\ u.sequence \in Nat
      BY <1>1 DEF RouterIInv, NothingAhead
    <2> QED
      BY <1>1, <1>2, <1>3, <2>1, SMTT(30) DEF RouterIInv, NothingAhead
  <1>8. Router!GraphMatchesTrackers'
    <2>1. \A q \in Peers : Router!Pending(q)' <=> Router!Pending(q)
      BY <1>3 DEF Router!Pending
    <2> QED
      BY <2>1 DEF RouterIInv, Router!GraphMatchesTrackers
  <1>9. Router!GraphMatchesGossip'
    <2>1. \A l \in RemoteLinks : Router!SequenceHolders(l)' = Router!SequenceHolders(l)
      BY <1>3, SMTT(30) DEF Router!SequenceHolders
    <2> QED
      BY <2>1 DEF RouterIInv, Router!GraphMatchesGossip
  <1>10. Router!UpdatesAreOrdered'
    <2> SUFFICES ASSUME NEW u \in out', NEW v \in out'
                 PROVE  /\ u.sequence = v.sequence => u = v
                        /\ u.destination = v.destination /\ u.sequence < v.sequence
                               => u.metrics <= v.metrics
      BY DEF Router!UpdatesAreOrdered
    <2>1. \A w \in out : /\ w.sequence < node_generator
                         /\ w.sequence \in Nat
                         /\ w.metrics <= node_trackers[w.destination]
      BY <1>1 DEF RouterIInv, NothingAhead
    <2>2. CASE u \in out /\ v \in out
      BY <2>2 DEF RouterIInv, Router!UpdatesAreOrdered
    <2>3. CASE u \in out /\ v = new
      BY <1>1, <1>2, <2>1, <2>3, SMTT(30)
    <2>4. CASE u = new /\ v \in out
      BY <1>1, <2>1, <2>4, SMTT(30)
    <2>5. CASE u = new /\ v = new
      BY <1>1, <1>2, <2>5, SMTT(30)
    <2> QED
      BY <1>3, <2>2, <2>3, <2>4, <2>5
  <1> QED
    BY <1>4, <1>5, <1>6, <1>7, <1>8, <1>9, <1>10, SMTT(30) DEF RouterIInv

\* The sequence check lets one task at a time through for a link
\* (router.rs:120-130).
LEMMA CheckIInv ==
    ASSUME RouterIInv, NEW t \in Tasks, NEW l \in RemoteLinks, NEW s \in 1..MaxSequence,
           Router!process_link_state_update_check(t, l, s)
    PROVE  RouterIInv'
  <1> USE RoutingAssumption DEF Router!process_link_state_update_check
  <1>1. /\ pc \in [Tasks -> Router!TypeOfPc]
        /\ node_sequences \in [RemoteLinks -> Nat]
        /\ graph_remote \in [RemoteLinks -> Nat]
    BY DEF RouterIInv, Router!TypeOK
  <1>2. CASE s <= node_sequences[l]
    BY <1>2, SMTT(30) DEF RouterIInv, Router!TypeOK, CopiesAreFresh, AppliersAreCurrent,
       NothingAhead, Router!GraphMatchesTrackers, Router!Pending,
       Router!GraphMatchesGossip, Router!SequenceHolders, Router!UpdatesAreOrdered
  <1>3. CASE ~(s <= node_sequences[l])
    <2>1. /\ pc'[t] = [at |-> "applying", link |-> l, metrics |-> s]
          /\ \A u \in Tasks : u # t => pc'[u] = pc[u]
          /\ pc[t].at = "idle"
          /\ node_sequences'[l] = s
          /\ \A k \in RemoteLinks : k # l => node_sequences'[k] = node_sequences[k]
      BY <1>1, <1>3, SMTT(30) DEF Router!Idle
    <2>2. graph_remote[l] = node_sequences[l]
      BY DEF RouterIInv, Router!GraphMatchesGossip
    <2>3. \A u \in Tasks : pc[u].at = "applying" => pc[u].link # l
      BY DEF Router!SequenceHolders
    <2>4. Router!TypeOK'
      <3>1. pc' \in [Tasks -> Router!TypeOfPc]
        BY <1>1, <1>3, PcTypes, SMTT(30)
      <3>2. node_sequences' \in [RemoteLinks -> Nat]
        BY <1>1, <1>3, SMTT(30)
      <3> QED
        BY <3>1, <3>2 DEF RouterIInv, Router!TypeOK
    <2>5. CopiesAreFresh'
      BY <2>1, SMTT(30) DEF RouterIInv, CopiesAreFresh
    <2>6. AppliersAreCurrent'
      <3> SUFFICES ASSUME NEW u \in Tasks, pc'[u].at = "applying"
                   PROVE  /\ pc'[u].metrics = node_sequences'[pc'[u].link]
                          /\ graph_remote[pc'[u].link] <= pc'[u].metrics
                          /\ \A w \in Tasks :
                                pc'[w].at = "applying" /\ pc'[w].link = pc'[u].link => w = u
        BY DEF AppliersAreCurrent
      <3>1. CASE u = t
        BY <1>1, <1>3, <2>1, <2>2, <2>3, <3>1, SMTT(30)
      <3>2. CASE u # t
        <4>1. pc'[u] = pc[u] /\ pc[u].link \in RemoteLinks /\ pc[u].link # l
          BY <1>1, <2>1, <2>3, <3>2, PcFields
        <4> QED
          BY <2>1, <3>2, <4>1, SMTT(30) DEF RouterIInv, AppliersAreCurrent
      <3> QED
        BY <3>1, <3>2
    <2>7. NothingAhead' /\ Router!UpdatesAreOrdered'
      BY <1>3 DEF RouterIInv, NothingAhead, Router!UpdatesAreOrdered
    <2>8. Router!GraphMatchesTrackers'
      <3>1. \A q \in Peers : Router!Pending(q)' <=> Router!Pending(q)
        BY <2>1, SMTT(30) DEF Router!Pending
      <3> QED
        BY <3>1 DEF RouterIInv, Router!GraphMatchesTrackers
    <2>9. Router!GraphMatchesGossip'
      <3> SUFFICES ASSUME NEW k \in RemoteLinks, Router!SequenceHolders(k)' = {}
                   PROVE  graph_remote[k] = node_sequences'[k]
        BY DEF Router!GraphMatchesGossip
      <3>1. k # l
        BY <2>1, SMTT(30) DEF Router!SequenceHolders
      <3>2. Router!SequenceHolders(k) = {}
        BY <2>1, SMTT(30) DEF Router!SequenceHolders
      <3> QED
        BY <2>1, <3>1, <3>2 DEF RouterIInv, Router!GraphMatchesGossip
    <2> QED
      BY <2>4, <2>5, <2>6, <2>7, <2>8, <2>9 DEF RouterIInv
  <1> QED
    BY <1>2, <1>3

\* Writing the update into the graph keeps the invariant (router.rs:133-136).
LEMMA ApplyIInv ==
    ASSUME RouterIInv, NEW t \in Tasks, Router!process_link_state_update_apply(t)
    PROVE  RouterIInv'
  <1> USE DEF Router!process_link_state_update_apply
  <1>1. pc \in [Tasks -> Router!TypeOfPc] /\ graph_remote \in [RemoteLinks -> Nat]
    BY DEF RouterIInv, Router!TypeOK
  <1> DEFINE l == pc[t].link
  <1>2. /\ l \in RemoteLinks /\ pc[t].metrics \in Nat
        /\ pc[t].metrics = node_sequences[l]
        /\ \A u \in Tasks : u # t /\ pc[u].at = "applying" => pc[u].link # l
    BY <1>1, PcFields DEF RouterIInv, AppliersAreCurrent
  <1>3. /\ pc'[t].at = "idle"
        /\ \A u \in Tasks : u # t => pc'[u] = pc[u]
        /\ graph_remote'[l] = node_sequences[l]
        /\ \A k \in RemoteLinks : k # l => graph_remote'[k] = graph_remote[k]
    BY <1>1, <1>2, SMTT(30) DEF Router!Idle
  <1>4. Router!TypeOK'
    <2>1. pc' \in [Tasks -> Router!TypeOfPc]
      BY <1>1, PcTypes
    <2>2. graph_remote' \in [RemoteLinks -> Nat]
      BY <1>1, <1>2
    <2> QED
      BY <2>1, <2>2 DEF RouterIInv, Router!TypeOK
  <1>5. CopiesAreFresh'
    BY <1>3, SMTT(30) DEF RouterIInv, CopiesAreFresh
  <1>6. AppliersAreCurrent'
    <2> SUFFICES ASSUME NEW u \in Tasks, pc'[u].at = "applying"
                 PROVE  /\ pc'[u].metrics = node_sequences[pc'[u].link]
                        /\ graph_remote'[pc'[u].link] <= pc'[u].metrics
                        /\ \A w \in Tasks :
                              pc'[w].at = "applying" /\ pc'[w].link = pc'[u].link => w = u
      BY DEF AppliersAreCurrent
    <2>1. u # t /\ pc'[u] = pc[u] /\ pc[u].link # l /\ pc[u].link \in RemoteLinks
      BY <1>1, <1>2, <1>3, PcFields
    <2> QED
      BY <1>3, <2>1, SMTT(30) DEF RouterIInv, AppliersAreCurrent
  <1>7. NothingAhead' /\ Router!UpdatesAreOrdered'
    BY DEF RouterIInv, NothingAhead, Router!UpdatesAreOrdered
  <1>8. Router!GraphMatchesTrackers'
    <2>1. \A q \in Peers : Router!Pending(q)' <=> Router!Pending(q)
      BY <1>3, SMTT(30) DEF Router!Pending
    <2> QED
      BY <2>1 DEF RouterIInv, Router!GraphMatchesTrackers
  <1>9. Router!GraphMatchesGossip'
    <2> SUFFICES ASSUME NEW k \in RemoteLinks, Router!SequenceHolders(k)' = {}
                 PROVE  graph_remote'[k] = node_sequences[k]
      BY DEF Router!GraphMatchesGossip
    <2>1. CASE k = l
      BY <1>3, <2>1
    <2>2. CASE k # l
      <3>1. Router!SequenceHolders(k) = {}
        BY <1>3, <2>2, SMTT(30) DEF Router!SequenceHolders
      <3> QED
        BY <1>3, <2>2, <3>1 DEF RouterIInv, Router!GraphMatchesGossip
    <2> QED
      BY <2>1, <2>2
  <1> QED
    BY <1>4, <1>5, <1>6, <1>7, <1>8, <1>9, SMTT(30) DEF RouterIInv

\* Every reachable state of the router satisfies the inductive invariant.
THEOREM RouterInvariance == Router!Spec => []RouterIInv
  <1>1. RouterIInv /\ [Router!Next]_Router!vars => RouterIInv'
    <2> SUFFICES ASSUME RouterIInv, [Router!Next]_Router!vars PROVE RouterIInv'
      OBVIOUS
    <2>1. CASE \E t \in Tasks : Router!Step(t)
      BY <2>1, LinkReadIInv, LinkWriteIInv, UpdateStampIInv, ApplyIInv, SMTT(30) DEF Router!Step
    <2>2. CASE \E t \in Tasks, p \in Peers :
                   Router!record(t, p) \/ Router!get_link_state_update_read(t, p)
      BY <2>2, RouterRecordIInv, UpdateReadIInv
    <2>3. CASE \E t \in Tasks, l \in RemoteLinks, s \in 1..MaxSequence :
                   Router!process_link_state_update_check(t, l, s)
      BY <2>3, CheckIInv
    <2>4. CASE UNCHANGED Router!vars
      BY <2>4, SMTT(30) DEF Router!vars, RouterIInv, Router!TypeOK, CopiesAreFresh,
         AppliersAreCurrent, NothingAhead, Router!GraphMatchesTrackers, Router!Pending,
         Router!GraphMatchesGossip, Router!SequenceHolders, Router!UpdatesAreOrdered
    <2> QED
      BY <2>1, <2>2, <2>3, <2>4 DEF Router!Next
  <1> QED
    BY <1>1, RouterInitIInv, PTL DEF Router!Spec

\* With no record_* call in progress the graph holds the current averages
\* (router.rs:56-95).
THEOREM TrackersInGraph == Router!Spec => []GraphMatchesTrackers
  <1>1. RouterIInv => GraphMatchesTrackers
    BY DEF RouterIInv, GraphMatchesTrackers
  <1> QED
    BY <1>1, RouterInvariance, PTL

\* With no update being applied the graph holds the newest accepted snapshot
\* of every remote link (router.rs:120-136).
THEOREM GossipInGraph == Router!Spec => []GraphMatchesGossip
  <1>1. RouterIInv => GraphMatchesGossip
    BY DEF RouterIInv, GraphMatchesGossip
  <1> QED
    BY <1>1, RouterInvariance, PTL

\* Sequence numbers are unique and order the snapshots of a link
\* (router.rs:98-114).
THEOREM UpdatesOrdered == Router!Spec => []UpdatesAreOrdered
  <1>1. RouterIInv => UpdatesAreOrdered
    BY DEF RouterIInv, UpdatesAreOrdered
  <1> QED
    BY <1>1, RouterInvariance, PTL

\* No edge is overwritten by an older value (router.rs:89-95 and 124-135).
THEOREM NoEdgeGoesBack == Router!Spec => GraphNeverGoesBack
  <1> DEFINE Forward == /\ \A p \in Peers : graph_local[p] <= graph_local'[p]
                        /\ \A l \in RemoteLinks : graph_remote[l] <= graph_remote'[l]
  <1>1. RouterIInv /\ [Router!Next]_Router!vars => [Forward]_Router!vars
    <2> SUFFICES ASSUME RouterIInv, Router!Next PROVE Forward
      OBVIOUS
    <2>1. /\ pc \in [Tasks -> Router!TypeOfPc]
          /\ graph_local \in [Peers -> Nat]
          /\ graph_remote \in [RemoteLinks -> Nat]
      BY DEF RouterIInv, Router!TypeOK
    <2>2. ASSUME NEW t \in Tasks, Router!update_graph_link_write(t) PROVE Forward
      <3>1. pc[t].peer \in Peers /\ graph_local[pc[t].peer] <= pc[t].metrics
        BY <2>1, <2>2, PcFields DEF Router!update_graph_link_write, RouterIInv,
           CopiesAreFresh, NothingAhead
      <3> QED
        BY <2>1, <2>2, <3>1, SMTT(30) DEF Router!update_graph_link_write
    <2>3. ASSUME NEW t \in Tasks, Router!process_link_state_update_apply(t) PROVE Forward
      <3>1. pc[t].link \in RemoteLinks /\ graph_remote[pc[t].link] <= pc[t].metrics
        BY <2>1, <2>3, PcFields DEF Router!process_link_state_update_apply, RouterIInv,
           AppliersAreCurrent
      <3> QED
        BY <2>1, <2>3, <3>1, SMTT(30) DEF Router!process_link_state_update_apply
    <2>4. CASE UNCHANGED <<graph_local, graph_remote>>
      BY <2>1, <2>4, SMTT(30)
    <2>5. \/ \E t \in Tasks : Router!update_graph_link_write(t)
          \/ \E t \in Tasks : Router!process_link_state_update_apply(t)
          \/ UNCHANGED <<graph_local, graph_remote>>
      BY DEF Router!Next, Router!Step, Router!record, Router!update_graph_link_read,
         Router!get_link_state_update_read, Router!get_link_state_update_stamp,
         Router!process_link_state_update_check
    <2> QED
      BY <2>2, <2>3, <2>4, <2>5
  <1>2. GraphNeverGoesBack <=> [][Forward]_Router!vars
    BY DEF GraphNeverGoesBack, Router!GraphNeverGoesBack
  <1> QED
    BY <1>1, <1>2, RouterInvariance, PTL DEF Router!Spec
=============================================================================
