-------------------------- MODULE DiscoveryProofs --------------------------
(***************************************************************************)
(* The address cache and the calls that use it, for any peers, addresses   *)
(* and time to live.  First the lists that retain leaves; then that the    *)
(* list of a peer is ordered by the last reports of its addresses and      *)
(* misses only what has expired (Current), so that lookup is exact; then   *)
(* that a call of send_to_peer which gives up has failed at every address  *)
(* that was fresh when it looked (Sound).                                  *)
(***************************************************************************)
EXTENDS Discovery, FiniteSetTheorems, WellFoundedInduction, TLAPS

USE Zenon

-----------------------------------------------------------------------------
\* The order of the natural numbers is well founded.
LEMMA LessIsWellFounded ==
    \E R : IsWellFoundedOn(R, Nat) /\ \A x, y \in Nat : x < y => <<x, y>> \in R
  <1>1. \A x, y \in Nat : x < y => <<x, y>> \in OpToRel(<, Nat)
    BY DEF OpToRel
  <1> QED
    BY <1>1, NatLessThanWellFounded

\* Induction, as the least counterexample: a set of numbers has a least one.
LEMMA LeastNat ==
    ASSUME NEW T, T \subseteq Nat, T # {}
    PROVE  \E m \in T : \A k \in T : m <= k
  <1>1. PICK R : IsWellFoundedOn(R, Nat) /\ \A x, y \in Nat : x < y => <<x, y>> \in R
    BY LessIsWellFounded
  <1>2. \E m \in T : \A k \in T : ~(<<k, m>> \in R)
    <2>1. IsWellFoundedOn(R, Nat)
      BY <1>1
    <2> QED
      BY <2>1, WFMin
  <1>3. PICK m \in T : \A k \in T : ~(<<k, m>> \in R)
    BY <1>2
  <1>4. ASSUME NEW k \in T PROVE m <= k
    <2>1. k \in Nat /\ m \in Nat
      OBVIOUS
    <2>2. ~(k < m)
      BY <1>1, <1>3, <2>1
    <2> QED
      BY <2>1, <2>2, SMTT(30)
  <1> QED
    BY <1>4

\* The positions up to n that are kept have an increasing list.
Listed(kept, n) ==
    \E m \in 0..n : \E f \in [1..m -> kept \cap 1..n] : lists(f, kept \cap 1..n)

\* One more position can be appended to such a list.
LEMMA ListedNext ==
    ASSUME NEW kept, NEW n \in Nat, Listed(kept, n)
    PROVE  Listed(kept, n + 1)
  <1> DEFINE K == kept \cap 1..n
             L == kept \cap 1..(n + 1)
  <1>0. PICK m \in 0..n : \E f \in [1..m -> K] : lists(f, K)
    BY DEF Listed
  <1>1. PICK f \in [1..m -> K] : lists(f, K)
    BY <1>0
  <1>2. CASE n + 1 \notin kept
    <2>1. K = L
      BY <1>2, SMTT(30)
    <2>2. m \in 0..(n + 1)
      BY SMTT(30)
    <2> QED
      BY <1>1, <2>1, <2>2 DEF Listed
  <1>3. CASE n + 1 \in kept
    <2> DEFINE g == [i \in 1..(m + 1) |-> IF i = m + 1 THEN n + 1 ELSE f[i]]
    <2>1. m + 1 \in 0..(n + 1) /\ m \in Nat
      BY SMTT(30)
    <2>2. g \in [1..(m + 1) -> L]
      BY <1>3, <2>1, SMTT(30)
    <2>3. ASSUME NEW i \in 1..(m + 1), NEW j \in 1..(m + 1), i < j
          PROVE  g[i] < g[j]
      <3>1. i \in 1..m /\ g[i] = f[i] /\ f[i] \in 1..n
        BY <2>1, <2>3, SMTT(30)
      <3>2. CASE j = m + 1
        BY <2>1, <3>1, <3>2, SMTT(30)
      <3>3. CASE j # m + 1
        BY <1>1, <2>1, <2>3, <3>1, <3>3, SMTT(30) DEF lists
      <3> QED
        BY <3>2, <3>3
    <2>4. ASSUME NEW k \in L
          PROVE  \E i \in 1..(m + 1) : g[i] = k
      <3>1. CASE k = n + 1
        BY <2>1, <3>1, SMTT(30)
      <3>2. CASE k # n + 1
        <4>1. k \in K
          BY <3>2, SMTT(30)
        <4>2. PICK i \in 1..m : f[i] = k
          BY <1>1, <4>1 DEF lists
        <4> QED
          BY <2>1, <4>2, SMTT(30)
      <3> QED
        BY <3>1, <3>2
    <2>5. DOMAIN g = 1..(m + 1)
      OBVIOUS
    <2>6. lists(g, L)
      BY <2>3, <2>4, <2>5 DEF lists
    <2> HIDE DEF g
    <2> QED
      BY <2>1, <2>2, <2>6 DEF Listed
  <1> QED
    BY <1>2, <1>3

\* So every set of positions has an increasing list.
LEMMA AllListed ==
    ASSUME NEW n \in Nat, NEW kept
    PROVE  Listed(kept, n)
  <1> DEFINE T == {k \in Nat : ~ Listed(kept, k)}
  <1>1. SUFFICES ASSUME T # {} PROVE FALSE
    OBVIOUS
  <1>2. T \subseteq Nat
    OBVIOUS
  <1>3. PICK k \in T : \A j \in T : k <= j
    BY <1>1, <1>2, LeastNat
  <1>4. k # 0
    <2>1. Listed(kept, 0)
      <3>1. kept \cap 1..0 = {} /\ 1..0 = {} /\ 0 \in 0..0
        BY SMTT(30)
      <3> DEFINE e == [i \in {} |-> i]
      <3>2. e \in [{} -> {}] /\ lists(e, {})
        BY DEF lists
      <3> HIDE DEF e
      <3> QED
        BY <3>1, <3>2 DEF Listed
    <2> QED
      BY <2>1
  <1>5. k - 1 \in Nat /\ (k - 1) + 1 = k /\ ~(k <= k - 1)
    BY <1>4, SMTT(30)
  <1>6. Listed(kept, k - 1)
    BY <1>3, <1>5
  <1>7. Listed(kept, k)
    BY <1>5, <1>6, ListedNext
  <1> QED
    BY <1>7

\* Such a list is as long as the set is large.
LEMMA ListedSize ==
    ASSUME NEW kept \in SUBSET Nat, NEW m \in Nat, NEW f \in [1..m -> kept],
           lists(f, kept)
    PROVE  Cardinality(kept) = m
  <1>1. ASSUME NEW i \in 1..m, NEW j \in 1..m, f[i] = f[j]
        PROVE  i = j
    <2>1. (i < j => f[i] < f[j]) /\ (j < i => f[j] < f[i])
      BY DEF lists
    <2>2. f[i] \in Nat /\ f[j] \in Nat
      OBVIOUS
    <2> QED
      BY <1>1, <2>1, <2>2, SMTT(30)
  <1>2. \A k \in kept : \E i \in 1..m : f[i] = k
    BY DEF lists
  <1>3. f \in Bijection(1..m, kept)
    BY <1>1, <1>2 DEF Bijection, Injection, Surjection, IsInjective
  <1> QED
    BY <1>3, FS_CountingElements DEF ExistsBijection

\* r has the entries of the list at the positions kept, all and in their order.
Retained(r, list, kept) ==
    /\ \A i \in DOMAIN r : \E k \in kept : r[i] = list[k]
    /\ \A i, j \in DOMAIN r :
           i < j => \E k, l \in kept : k < l /\ r[i] = list[k] /\ r[j] = list[l]
    /\ \A k \in kept : \E i \in DOMAIN r : r[i] = list[k]

\* That is what retain leaves of a list (cache.rs:52, 67, 84).
LEMMA RetainedList ==
    ASSUME NEW S, NEW list \in Seq(S), NEW kept \in SUBSET (DOMAIN list)
    PROVE  /\ retain(list, kept) \in Seq(S)
           /\ Retained(retain(list, kept), list, kept)
  <1> DEFINE n == Len(list)
             m == Cardinality(kept)
             at == CHOOSE f \in [1..m -> kept] : lists(f, kept)
             r == retain(list, kept)
  <1>1. n \in Nat /\ DOMAIN list = 1..n /\ kept \in SUBSET Nat
    BY SMTT(30)
  <1>2. kept \cap 1..n = kept
    BY <1>1
  <1>3. Listed(kept, n)
    BY <1>1, AllListed
  <1>4. PICK l \in 0..n : \E f \in [1..l -> kept] : lists(f, kept)
    BY <1>2, <1>3 DEF Listed
  <1>5. l \in Nat
    BY <1>1, SMTT(30)
  <1>6. m = l
    BY <1>1, <1>4, <1>5, ListedSize
  <1>7. at \in [1..m -> kept] /\ lists(at, kept)
    BY <1>4, <1>6
  <1>8. r = [i \in DOMAIN at |-> list[at[i]]]
    BY DEF retain
  <1> HIDE DEF at, r, m
  <1>9. m \in Nat /\ DOMAIN at = 1..m /\ DOMAIN r = DOMAIN at
    BY <1>5, <1>6, <1>7, <1>8
  <1>10. \A i \in DOMAIN r : at[i] \in kept /\ r[i] = list[at[i]]
    BY <1>7, <1>8, <1>9
  <1>11. r \in Seq(S)
    <2>1. \A i \in 1..m : list[at[i]] \in S
      BY <1>1, <1>7, SMTT(30)
    <2> QED
      BY <1>8, <1>9, <2>1, SMTT(30)
  <1>12. ASSUME NEW i \in DOMAIN r, NEW j \in DOMAIN r, i < j
         PROVE  \E k, h \in kept : k < h /\ r[i] = list[k] /\ r[j] = list[h]
    <2>1. at[i] < at[j]
      BY <1>7, <1>9, <1>12 DEF lists
    <2> QED
      BY <1>10, <2>1
  <1>13. ASSUME NEW k \in kept
         PROVE  \E i \in DOMAIN r : r[i] = list[k]
    <2>1. PICK i \in DOMAIN r : at[i] = k
      BY <1>7, <1>9 DEF lists
    <2> QED
      BY <1>10, <2>1
  <1>14. Retained(r, list, kept)
    BY <1>10, <1>12, <1>13 DEF Retained
  <1> QED
    BY <1>11, <1>14 DEF r

-----------------------------------------------------------------------------
(* The cache *)

Entries == [addr : Addrs, expires_at : Nat]

\* The list of a peer at time t, of which the reports came when last says: its
\* entries are from the last reports of their addresses, in the order of these,
\* and only addresses whose time is over may be missing.
Current(list, last, t) ==
    /\ \A i \in DOMAIN list :
           /\ last[list[i].addr] > 0
           /\ list[i].expires_at + 1 = last[list[i].addr] + DEFAULT_TTL
    /\ \A i, j \in DOMAIN list :
           i < j => list[i].addr # list[j].addr /\ list[i].expires_at <= list[j].expires_at
    /\ \A a \in Addrs :
           /\ last[a] <= t + 1
           /\ (last[a] > 0 /\ t + 1 < last[a] + DEFAULT_TTL)
                  => \E i \in DOMAIN list : list[i].addr = a

Live(list, t) == {i \in DOMAIN list : list[i].expires_at > t}
Others(list, a) == {i \in DOMAIN list : list[i].addr # a}

\* Pruning takes only what has expired (cache.rs:81-87).
LEMMA PrunedIsCurrent ==
    ASSUME NEW list \in Seq(Entries), NEW last \in [Addrs -> Nat], NEW t \in Nat,
           Current(list, last, t),
           NEW kept, kept = Live(list, t),
           NEW r, r = retain(list, kept)
    PROVE  r \in Seq(Entries) /\ Current(r, last, t)
  <1>1. kept \in SUBSET (DOMAIN list)
    BY DEF Live
  <1>2. r \in Seq(Entries) /\ Retained(r, list, kept)
    BY <1>1, RetainedList
  <1>3. ASSUME NEW i \in DOMAIN r
        PROVE  /\ last[r[i].addr] > 0
               /\ r[i].expires_at + 1 = last[r[i].addr] + DEFAULT_TTL
    <2>1. PICK k \in kept : r[i] = list[k]
      BY <1>2 DEF Retained
    <2>2. k \in DOMAIN list
      BY <1>1
    <2> QED
      BY <2>1, <2>2 DEF Current
  <1>4. ASSUME NEW i \in DOMAIN r, NEW j \in DOMAIN r, i < j
        PROVE  r[i].addr # r[j].addr /\ r[i].expires_at <= r[j].expires_at
    <2>1. PICK k \in kept, l \in kept : k < l /\ r[i] = list[k] /\ r[j] = list[l]
      BY <1>2, <1>4, ZenonT(60) DEF Retained
    <2>2. k \in DOMAIN list /\ l \in DOMAIN list
      BY <1>1
    <2>3. list[k].addr # list[l].addr /\ list[k].expires_at <= list[l].expires_at
      BY <2>1, <2>2 DEF Current
    <2> QED
      BY <2>1, <2>3
  <1>5. ASSUME NEW a \in Addrs, last[a] > 0, t + 1 < last[a] + DEFAULT_TTL
        PROVE  \E i \in DOMAIN r : r[i].addr = a
    <2>1. PICK k \in DOMAIN list : list[k].addr = a
      BY <1>5 DEF Current
    <2>2. list[k].expires_at + 1 = last[a] + DEFAULT_TTL
      BY <2>1 DEF Current
    <2>3. list[k].expires_at \in Nat
      <3>1. list[k] \in Entries
        BY SMTT(30)
      <3> QED
        BY <3>1 DEF Entries
    <2>4. list[k].expires_at > t
      BY <1>5, <2>2, <2>3, DiscoveryAssumption, SMTT(30)
    <2>5. k \in kept
      BY <2>4 DEF Live
    <2> QED
      BY <1>2, <2>1, <2>5, ZenonT(60) DEF Retained
  <1> QED
    BY <1>2, <1>3, <1>4, <1>5 DEF Current

\* A report puts its address at the end, where it is the latest
\* (cache.rs:46-54).
LEMMA InsertedIsCurrent ==
    ASSUME NEW list \in Seq(Entries), NEW last \in [Addrs -> Nat], NEW t \in Nat,
           Current(list, last, t), NEW a \in Addrs,
           NEW kept, kept = Others(list, a),
           NEW r, r = retain(list, kept),
           NEW e, e = [addr |-> a, expires_at |-> t + DEFAULT_TTL]
    PROVE  /\ Append(r, e) \in Seq(Entries)
           /\ Current(Append(r, e), [last EXCEPT ![a] = t + 1], t)
  <1> DEFINE new == Append(r, e)
             now_last == [last EXCEPT ![a] = t + 1]
             n == Len(r)
  <1>1. kept \in SUBSET (DOMAIN list)
    BY DEF Others
  <1>2. r \in Seq(Entries) /\ Retained(r, list, kept)
    BY <1>1, RetainedList
  <1>3. e \in Entries /\ e.addr = a /\ e.expires_at = t + DEFAULT_TTL
    BY DiscoveryAssumption, SMTT(30) DEF Entries
  <1>4. /\ new \in Seq(Entries) /\ n \in Nat
        /\ DOMAIN r = 1..n /\ DOMAIN new = 1..(n + 1)
        /\ new[n + 1] = e /\ \A i \in 1..n : new[i] = r[i]
    BY <1>2, <1>3, SMTT(30)
  <1>5. /\ now_last[a] = t + 1
        /\ \A b \in Addrs : b # a => now_last[b] = last[b]
    OBVIOUS
  <1>6. ASSUME NEW i \in DOMAIN r
        PROVE  /\ r[i].addr # a /\ r[i].addr \in Addrs /\ r[i].expires_at \in Nat
               /\ last[r[i].addr] > 0
               /\ r[i].expires_at + 1 = last[r[i].addr] + DEFAULT_TTL
    <2>1. PICK k \in kept : r[i] = list[k]
      BY <1>2 DEF Retained
    <2>2. list[k].addr # a /\ k \in DOMAIN list
      BY DEF Others
    <2>3. list[k].addr \in Addrs /\ list[k].expires_at \in Nat
      <3>1. list[k] \in Entries
        BY <2>2, SMTT(30)
      <3> QED
        BY <3>1 DEF Entries
    <2> QED
      BY <2>1, <2>2, <2>3 DEF Current
  <1>7. ASSUME NEW i \in DOMAIN r
        PROVE  r[i].expires_at <= t + DEFAULT_TTL
    <2>1. last[r[i].addr] <= t + 1 /\ last[r[i].addr] \in Nat
      BY <1>6 DEF Current
    <2> QED
      BY <1>6, <2>1, DiscoveryAssumption, SMTT(30)
  <1>8. ASSUME NEW i \in DOMAIN r, NEW j \in DOMAIN r, i < j
        PROVE  r[i].addr # r[j].addr /\ r[i].expires_at <= r[j].expires_at
    <2>1. PICK k \in kept, l \in kept : k < l /\ r[i] = list[k] /\ r[j] = list[l]
      BY <1>2, <1>8, ZenonT(60) DEF Retained
    <2>2. k \in DOMAIN list /\ l \in DOMAIN list
      BY <1>1
    <2>3. list[k].addr # list[l].addr /\ list[k].expires_at <= list[l].expires_at
      BY <2>1, <2>2 DEF Current
    <2> QED
      BY <2>1, <2>3
  <1>9. \A i \in DOMAIN new : i = n + 1 \/ i \in 1..n
    BY <1>4, SMTT(30)
  <1>10. \A i \in 1..n : ~(n + 1 < i)
    BY <1>4, SMTT(30)
  <1>11. ~(n + 1 < n + 1) /\ n + 1 \in DOMAIN new /\ 1..n \subseteq DOMAIN new
    BY <1>4, SMTT(30)
  <1> HIDE DEF new, now_last, n
  <1>12. t + 1 > 0 /\ (t + DEFAULT_TTL) + 1 = (t + 1) + DEFAULT_TTL /\ t + 1 <= t + 1
    BY DiscoveryAssumption, SMTT(30)
  <1>13. ASSUME NEW i \in DOMAIN new
         PROVE  /\ now_last[new[i].addr] > 0
                /\ new[i].expires_at + 1 = now_last[new[i].addr] + DEFAULT_TTL
    <2>1. CASE i = n + 1
      BY <1>3, <1>4, <1>5, <1>12, <2>1
    <2>2. CASE i \in 1..n
      <3>1. i \in DOMAIN r /\ new[i] = r[i]
        BY <1>4, <2>2
      <3>2. now_last[r[i].addr] = last[r[i].addr]
        BY <1>5, <1>6, <3>1
      <3> QED
        BY <1>6, <3>1, <3>2
    <2> QED
      BY <1>9, <2>1, <2>2
  <1>14. ASSUME NEW i \in DOMAIN new, NEW j \in DOMAIN new, i < j
         PROVE  new[i].addr # new[j].addr /\ new[i].expires_at <= new[j].expires_at
    <2>1. i \in 1..n
      BY <1>9, <1>10, <1>11, <1>14
    <2>2. CASE j = n + 1
      BY <1>3, <1>4, <1>6, <1>7, <2>1, <2>2
    <2>3. CASE j \in 1..n
      <3>1. i \in DOMAIN r /\ j \in DOMAIN r /\ new[i] = r[i] /\ new[j] = r[j]
        BY <1>4, <2>1, <2>3
      <3>2. r[i].addr # r[j].addr /\ r[i].expires_at <= r[j].expires_at
        BY <1>8, <1>14, <3>1
      <3> QED
        BY <3>1, <3>2
    <2> QED
      BY <1>9, <2>2, <2>3
  <1>15. ASSUME NEW b \in Addrs
         PROVE  /\ now_last[b] <= t + 1
                /\ (now_last[b] > 0 /\ t + 1 < now_last[b] + DEFAULT_TTL)
                       => \E i \in DOMAIN new : new[i].addr = b
    <2>1. CASE b = a
      BY <1>3, <1>4, <1>5, <1>11, <1>12, <2>1
    <2>2. CASE b # a
      <3>1. now_last[b] = last[b] /\ last[b] <= t + 1
        BY <1>5, <2>2 DEF Current
      <3>2. ASSUME last[b] > 0, t + 1 < last[b] + DEFAULT_TTL
            PROVE  \E i \in DOMAIN new : new[i].addr = b
        <4>1. PICK k \in DOMAIN list : list[k].addr = b
          BY <3>2 DEF Current
        <4>2. k \in kept
          BY <2>2, <4>1 DEF Others
        <4>3. PICK i \in DOMAIN r : r[i] = list[k]
          BY <1>2, <4>2 DEF Retained
        <4> QED
          BY <1>4, <1>11, <4>1, <4>3
      <3> QED
        BY <3>1, <3>2
    <2> QED
      BY <2>1, <2>2
  <1>16. Current(new, now_last, t)
    BY <1>13, <1>14, <1>15 DEF Current
  <1> QED
    BY <1>4, <1>16 DEF new, now_last

\* Time makes no entry wrong.
LEMMA LaterIsCurrent ==
    ASSUME NEW list, NEW last \in [Addrs -> Nat], NEW t \in Nat, Current(list, last, t)
    PROVE  Current(list, last, t + 1)
  <1>1. ASSUME NEW a \in Addrs
        PROVE  /\ last[a] <= t + 1 => last[a] <= (t + 1) + 1
               /\ (t + 1) + 1 < last[a] + DEFAULT_TTL => t + 1 < last[a] + DEFAULT_TTL
    BY DiscoveryAssumption, SMTT(30)
  <1> QED
    BY <1>1 DEF Current

CacheInv ==
    /\ now \in Nat
    /\ inner \in [Peers -> Seq(Entries)]
    /\ seen \in [Peers -> [Addrs -> Nat]]
    /\ \A p \in Peers : Current(inner[p], seen[p], now)

\* The list that lookup and prune make of an entry of the map.
LEMMA UnexpiredIsCurrent ==
    ASSUME CacheInv, NEW p \in Peers
    PROVE  /\ unexpired(p) \in Seq(Entries)
           /\ Current(unexpired(p), seen[p], now)
           /\ Retained(unexpired(p), inner[p], Live(inner[p], now))
  <1>1. unexpired(p) = retain(inner[p], Live(inner[p], now))
    BY DEF unexpired, active, Live
  <1>2. /\ inner[p] \in Seq(Entries) /\ seen[p] \in [Addrs -> Nat] /\ now \in Nat
        /\ Current(inner[p], seen[p], now)
    BY DEF CacheInv
  <1>3. Live(inner[p], now) \in SUBSET (DOMAIN inner[p])
    BY DEF Live
  <1>4. /\ retain(inner[p], Live(inner[p], now)) \in Seq(Entries)
        /\ Current(retain(inner[p], Live(inner[p], now)), seen[p], now)
    BY <1>2, PrunedIsCurrent
  <1>5. Retained(retain(inner[p], Live(inner[p], now)), inner[p],
                 Live(inner[p], now))
    BY <1>2, <1>3, RetainedList
  <1> QED
    BY <1>1, <1>4, <1>5

\* lookup returns a list of addresses, and exactly those it should.
LEMMA LookupIsCurrent ==
    ASSUME CacheInv, NEW p \in Peers
    PROVE  /\ lookup(p) \in Seq(Addrs)
           /\ Range(lookup(p)) = fresh(p)
           /\ IsInjective(lookup(p))
           /\ \A i, j \in DOMAIN lookup(p) :
                  i < j => seen[p][lookup(p)[i]] <= seen[p][lookup(p)[j]]
  <1> DEFINE r == unexpired(p)
             addrs == lookup(p)
             last == seen[p]
  <1>1. /\ r \in Seq(Entries) /\ Current(r, last, now)
        /\ Retained(r, inner[p], Live(inner[p], now))
    BY UnexpiredIsCurrent
  <1>2. addrs = [i \in DOMAIN r |-> r[i].addr]
    BY DEF lookup
  <1>3. last \in [Addrs -> Nat] /\ now \in Nat /\ inner[p] \in Seq(Entries)
    BY DEF CacheInv
  <1> HIDE DEF r, addrs, last
  <1>4. PICK n \in Nat : DOMAIN r = 1..n
    BY <1>1, SMTT(30)
  <1>5. ASSUME NEW i \in DOMAIN r
        PROVE  /\ r[i].addr \in Addrs /\ r[i].expires_at \in Nat
               /\ r[i].expires_at > now
               /\ last[r[i].addr] > 0 /\ last[r[i].addr] \in Nat
               /\ r[i].expires_at + 1 = last[r[i].addr] + DEFAULT_TTL
    <2>1. r[i] \in Entries
      BY <1>1, SMTT(30)
    <2>2. PICK k \in Live(inner[p], now) : r[i] = inner[p][k]
      BY <1>1 DEF Retained
    <2>3. r[i].expires_at > now
      BY <2>2 DEF Live
    <2>4. last[r[i].addr] > 0 /\ r[i].expires_at + 1 = last[r[i].addr] + DEFAULT_TTL
      BY <1>1 DEF Current
    <2>5. r[i].addr \in Addrs /\ r[i].expires_at \in Nat
      BY <2>1 DEF Entries
    <2> QED
      BY <1>3, <2>3, <2>4, <2>5
  <1>6. DOMAIN addrs = DOMAIN r /\ \A i \in DOMAIN r : addrs[i] = r[i].addr
    BY <1>2
  <1>7. addrs \in Seq(Addrs)
    <2>1. \A i \in 1..n : r[i].addr \in Addrs
      BY <1>4, <1>5
    <2>2. addrs = [i \in 1..n |-> r[i].addr]
      BY <1>2, <1>4
    <2> QED
      BY <2>1, <2>2, SMTT(30)
  <1>8. ASSUME NEW a \in Addrs, last[a] > 0, now < last[a] - 1 + DEFAULT_TTL
        PROVE  \E i \in DOMAIN addrs : addrs[i] = a
    <2>1. now + 1 < last[a] + DEFAULT_TTL
      BY <1>3, <1>8, DiscoveryAssumption, SMTT(30)
    <2>2. PICK i \in DOMAIN r : r[i].addr = a
      BY <1>1, <1>8, <2>1 DEF Current
    <2> QED
      BY <1>6, <2>2
  <1>9. ASSUME NEW i \in DOMAIN addrs
        PROVE  /\ addrs[i] \in Addrs /\ last[addrs[i]] > 0
               /\ now < last[addrs[i]] - 1 + DEFAULT_TTL
    <2>1. i \in DOMAIN r /\ addrs[i] = r[i].addr
      BY <1>6
    <2>2. now < last[r[i].addr] - 1 + DEFAULT_TTL
      BY <1>3, <1>5, <2>1, DiscoveryAssumption, SMTT(30)
    <2> QED
      BY <1>5, <2>1, <2>2
  <1>10. Range(addrs) = {a \in Addrs : last[a] > 0 /\ now < last[a] - 1 + DEFAULT_TTL}
    BY <1>8, <1>9 DEF Range
  <1>11. IsInjective(addrs)
    <2>1. ASSUME NEW i \in DOMAIN addrs, NEW j \in DOMAIN addrs, addrs[i] = addrs[j]
          PROVE  i = j
      <3>1. i \in DOMAIN r /\ j \in DOMAIN r /\ r[i].addr = r[j].addr
        BY <1>6, <2>1
      <3>2. ~(i < j) /\ ~(j < i)
        BY <1>1, <3>1 DEF Current
      <3> QED
        BY <1>4, <3>1, <3>2, SMTT(30)
    <2> QED
      BY <2>1 DEF IsInjective
  <1>12. ASSUME NEW i \in DOMAIN addrs, NEW j \in DOMAIN addrs, i < j
         PROVE  last[addrs[i]] <= last[addrs[j]]
    <2>1. i \in DOMAIN r /\ j \in DOMAIN r /\ addrs[i] = r[i].addr /\ addrs[j] = r[j].addr
      BY <1>6
    <2>2. r[i].expires_at <= r[j].expires_at
      BY <1>1, <1>12, <2>1 DEF Current
    <2>3. last[r[i].addr] <= last[r[j].addr]
      BY <1>5, <2>1, <2>2, DiscoveryAssumption, SMTT(30)
    <2> QED
      BY <2>1, <2>3
  <1> QED
    BY <1>7, <1>10, <1>11, <1>12 DEF addrs, last, fresh

\* The cache is current from the start.
LEMMA CacheInit == DiscoveryInit => CacheInv
  <1> SUFFICES ASSUME DiscoveryInit PROVE CacheInv
    OBVIOUS
  <1> USE DEF DiscoveryInit
  <1>1. now \in Nat /\ \A p \in Peers : inner[p] \in Seq(Entries) /\ DOMAIN inner[p] = {}
    BY SMTT(30)
  <1>2. inner \in [Peers -> Seq(Entries)] /\ seen \in [Peers -> [Addrs -> Nat]]
    BY <1>1, SMTT(30)
  <1>3. ASSUME NEW p \in Peers PROVE Current(inner[p], seen[p], now)
    <2>1. \A a \in Addrs : seen[p][a] = 0
      OBVIOUS
    <2>2. ~(0 > 0) /\ 0 <= 0 + 1 /\ now = 0
      BY SMTT(30)
    <2> QED
      BY <1>1, <2>1, <2>2 DEF Current
  <1> QED
    BY <1>1, <1>2, <1>3 DEF CacheInv

\* A report keeps it current (service.rs:178-200).
LEMMA DiscoveredCache ==
    ASSUME CacheInv, NEW q \in Discovered, q \in Peers, NEW a \in Addrs,
           inner' = insert_with_ttl(q, a, DEFAULT_TTL),
           seen' = [seen EXCEPT ![q][a] = now + 1], now' = now
    PROVE  CacheInv'
  <1> DEFINE e == [addr |-> a, expires_at |-> now + DEFAULT_TTL]
             r == retain(inner[q], Others(inner[q], a))
             last == [seen[q] EXCEPT ![a] = now + 1]
  <1>1. /\ inner \in [Peers -> Seq(Entries)] /\ seen \in [Peers -> [Addrs -> Nat]]
        /\ now \in Nat /\ inner[q] \in Seq(Entries) /\ seen[q] \in [Addrs -> Nat]
        /\ Current(inner[q], seen[q], now)
    BY DEF CacheInv
  <1>2. inner' = [inner EXCEPT ![q] = Append(r, e)]
    BY DEF insert_with_ttl, Others
  <1>3. Append(r, e) \in Seq(Entries) /\ Current(Append(r, e), last, now)
    BY <1>1, InsertedIsCurrent
  <1>4. seen' = [seen EXCEPT ![q] = last]
    OBVIOUS
  <1>5. last \in [Addrs -> Nat]
    BY <1>1, SMTT(30)
  <1> HIDE DEF r, e, last
  <1>6. inner' \in [Peers -> Seq(Entries)] /\ seen' \in [Peers -> [Addrs -> Nat]]
    BY <1>1, <1>2, <1>3, <1>4, <1>5
  <1>7. ASSUME NEW p \in Peers PROVE Current(inner'[p], seen'[p], now)
    <2>1. CASE p = q
      BY <1>1, <1>2, <1>3, <1>4, <2>1
    <2>2. CASE p # q
      <3>1. inner'[p] = inner[p] /\ seen'[p] = seen[p]
        BY <1>1, <1>2, <1>4, <2>2
      <3> QED
        BY <3>1 DEF CacheInv
    <2> QED
      BY <2>1, <2>2
  <1>8. \A p \in Peers : Current(inner'[p], seen'[p], now')
    BY <1>7
  <1> QED
    BY <1>1, <1>6, <1>8 DEF CacheInv

\* So does every other step.
LEMMA CacheStep == CacheInv /\ [DiscoveryNext]_discoveryVars => CacheInv'
  <1> SUFFICES ASSUME CacheInv, [DiscoveryNext]_discoveryVars
               PROVE  CacheInv'
    OBVIOUS
  <1>1. ASSUME UNCHANGED <<now, inner, seen>> PROVE CacheInv'
    BY <1>1 DEF CacheInv
  <1>2. CASE UNCHANGED discoveryVars
    BY <1>1, <1>2 DEF discoveryVars, taskVars
  <1>3. CASE tick_prune
    <2>1. inner' = [p \in Peers |-> unexpired(p)] /\ seen' = seen /\ now' = now
      BY <1>3 DEF tick_prune, prune
    <2>2. \A p \in Peers : /\ inner'[p] = unexpired(p)
                           /\ inner'[p] \in Seq(Entries)
                           /\ Current(inner'[p], seen[p], now)
      BY <2>1, UnexpiredIsCurrent
    <2>3. inner' \in [Peers -> Seq(Entries)]
      BY <2>1, <2>2
    <2>4. \A p \in Peers : Current(inner'[p], seen'[p], now')
      BY <2>1, <2>2
    <2> QED
      BY <2>1, <2>3, <2>4 DEF CacheInv
  <1>4. CASE cmd_recv
    BY <1>1, <1>4 DEF cmd_recv
  <1>5. ASSUME NEW r \in Reports, discovered(r) PROVE CacheInv'
    <2>1. now' = now
      BY <1>5 DEF discovered
    <2>2. CASE r = Unusable
      BY <1>1, <1>5, <2>1, <2>2 DEF discovered
    <2>3. CASE r # Unusable
      <3>1. /\ r[1] \in Discovered /\ r[1] \in Peers /\ r[2] \in Addrs
            /\ inner' = insert_with_ttl(r[1], r[2], DEFAULT_TTL)
            /\ seen' = [seen EXCEPT ![r[1]][r[2]] = now + 1]
        BY <1>5, <2>3, DiscoveryAssumption DEF discovered, Reports
      <3> QED
        BY <2>1, <3>1, DiscoveredCache
    <2> QED
      BY <2>2, <2>3
  <1>6. CASE build_step \/ bootstrap
    BY <1>1, <1>6 DEF build_step, bootstrap
  <1>7. ASSUME NEW c \in Callers,
               connect_peer(c) \/ connect_addr(c) \/ send(c)
        PROVE  CacheInv'
    BY <1>1, <1>7 DEF connect_peer, connect_addr, send,
                      taskVars
  <1>8. ASSUME NEW a \in Addrs, NEW q \in Peers \cup {Nobody}, move(a, q)
        PROVE  CacheInv'
    BY <1>1, <1>8 DEF move, taskVars
  <1>9. ASSUME NEW q \in Peers, accept(q) PROVE CacheInv'
    BY <1>1, <1>9 DEF accept, taskVars
  <1>10. CASE pass_time
    <2>1. now' = now + 1 /\ inner' = inner /\ seen' = seen
      BY <1>10 DEF pass_time, taskVars
    <2>2. now \in Nat /\ now + 1 \in Nat
      BY SMTT(30) DEF CacheInv
    <2>3. \A p \in Peers : Current(inner[p], seen[p], now + 1)
      BY <2>2, LaterIsCurrent DEF CacheInv
    <2> QED
      BY <2>1, <2>2, <2>3 DEF CacheInv
  <1> QED
    BY <1>2, <1>3, <1>4, <1>5, <1>6, <1>7, <1>8, <1>9, <1>10 DEF DiscoveryNext

\* Whatever was refreshed or pruned and when, lookup returns exactly the
\* addresses reported for the peer less than DEFAULT_TTL ago, each once and the
\* one reported longest ago first (cache.rs:61-73).
THEOREM LookupIsExactHolds == DiscoverySpec => []LookupIsExact
  <1>1. CacheInv => LookupIsExact
    BY LookupIsCurrent DEF LookupIsExact
  <1> QED
    BY <1>1, CacheInit, CacheStep, PTL DEF DiscoverySpec

-----------------------------------------------------------------------------
(* The calls *)

Places == {"idle", "trying", "connected", "no_addresses", "failed", "sent", "no_session"}

\* What is known of a call c, with x where it is, du the addresses it had to
\* find, rf those that failed, mt whom it has connected to and ss the sessions:
\* what has not failed is still to be tried, and those in mt have sessions.
Sound(c, x, du, rf, mt, ss) ==
    /\ x \in [at : Places, rest : Seq(Addrs)]
    /\ x.at = "trying" => x.rest # <<>> /\ du # {} /\ du \subseteq rf \cup Range(x.rest)
    /\ x.at = "no_addresses" => du = {}
    /\ x.at = "failed" => du # {} /\ du \subseteq rf
    /\ x.at = "connected" => To[c] \in ss \/ mt # {}
    /\ mt \subseteq ss
    /\ x.at = "no_session" => mt # {} /\ To[c] \notin mt

CallInv ==
    /\ sending = [c \in Callers |-> sending[c]]
    /\ due = [c \in Callers |-> due[c]]
    /\ refused = [c \in Callers |-> refused[c]]
    /\ met = [c \in Callers |-> met[c]]
    /\ \A c \in Callers : Sound(c, sending[c], due[c], refused[c], met[c], sessions)

\* No call has begun.
LEMMA CallInit == DiscoveryInit => CallInv
  <1> SUFFICES ASSUME DiscoveryInit PROVE CallInv
    OBVIOUS
  <1>1. /\ sending = [c \in Callers |-> [at |-> "idle", rest |-> <<>>]]
        /\ due = [c \in Callers |-> {}] /\ refused = [c \in Callers |-> {}]
        /\ met = [c \in Callers |-> {}]
    BY DEF DiscoveryInit
  <1>2. ASSUME NEW c \in Callers
        PROVE  /\ sending[c] \in [at : Places, rest : Seq(Addrs)] /\ sending[c].at = "idle"
               /\ met[c] = {}
    BY <1>1, SMTT(30) DEF Places
  <1>3. ASSUME NEW c \in Callers
        PROVE  Sound(c, sending[c], due[c], refused[c], met[c], sessions)
    BY <1>2 DEF Sound
  <1>4. /\ sending = [c \in Callers |-> sending[c]] /\ due = [c \in Callers |-> due[c]]
        /\ refused = [c \in Callers |-> refused[c]] /\ met = [c \in Callers |-> met[c]]
    BY <1>1
  <1> QED
    BY <1>3, <1>4 DEF CallInv

\* A session more leaves a call sound.
LEMMA SoundWithMore ==
    ASSUME NEW c, NEW x, NEW du, NEW rf, NEW mt, NEW ss, NEW tt,
           Sound(c, x, du, rf, mt, ss), ss \subseteq tt
    PROVE  Sound(c, x, du, rf, mt, tt)
  BY DEF Sound

\* A step of one call keeps the invariant if that call stays sound.
LEMMA CallMoves ==
    ASSUME CallInv, NEW c \in Callers, NEW x, NEW du, NEW rf, NEW mt,
           sending' = [sending EXCEPT ![c] = x], due' = [due EXCEPT ![c] = du],
           refused' = [refused EXCEPT ![c] = rf], met' = [met EXCEPT ![c] = mt],
           sessions \subseteq sessions', Sound(c, x, du, rf, mt, sessions')
    PROVE  CallInv'
  <1>1. /\ DOMAIN sending = Callers /\ DOMAIN due = Callers
        /\ DOMAIN refused = Callers /\ DOMAIN met = Callers
    BY DEF CallInv
  <1>2. /\ sending' = [d \in Callers |-> sending'[d]] /\ due' = [d \in Callers |-> due'[d]]
        /\ refused' = [d \in Callers |-> refused'[d]] /\ met' = [d \in Callers |-> met'[d]]
    BY <1>1
  <1>3. ASSUME NEW d \in Callers
        PROVE  Sound(d, sending'[d], due'[d], refused'[d], met'[d], sessions')
    <2>1. CASE d = c
      <3>1. sending'[d] = x /\ due'[d] = du /\ refused'[d] = rf /\ met'[d] = mt
        BY <1>1, <2>1
      <3> QED
        BY <2>1, <3>1
    <2>2. CASE d # c
      <3>1. /\ sending'[d] = sending[d] /\ due'[d] = due[d]
            /\ refused'[d] = refused[d] /\ met'[d] = met[d]
        BY <1>1, <2>2
      <3>2. Sound(d, sending[d], due[d], refused[d], met[d], sessions)
        BY DEF CallInv
      <3>3. Sound(d, sending[d], due[d], refused[d], met[d], sessions')
        BY <3>2, SoundWithMore
      <3> QED
        BY <3>1, <3>3
    <2> QED
      BY <2>1, <2>2
  <1> QED
    BY <1>2, <1>3 DEF CallInv

\* An assignment of the same value changes nothing.
LEMMA SameValue ==
    ASSUME NEW S, NEW f, f = [d \in S |-> f[d]], NEW c \in S
    PROVE  f = [f EXCEPT ![c] = f[c]]
  <1> DEFINE g == [f EXCEPT ![c] = f[c]]
  <1>1. DOMAIN f = S
    OBVIOUS
  <1>2. g = [d \in S |-> g[d]]
    BY <1>1
  <1>3. \A d \in S : g[d] = f[d]
    BY <1>1
  <1> HIDE DEF g
  <1>4. g = f
    BY <1>2, <1>3
  <1> QED
    BY <1>4 DEF g

\* connect_peer looks addresses up and has all the fresh ones before it
\* (lib.rs:196-209).
LEMMA ConnectPeerCalls ==
    ASSUME CacheInv, CallInv, NEW c \in Callers, connect_peer(c)
    PROVE  CallInv'
  <1> DEFINE addrs == lookup(To[c])
             du == fresh(To[c])
             Ret(result) == [at |-> result, rest |-> <<>>]
  <1>1. /\ sending[c].at = "idle" /\ sessions' = sessions /\ met' = met /\ refused' = refused
        /\ due' = [due EXCEPT ![c] = du]
    BY DEF connect_peer
  <1>2. /\ met' = [met EXCEPT ![c] = met[c]] /\ refused' = [refused EXCEPT ![c] = refused[c]]
        /\ met[c] \subseteq sessions
        /\ sessions \subseteq sessions'
    BY <1>1, SameValue DEF CallInv, Sound
  <1>3. addrs \in Seq(Addrs) /\ Range(addrs) = du
    BY DiscoveryAssumption, LookupIsCurrent
  <1>4. addrs = <<>> <=> du = {}
    <2>1. addrs = <<>> <=> DOMAIN addrs = {}
      BY <1>3, SMTT(30)
    <2> QED
      BY <1>3, <2>1 DEF Range
  <1> HIDE DEF addrs, du
  <1>5. ASSUME NEW x, x \in [at : Places, rest : Seq(Addrs)], sending' = [sending EXCEPT ![c] = x],
               x.at \in {"connected", "no_addresses", "trying"},
               x.at = "connected" => To[c] \in sessions,
               x.at = "no_addresses" => du = {},
               x.at = "trying" => x.rest = addrs /\ du # {}
        PROVE  CallInv'
    <2>1. x.at = "trying" => x.rest # <<>> /\ du \subseteq refused[c] \cup Range(x.rest)
      BY <1>3, <1>4, <1>5
    <2>2. Sound(c, x, du, refused[c], met[c], sessions)
      BY <1>2, <1>5, <2>1 DEF Sound
    <2>3. Sound(c, x, du, refused[c], met[c], sessions')
      BY <1>1, <2>2
    <2>4. /\ sending' = [sending EXCEPT ![c] = x] /\ due' = [due EXCEPT ![c] = du]
          /\ refused' = [refused EXCEPT ![c] = refused[c]]
          /\ met' = [met EXCEPT ![c] = met[c]] /\ sessions \subseteq sessions'
      BY <1>1, <1>2, <1>5
    <2> QED
      BY <2>3, <2>4, CallMoves
  <1>6. \A result \in {"connected", "no_addresses"} :
            Ret(result) \in [at : Places, rest : Seq(Addrs)] /\ Ret(result).at = result
    BY SMTT(30) DEF Places
  <1>7. CASE To[c] \in sessions
    <2>1. sending' = [sending EXCEPT ![c] = Ret("connected")]
      BY <1>7 DEF connect_peer, Return
    <2> HIDE DEF Ret
    <2> QED
      BY <1>5, <1>6, <1>7, <2>1
  <1>8. CASE To[c] \notin sessions /\ addrs = <<>>
    <2>1. sending' = [sending EXCEPT ![c] = Ret("no_addresses")]
      BY <1>8 DEF connect_peer, Return, addrs
    <2> HIDE DEF Ret
    <2> QED
      BY <1>4, <1>5, <1>6, <1>8, <2>1
  <1>9. CASE To[c] \notin sessions /\ addrs # <<>>
    <2> DEFINE x == [at |-> "trying", rest |-> addrs]
    <2>1. sending' = [sending EXCEPT ![c] = x]
      BY <1>9 DEF connect_peer, addrs
    <2>2. x \in [at : Places, rest : Seq(Addrs)] /\ x.at = "trying" /\ x.rest = addrs
      BY <1>3 DEF Places
    <2> HIDE DEF x
    <2> QED
      BY <1>4, <1>5, <1>9, <2>1, <2>2
  <1> QED
    BY <1>7, <1>8, <1>9

\* What stands after the first of the addresses still to try stands in the list
\* left when that one is dropped (lib.rs:210-221 goes on to the next address).
LEMMA TailHolds ==
    ASSUME NEW S, NEW s \in Seq(S), NEW i \in DOMAIN s, i # 1
    PROVE  i - 1 \in DOMAIN Tail(s) /\ Tail(s)[i - 1] = s[i]
  BY SMTT(30)

\* So a list holds its first address and what is left without it.
LEMMA HeadOrTail ==
    ASSUME NEW S, NEW s \in Seq(S), s # <<>>
    PROVE  Range(s) \subseteq {Head(s)} \cup Range(Tail(s))
  <1> SUFFICES ASSUME NEW i \in DOMAIN s, s[i] # Head(s)
               PROVE  s[i] \in Range(Tail(s))
    BY DEF Range
  <1>1. Head(s) = s[1]
    BY SMTT(30)
  <1>2. i # 1
    BY <1>1
  <1>3. i - 1 \in DOMAIN Tail(s) /\ Tail(s)[i - 1] = s[i]
    BY <1>2, TailHolds
  <1> QED
    BY <1>3 DEF Range

\* connect_addr takes an address off the list when it has failed there, and the
\* call fails with the last one (lib.rs:210-221).
LEMMA ConnectAddrCalls ==
    ASSUME CallInv, NEW c \in Callers, connect_addr(c)
    PROVE  CallInv'
  <1> DEFINE rest == sending[c].rest
             a == Head(rest)
             q == owner[a]
             rf == refused[c] \cup {a}
             Ret(result) == [at |-> result, rest |-> <<>>]
  <1>1. sending[c].at = "trying" /\ due' = due
    BY DEF connect_addr
  <1>2. /\ due' = [due EXCEPT ![c] = due[c]] /\ met = [met EXCEPT ![c] = met[c]]
        /\ refused = [refused EXCEPT ![c] = refused[c]]
        /\ Sound(c, sending[c], due[c], refused[c], met[c], sessions)
    BY <1>1, SameValue DEF CallInv
  <1>3. /\ rest \in Seq(Addrs) /\ rest # <<>> /\ due[c] # {}
        /\ due[c] \subseteq refused[c] \cup Range(rest)
        /\ met[c] \subseteq sessions /\ sending[c] \in [at : Places, rest : Seq(Addrs)]
    BY <1>1, <1>2 DEF Sound
  <1>4. due[c] \subseteq rf \cup Range(Tail(rest))
    <2>1. Range(rest) \subseteq {a} \cup Range(Tail(rest))
      BY <1>3, HeadOrTail
    <2> QED
      BY <1>3, <2>1
  <1>5. \A result \in Places : /\ Ret(result) \in [at : Places, rest : Seq(Addrs)]
                               /\ Ret(result).at = result
    BY SMTT(30)
  <1>6. /\ Tail(rest) \in Seq(Addrs)
        /\ Len(rest) = 1 => DOMAIN Tail(rest) = {}
        /\ Len(rest) # 1 => Tail(rest) # <<>>
    <2>1. /\ Len(rest) \in Nat \ {0}
          /\ Tail(rest) \in Seq(Addrs) /\ Len(Tail(rest)) = Len(rest) - 1
      BY <1>3, SMTT(30)
    <2>2. DOMAIN Tail(rest) = 1..Len(Tail(rest))
      BY <2>1, SMTT(30)
    <2>3. Len(rest) # 1 => Len(Tail(rest)) # Len(<<>>)
      BY <2>1, SMTT(30)
    <2>4. 1..0 = {}
      BY SMTT(30)
    <2>5. Len(rest) = 1 => Len(Tail(rest)) = 0
      BY <2>1, SMTT(30)
    <2> QED
      BY <2>1, <2>2, <2>3, <2>4, <2>5
  <1>7. CASE next_address(c) /\ refused' = [refused EXCEPT ![c] = rf]
             /\ sessions' = sessions /\ met' = met
    <2>1. met' = [met EXCEPT ![c] = met[c]] /\ sessions \subseteq sessions'
      BY <1>2, <1>7
    <2>2. ASSUME NEW x, sending' = [sending EXCEPT ![c] = x],
                 Sound(c, x, due[c], rf, met[c], sessions)
          PROVE  CallInv'
      <3>1. Sound(c, x, due[c], rf, met[c], sessions')
        BY <1>7, <2>2
      <3>2. refused' = [refused EXCEPT ![c] = rf]
        BY <1>7
      <3> HIDE DEF rf
      <3> QED
        BY <1>2, <2>1, <2>2, <3>1, <3>2, CallMoves
    <2>3. CASE Len(rest) = 1
      <3>1. sending' = [sending EXCEPT ![c] = Ret("failed")]
        BY <1>7, <2>3 DEF next_address, Return
      <3>2. due[c] \subseteq rf
        BY <1>4, <1>6, <2>3 DEF Range
      <3>3. Ret("failed") \in [at : Places, rest : Seq(Addrs)] /\ Ret("failed").at = "failed"
        BY <1>5 DEF Places
      <3> HIDE DEF Ret, rf
      <3>4. Sound(c, Ret("failed"), due[c], rf, met[c], sessions)
        BY <1>3, <3>2, <3>3 DEF Sound
      <3> QED
        BY <2>2, <3>1, <3>4
    <2>4. CASE Len(rest) # 1
      <3> DEFINE x == [sending[c] EXCEPT !.rest = Tail(rest)]
      <3>1. sending' = [sending EXCEPT ![c] = x]
        BY <1>7, <2>4 DEF next_address
      <3>2. x \in [at : Places, rest : Seq(Addrs)] /\ x.at = "trying" /\ x.rest = Tail(rest)
        BY <1>1, <1>3, <1>6
      <3> HIDE DEF x, rf
      <3>3. Sound(c, x, due[c], rf, met[c], sessions)
        BY <1>3, <1>4, <1>6, <2>4, <3>2 DEF Sound
      <3> QED
        BY <2>2, <3>1, <3>3
    <2> QED
      BY <2>3, <2>4
  <1>8. CASE sessions' = sessions \cup {q} /\ met' = [met EXCEPT ![c] = met[c] \cup {q}]
             /\ sending' = [sending EXCEPT ![c] = Ret("connected")] /\ refused' = refused
    <2>1. Ret("connected") \in [at : Places, rest : Seq(Addrs)]
          /\ Ret("connected").at = "connected"
      BY <1>5 DEF Places
    <2>2. refused' = [refused EXCEPT ![c] = refused[c]] /\ sessions \subseteq sessions'
      BY <1>2, <1>8
    <2> HIDE DEF Ret, q
    <2>3. Sound(c, Ret("connected"), due[c], refused[c], met[c] \cup {q}, sessions')
      BY <1>3, <1>8, <2>1 DEF Sound
    <2> QED
      BY <1>2, <1>8, <2>2, <2>3, CallMoves
  <1> QED
    BY <1>7, <1>8 DEF connect_addr, Return

\* send_to_peer looks for the session again (lib.rs:224-232).
LEMMA SendCalls ==
    ASSUME CallInv, NEW c \in Callers, send(c)
    PROVE  CallInv'
  <1> DEFINE result == IF To[c] \in sessions THEN "sent" ELSE "no_session"
             x == [at |-> result, rest |-> <<>>]
  <1>1. /\ sending[c].at = "connected" /\ due' = due /\ refused' = refused
        /\ sessions' = sessions /\ met' = met /\ sending' = [sending EXCEPT ![c] = x]
    BY DEF send, Return
  <1>2. /\ due' = [due EXCEPT ![c] = due[c]] /\ refused' = [refused EXCEPT ![c] = refused[c]]
        /\ met' = [met EXCEPT ![c] = met[c]]
        /\ Sound(c, sending[c], due[c], refused[c], met[c], sessions)
    BY <1>1, SameValue DEF CallInv
  <1>3. x \in [at : Places, rest : Seq(Addrs)] /\ x.at = result
    BY SMTT(30) DEF Places
  <1>4. /\ result \in {"sent", "no_session"}
        /\ result = "no_session" => To[c] \notin sessions
    OBVIOUS
  <1> HIDE DEF x, result
  <1>5. Sound(c, x, due[c], refused[c], met[c], sessions)
    BY <1>1, <1>2, <1>3, <1>4 DEF Sound
  <1>6. Sound(c, x, due[c], refused[c], met[c], sessions') /\ sessions \subseteq sessions'
    BY <1>1, <1>5
  <1>7. sending' = [sending EXCEPT ![c] = x]
    BY <1>1
  <1> QED
    BY <1>2, <1>6, <1>7, CallMoves

\* All steps together.
LEMMA CallStep == CacheInv /\ CallInv /\ [DiscoveryNext]_discoveryVars => CallInv'
  <1> SUFFICES ASSUME CacheInv, CallInv, [DiscoveryNext]_discoveryVars
               PROVE  CallInv'
    OBVIOUS
  <1>1. ASSUME UNCHANGED <<sending, due, refused, met, sessions>> PROVE CallInv'
    BY <1>1 DEF CallInv
  <1>2. CASE UNCHANGED discoveryVars
    BY <1>1, <1>2 DEF discoveryVars, callVars
  <1>3. CASE tick_prune \/ cmd_recv \/ build_step \/ bootstrap
    BY <1>1, <1>3 DEF tick_prune, cmd_recv, build_step,
                      bootstrap, callVars
  <1>4. CASE pass_time \/ \E r \in Reports : discovered(r)
    BY <1>1, <1>4 DEF pass_time, discovered, callVars
  <1>5. ASSUME NEW c \in Callers,
               connect_peer(c) \/ connect_addr(c) \/ send(c)
        PROVE  CallInv'
    BY <1>5, ConnectPeerCalls, ConnectAddrCalls, SendCalls
  <1>6. ASSUME NEW a \in Addrs, NEW q \in Peers \cup {Nobody}, move(a, q)
        PROVE  CallInv'
    BY <1>1, <1>6 DEF move, callVars
  <1>7. ASSUME NEW q \in Peers, accept(q) PROVE CallInv'
    <2>1. /\ sessions' = sessions \cup {q} /\ sending' = sending /\ met' = met
          /\ due' = due /\ refused' = refused
      BY <1>7 DEF accept
    <2>2. \A c \in Callers : Sound(c, sending[c], due[c], refused[c], met[c], sessions')
      BY <2>1, SoundWithMore DEF CallInv
    <2> QED
      BY <2>1, <2>2 DEF CallInv
  <1> QED
    BY <1>2, <1>3, <1>4, <1>5, <1>6, <1>7 DEF DiscoveryNext

\* send_to_peer gives up only for a reason: no address of the peer was fresh when
\* it looked, or every one that was has been tried and has failed, or it has
\* connected to another peer instead (lib.rs:196-232).
THEOREM FailureHasCauseHolds == DiscoverySpec => []FailureHasCause
  <1>1. CallInv => FailureHasCause
    BY DEF CallInv, Sound, FailureHasCause
  <1> QED
    BY <1>1, CacheInit, CacheStep, CallInit, CallStep, PTL DEF DiscoverySpec
=============================================================================
