--------------------------- MODULE ConnPoolProofs ---------------------------
(* Proofs about module ConnPool, for every set of threads, descriptors and  *)
(* peers, every limit and timeout, and a pool stopped at any moment.        *)
EXTENDS ConnPool, CompactionProofs

USE PoolAssumption

-----------------------------------------------------------------------------
(* The entries of r are entries of q, each at most once, in some order.     *)
Arranged(r, q) ==
  \E f \in Injection(DOMAIN r, DOMAIN q) : \A n \in DOMAIN r : r[n] = q[f[n]]

(* No descriptor is in q twice. *)
Distinct(q) == \A i, j \in DOMAIN q : i # j => q[i].sock # q[j].sock

(* The inductive invariant of the three properties. *)
PoolInv == TypeOK /\ OneOwner /\ PoolBounded

(* Sets of positions are finite. *)
LEMMA MatchesFinite ==
  ASSUME NEW q \in Seq(Entry), NEW p
  PROVE  IsFiniteSet(Matches(q, p)) /\ Cardinality(Matches(q, p)) \in Nat
<1>1. DOMAIN q = 1 .. Len(q) /\ Len(q) \in Nat OBVIOUS
<1>2. IsFiniteSet(1 .. Len(q)) BY <1>1, FS_Interval
<1>3. Matches(q, p) \in SUBSET (1 .. Len(q)) BY <1>1 DEF Matches
<1> QED BY <1>2, <1>3, FS_Subset, FS_CardinalityType

(* Rearranging and leaving out entries passes no limit: neither the number  *)
(* of entries nor the number of them for a peer grows.                      *)
LEMMA ArrangedBounds ==
  ASSUME NEW q \in Seq(Entry), NEW r \in Seq(Entry), Arranged(r, q)
  PROVE  /\ Len(r) <= Len(q)
         /\ \A p : Cardinality(Matches(r, p)) <= Cardinality(Matches(q, p))
<1>1. PICK f \in Injection(DOMAIN r, DOMAIN q) : \A n \in DOMAIN r : r[n] = q[f[n]]
  BY DEF Arranged
<1>2. f \in [DOMAIN r -> DOMAIN q] /\ \A m, n \in DOMAIN r : f[m] = f[n] => m = n
  BY DEF Injection, IsInjective
<1>3. /\ DOMAIN r = 1 .. Len(r) /\ Len(r) \in Nat
      /\ DOMAIN q = 1 .. Len(q) /\ Len(q) \in Nat
  OBVIOUS
<1>4. Len(r) <= Len(q)
  <2>1. \A n \in Nat : IsFiniteSet(1 .. n) /\ Cardinality(1 .. n) = IF 1 > n THEN 0 ELSE n - 1 + 1
    <3> TAKE n \in Nat
    <3>1. n \in Int /\ 1 \in Int OBVIOUS
    <3> QED BY ONLY <3>1, FS_Interval
  <2>2. \A n \in Nat : IsFiniteSet(1 .. n) /\ Cardinality(1 .. n) = n BY <2>1
  <2>3. Cardinality(DOMAIN r) <= Cardinality(DOMAIN q) BY <1>3, <2>2, FS_Injection
  <2> QED BY <1>3, <2>2, <2>3
<1>5. ASSUME NEW p PROVE Cardinality(Matches(r, p)) <= Cardinality(Matches(q, p))
  <2> DEFINE g == [n \in Matches(r, p) |-> f[n]]
  <2>1. \A n \in Matches(r, p) : f[n] \in Matches(q, p) BY <1>1, <1>2 DEF Matches
  <2>2. \A m, n \in Matches(r, p) : f[m] = f[n] => m = n BY <1>2 DEF Matches
  <2>3. g \in Injection(Matches(r, p), Matches(q, p))
    BY <2>1, <2>2 DEF Injection, IsInjective
  <2> HIDE DEF g
  <2>4. IsFiniteSet(Matches(q, p)) BY MatchesFinite
  <2> QED BY <2>3, <2>4, FS_Injection
<1> QED BY <1>4, <1>5

(* Nor does a descriptor come into the pool, or come to be in it twice.     *)
LEMMA ArrangedSocks ==
  ASSUME NEW q \in Seq(Entry), NEW r \in Seq(Entry), Arranged(r, q)
  PROVE  /\ SocksOf(r) \subseteq SocksOf(q)
         /\ Distinct(q) => Distinct(r)
<1>1. PICK f \in Injection(DOMAIN r, DOMAIN q) : \A n \in DOMAIN r : r[n] = q[f[n]]
  BY DEF Arranged
<1>2. f \in [DOMAIN r -> DOMAIN q] /\ \A m, n \in DOMAIN r : f[m] = f[n] => m = n
  BY DEF Injection, IsInjective
<1>3. SocksOf(r) \subseteq SocksOf(q) BY <1>1, <1>2 DEF SocksOf
<1>4. Distinct(q) => Distinct(r) BY <1>1, <1>2 DEF Distinct
<1> QED BY <1>3, <1>4

(* pool_prune leaves a part of the entries, all of them fresh.              *)
LEMMA PrunedProperties ==
  ASSUME entries \in Seq(Entry)
  PROVE  /\ Pruned \in Seq(Entry)
         /\ Arranged(Pruned, entries)
         /\ \A n \in DOMAIN Pruned : \E i \in DOMAIN entries : Pruned[n] = entries[i] /\ Fresh(entries[i])
<1> DEFINE K == {i \in DOMAIN entries : Fresh(entries[i])}
           f == [n \in 1 .. Cardinality(K) |-> Nth(K, n)]
<1>1. K \in SUBSET DOMAIN entries OBVIOUS
<1>2. Pruned = Compact(entries, K) BY DEF Pruned
<1>k. \A i \in K : Fresh(entries[i]) OBVIOUS
<1> HIDE DEF K
<1>3. /\ Compact(entries, K) \in Seq(Entry)
      /\ Len(Compact(entries, K)) = Cardinality(K)
      /\ \A n \in 1 .. Cardinality(K) : Nth(K, n) \in K /\ Compact(entries, K)[n] = entries[Nth(K, n)]
      /\ \A m, n \in 1 .. Cardinality(K) : m # n => Nth(K, m) # Nth(K, n)
  BY <1>1, CompactProperties
<1>4. DOMAIN Pruned = 1 .. Cardinality(K) BY <1>2, <1>3
<1>5. f \in Injection(DOMAIN Pruned, DOMAIN entries)
  BY <1>1, <1>3, <1>4 DEF Injection, IsInjective
<1>6. \A n \in DOMAIN Pruned : Pruned[n] = entries[f[n]] BY <1>2, <1>3, <1>4
<1>7. Arranged(Pruned, entries) BY <1>5, <1>6 DEF Arranged
<1>8. \A n \in DOMAIN Pruned : \E i \in DOMAIN entries : Pruned[n] = entries[i] /\ Fresh(entries[i])
  BY <1>1, <1>k, <1>2, <1>3, <1>4
<1> QED BY <1>2, <1>3, <1>7, <1>8

(* Moving the last entry into the place of one removes exactly that one.    *)
LEMMA SwapRemoveProperties ==
  ASSUME NEW q \in Seq(Entry), NEW i \in DOMAIN q
  PROVE  /\ SwapRemove(q, i) \in Seq(Entry)
         /\ Arranged(SwapRemove(q, i), q)
         /\ Distinct(q) => SocksOf(SwapRemove(q, i)) = SocksOf(q) \ {q[i].sock}
<1> DEFINE r == SwapRemove(q, i)
           f == [n \in 1 .. Len(q) - 1 |-> IF n = i THEN Len(q) ELSE n]
<1>1. /\ DOMAIN q = 1 .. Len(q) /\ Len(q) \in Nat \ {0} /\ i \in 1 .. Len(q)
      /\ \A n \in 1 .. Len(q) : q[n] \in Entry
  OBVIOUS
<1>2. /\ r \in Seq(Entry) /\ Len(r) = Len(q) - 1
      /\ \A n \in 1 .. Len(q) - 1 : r[n] = q[f[n]]
  BY <1>1 DEF SwapRemove
<1>3. DOMAIN r = 1 .. Len(q) - 1 BY <1>1, <1>2
<1> HIDE DEF r
<1>4. f \in Injection(DOMAIN r, DOMAIN q)
  <2>1. f \in [DOMAIN r -> DOMAIN q] BY <1>1, <1>3
  <2>2. \A m, n \in DOMAIN r : m # n => f[m] # f[n] BY <1>1, <1>3
  <2> QED BY <2>1, <2>2 DEF Injection, IsInjective
<1>5. Arranged(r, q) BY <1>2, <1>3, <1>4 DEF Arranged
<1>6. ASSUME Distinct(q) PROVE SocksOf(r) = SocksOf(q) \ {q[i].sock}
  <2>1. \A n \in DOMAIN r : f[n] \in DOMAIN q /\ f[n] # i BY <1>1, <1>3
  <2>2. \A m \in DOMAIN q : m # i => \E n \in DOMAIN r : f[n] = m
    <3> SUFFICES ASSUME NEW m \in DOMAIN q, m # i PROVE \E n \in DOMAIN r : f[n] = m
      OBVIOUS
    <3>1. CASE m = Len(q) BY <1>1, <1>3, <3>1
    <3>2. CASE m # Len(q) BY <1>1, <1>3, <3>2
    <3> QED BY <3>1, <3>2
  <2> HIDE DEF f
  <2>3. \A n \in DOMAIN r : r[n] = q[f[n]] BY <1>2, <1>3
  <2>4. SocksOf(r) \subseteq SocksOf(q) \ {q[i].sock}
    BY <1>6, <2>1, <2>3 DEF SocksOf, Distinct
  <2>5. SocksOf(q) \ {q[i].sock} \subseteq SocksOf(r)
    BY <2>2, <2>3 DEF SocksOf
  <2> QED BY <2>4, <2>5
<1> QED BY <1>2, <1>5, <1>6 DEF r

-----------------------------------------------------------------------------
(* Descriptors in the hands of threads. *)
Held == {thread[t].sock : t \in {u \in Thread : Holding(u)}}

(* What pool_prune closes is nobody's, and what it leaves is still owned by *)
(* one entry or thread each.                                                *)
LEMMA AfterPruning ==
  ASSUME TypeOK, OneOwner
  PROVE  /\ Distinct(Pruned)
         /\ Held \cap SocksOf(Pruned) = {}
         /\ open \ Expired = SocksOf(Pruned) \cup Held
         /\ SocksOf(Pruned) \subseteq Sock
<1>1. /\ entries \in Seq(Entry) /\ Pruned \in Seq(Entry)
      /\ SocksOf(Pruned) \subseteq SocksOf(entries)
      /\ Distinct(entries) => Distinct(Pruned)
  BY PrunedProperties, ArrangedSocks DEF TypeOK
<1>2. Distinct(entries) BY DEF OneOwner, Distinct
<1>3. Held \cap SocksOf(entries) = {} BY DEF OneOwner, Held
<1>4. open = SocksOf(entries) \cup Held BY DEF OneOwner, Held
<1>5. open \ Expired = SocksOf(Pruned) \cup Held BY <1>1, <1>3, <1>4 DEF Expired
<1> QED BY <1>1, <1>2, <1>3, <1>4, <1>5 DEF TypeOK

(* What cookbook_connpool_get does when it finds a connection: the entry    *)
(* goes, its descriptor to the caller.                                      *)
LEMMA GetFinds ==
  ASSUME TypeOK, OneOwner, NEW t \in Thread, Get(t), Matches(Pruned, thread[t].peer) # {}
  PROVE  \E i \in DOMAIN Pruned :
           /\ entries' = SwapRemove(Pruned, i)
           /\ thread' = [thread EXCEPT ![t].pc = "exchange", ![t].sock = Pruned[i].sock]
<1> DEFINE m == Matches(Pruned, thread[t].peer)
           i == CHOOSE j \in m : \A k \in m : j <= k
<1>1. Pruned \in Seq(Entry) BY PrunedProperties DEF TypeOK
<1>2. m \in SUBSET Nat /\ m \subseteq DOMAIN Pruned /\ IsFiniteSet(m)
  <2>1. IsFiniteSet(m) BY <1>1, MatchesFinite
  <2>2. DOMAIN Pruned \subseteq Nat BY <1>1
  <2> QED BY <2>1, <2>2 DEF Matches
<1>3. \E j \in m : \A k \in m : j <= k BY <1>2, FirstExists
<1>4. i \in m BY <1>3
<1>5. /\ entries' = SwapRemove(Pruned, i)
      /\ thread' = [thread EXCEPT ![t].pc = "exchange", ![t].sock = Pruned[i].sock]
  BY DEF Get
<1> HIDE DEF m, i
<1> QED BY <1>2, <1>4, <1>5

(* Every step keeps the types. *)
LEMMA PoolTypeStep == TypeOK /\ OneOwner /\ [Next]_vars => TypeOK'
<1> SUFFICES ASSUME TypeOK, OneOwner, [Next]_vars PROVE TypeOK'
  OBVIOUS
<1>0. entries \in Seq(Entry) /\ Pruned \in Seq(Entry) BY PrunedProperties DEF TypeOK
<1>1. ASSUME NEW t \in Thread, NEW p \in Peer, Start(t, p) PROVE TypeOK'
  BY <1>1 DEF TypeOK, Start, Idle, Holding
<1>2. ASSUME NEW t \in Thread, Get(t) PROVE TypeOK'
  <2>1. CASE Matches(Pruned, thread[t].peer) = {}
    <3>1. /\ entries' = Pruned /\ thread' = [thread EXCEPT ![t].pc = "connect"]
          /\ thread[t].pc = "get" /\ UNCHANGED <<clock, pool>> /\ open' = open \ Expired
      BY <1>2, <2>1 DEF Get
    <3> QED BY <1>0, <3>1 DEF TypeOK, Holding
  <2>2. CASE Matches(Pruned, thread[t].peer) # {}
    <3>1. PICK i \in DOMAIN Pruned :
            /\ entries' = SwapRemove(Pruned, i)
            /\ thread' = [thread EXCEPT ![t].pc = "exchange", ![t].sock = Pruned[i].sock]
      BY <1>2, <2>2, GetFinds
    <3>2. entries' \in Seq(Entry) BY <1>0, <3>1, SwapRemoveProperties
    <3>3. Pruned[i] \in Entry BY <1>0
    <3>4. Pruned[i].sock \in Sock BY <3>3 DEF Entry
    <3>5. thread[t].pc = "get" /\ UNCHANGED <<clock, pool>> /\ open' = open \ Expired
      BY <1>2 DEF Get
    <3> QED BY <3>1, <3>2, <3>4, <3>5 DEF TypeOK, Holding
  <2> QED BY <2>1, <2>2
<1>3. ASSUME NEW t \in Thread, Connect(t) PROVE TypeOK'
  BY <1>3 DEF TypeOK, Connect, Holding
<1>4. ASSUME NEW t \in Thread, ConnectFails(t) \/ Close(t) PROVE TypeOK'
  BY <1>4 DEF TypeOK, ConnectFails, Close, Idle, Holding
<1>5. ASSUME NEW t \in Thread, Answer(t) \/ Return(t) PROVE TypeOK'
  <2>1. /\ UNCHANGED <<clock, pool, entries, open>>
        /\ \E pc \in {"answered", "put"} : thread' = [thread EXCEPT ![t].pc = pc]
        /\ thread[t].pc \in {"exchange", "answered"}
    BY <1>5 DEF Answer, Return
  <2> QED BY <2>1 DEF TypeOK, Holding
<1>6. ASSUME NEW t \in Thread, Put(t) PROVE TypeOK'
  <2>1. CASE HasRoom(thread[t].peer)
    <3> DEFINE e == [sock |-> thread[t].sock, peer |-> thread[t].peer, since |-> clock]
    <3>1. e \in Entry BY <1>6 DEF TypeOK, Put, Entry, Holding
    <3>2. entries' = Append(Pruned, e) BY <1>6, <2>1 DEF Put
    <3> HIDE DEF e
    <3>3. entries' \in Seq(Entry) BY <1>0, <3>1, <3>2
    <3>4. /\ thread' = [thread EXCEPT ![t] = Idle] /\ UNCHANGED <<clock, pool>>
          /\ open' = open \ Expired
      BY <1>6, <2>1 DEF Put
    <3> QED BY <3>3, <3>4 DEF TypeOK, Idle, Holding
  <2>2. CASE ~HasRoom(thread[t].peer)
    <3>1. /\ entries' = Pruned /\ thread' = [thread EXCEPT ![t].pc = "discard"]
          /\ thread[t].pc = "put" /\ UNCHANGED <<clock, pool>> /\ open' = open \ Expired
      BY <1>6, <2>2 DEF Put
    <3> QED BY <1>0, <3>1 DEF TypeOK, Holding
  <2> QED BY <2>1, <2>2
<1>7. ASSUME Stop PROVE TypeOK' BY <1>7 DEF TypeOK, Stop, Holding
<1>8. ASSUME Tick PROVE TypeOK' BY <1>8 DEF TypeOK, Tick, Holding, Entry
<1>9. ASSUME UNCHANGED vars PROVE TypeOK' BY <1>9 DEF TypeOK, vars, Holding
<1> QED BY <1>1, <1>2, <1>3, <1>4, <1>5, <1>6, <1>7, <1>8, <1>9 DEF Next

(* OneOwner in terms of the descriptors of the pool and of the threads.     *)
LEMMA OwnersForm ==
  OneOwner <=> /\ Distinct(entries)
               /\ \A t, u \in Thread : t # u /\ Holding(t) /\ Holding(u) => thread[t].sock # thread[u].sock
               /\ Held \cap SocksOf(entries) = {}
               /\ open = SocksOf(entries) \cup Held
BY DEF OneOwner, Distinct, Held

(* Every step keeps one owner for every open descriptor.                    *)
LEMMA OneOwnerStep == TypeOK /\ OneOwner /\ [Next]_vars => OneOwner'
<1> SUFFICES ASSUME TypeOK, OneOwner, [Next]_vars PROVE OneOwner'
  OBVIOUS
<1> DEFINE Owners == /\ \A t, u \in Thread : t # u /\ Holding(t) /\ Holding(u) => thread[t].sock # thread[u].sock
                     /\ Held \cap SocksOf(entries) = {}
                     /\ open = SocksOf(entries) \cup Held
<1>0. Owners /\ Distinct(entries) /\ entries \in Seq(Entry) /\ Pruned \in Seq(Entry)
  BY OwnersForm, PrunedProperties DEF TypeOK
<1>p. /\ Distinct(Pruned) /\ Held \cap SocksOf(Pruned) = {}
      /\ open \ Expired = SocksOf(Pruned) \cup Held
  BY AfterPruning
<1>f. ASSUME Owners', Distinct(entries)' PROVE OneOwner'
  BY <1>f DEF OneOwner, Distinct, Held
<1>a. ASSUME NEW t \in Thread,
             (\E p \in Peer : Start(t, p)) \/ ConnectFails(t) \/ Answer(t) \/ Return(t)
      PROVE  OneOwner'
  <2>1. \A u \in Thread : Holding(u)' = Holding(u) /\ (Holding(u) => thread'[u].sock = thread[u].sock)
    <3>0. CASE \E p \in Peer : Start(t, p)
      <4>1. PICK p \in Peer : Start(t, p) BY <3>0
      <4>2. \A u \in Thread \ {t} : thread'[u] = thread[u] BY <4>1 DEF Start, TypeOK
      <4>3. thread[t].pc = "idle" /\ thread'[t].pc \in {"get", "connect"}
        BY <4>1 DEF Start, TypeOK, Idle
      <4> QED BY <4>2, <4>3 DEF Holding
    <3>1. CASE ConnectFails(t)
      BY <3>1 DEF TypeOK, ConnectFails, Idle, Holding
    <3>2. CASE Answer(t)
      BY <3>2 DEF TypeOK, Answer, Holding
    <3>3. CASE Return(t)
      BY <3>3 DEF TypeOK, Return, Holding
    <3> QED BY <1>a, <3>0, <3>1, <3>2, <3>3
  <2>2. UNCHANGED <<entries, open>> BY <1>a DEF Start, ConnectFails, Answer, Return
  <2>3. Held' = Held BY <2>1 DEF Held
  <2> QED BY <1>0, <1>f, <2>1, <2>2, <2>3 DEF Distinct, SocksOf
<1>2. ASSUME NEW t \in Thread, Get(t) PROVE OneOwner'
  <2>1. CASE Matches(Pruned, thread[t].peer) = {}
    <3>1. /\ entries' = Pruned /\ thread' = [thread EXCEPT ![t].pc = "connect"]
          /\ thread[t].pc = "get" /\ open' = open \ Expired
      BY <1>2, <2>1 DEF Get
    <3>2. \A u \in Thread : Holding(u)' = Holding(u) /\ (Holding(u) => thread'[u].sock = thread[u].sock)
      BY <3>1 DEF TypeOK, Holding
    <3>3. Held' = Held BY <3>2 DEF Held
    <3>4. Distinct(entries)' /\ SocksOf(entries)' = SocksOf(Pruned) BY <1>p, <3>1 DEF Distinct, SocksOf
    <3> QED BY <1>0, <1>p, <1>f, <3>1, <3>2, <3>3, <3>4
  <2>2. CASE Matches(Pruned, thread[t].peer) # {}
    <3>1. PICK i \in DOMAIN Pruned :
            /\ entries' = SwapRemove(Pruned, i)
            /\ thread' = [thread EXCEPT ![t].pc = "exchange", ![t].sock = Pruned[i].sock]
      BY <1>2, <2>2, GetFinds
    <3>2. thread[t].pc = "get" /\ open' = open \ Expired BY <1>2 DEF Get
    <3>3. /\ Distinct(SwapRemove(Pruned, i))
          /\ SocksOf(SwapRemove(Pruned, i)) = SocksOf(Pruned) \ {Pruned[i].sock}
      BY <1>0, <1>p, SwapRemoveProperties, ArrangedSocks
    <3>4. Distinct(entries)' /\ SocksOf(entries)' = SocksOf(Pruned) \ {Pruned[i].sock}
      BY <3>1, <3>3 DEF Distinct, SocksOf
    <3>5. Pruned[i].sock \in SocksOf(Pruned) BY DEF SocksOf
    <3>6. /\ \A u \in Thread \ {t} : Holding(u)' = Holding(u) /\ thread'[u].sock = thread[u].sock
          /\ ~Holding(t) /\ Holding(t)' /\ thread'[t].sock = Pruned[i].sock
      BY <3>1, <3>2 DEF TypeOK, Holding
    <3>7. Held' = Held \cup {Pruned[i].sock} BY <3>6 DEF Held
    <3>8. \A u \in Thread : Holding(u) => thread[u].sock # Pruned[i].sock
      BY <1>p, <3>5 DEF Held
    <3>9. \A u, v \in Thread : u # v /\ Holding(u)' /\ Holding(v)' => thread'[u].sock # thread'[v].sock
      BY <1>0, <3>6, <3>8
    <3>10. /\ Held' \cap SocksOf(entries)' = {}
           /\ open' = SocksOf(entries)' \cup Held'
      BY <1>p, <3>2, <3>4, <3>5, <3>7
    <3> QED BY <1>f, <3>4, <3>9, <3>10
  <2> QED BY <2>1, <2>2
<1>3. ASSUME NEW t \in Thread, Connect(t) PROVE OneOwner'
  <2>1. PICK s \in Sock \ open :
          open' = open \cup {s} /\ thread' = [thread EXCEPT ![t].pc = "exchange", ![t].sock = s]
    BY <1>3 DEF Connect
  <2>2. thread[t].pc = "connect" /\ UNCHANGED entries BY <1>3 DEF Connect
  <2>3. /\ \A u \in Thread \ {t} : Holding(u)' = Holding(u) /\ thread'[u].sock = thread[u].sock
        /\ ~Holding(t) /\ Holding(t)' /\ thread'[t].sock = s
    BY <2>1, <2>2 DEF TypeOK, Holding
  <2>4. Held' = Held \cup {s} BY <2>3 DEF Held
  <2>5. s \notin Held /\ s \notin SocksOf(entries) BY <1>0
  <2>6. SocksOf(entries)' = SocksOf(entries) /\ Distinct(entries)' BY <1>0, <2>2 DEF SocksOf, Distinct
  <2>7. \A u \in Thread : Holding(u) => thread[u].sock # s BY <2>5 DEF Held
  <2>8. \A u, v \in Thread : u # v /\ Holding(u)' /\ Holding(v)' => thread'[u].sock # thread'[v].sock
    BY <1>0, <2>3, <2>7
  <2> QED BY <1>0, <1>f, <2>1, <2>4, <2>5, <2>6, <2>8
<1>4. ASSUME NEW t \in Thread, Close(t) PROVE OneOwner'
  <2>1. Holding(t) /\ open' = open \ {thread[t].sock} /\ UNCHANGED entries BY <1>4 DEF Close, Holding
  <2>2. /\ \A u \in Thread \ {t} : Holding(u)' = Holding(u) /\ thread'[u].sock = thread[u].sock
        /\ ~Holding(t)'
    BY <1>4 DEF TypeOK, Close, Holding, Idle
  <2>3. \A u \in Thread \ {t} : Holding(u) => thread[u].sock # thread[t].sock BY <1>0, <2>1
  <2>4. Held' = Held \ {thread[t].sock} BY <2>1, <2>2, <2>3 DEF Held
  <2>5. thread[t].sock \in Held BY <2>1 DEF Held
  <2>6. SocksOf(entries)' = SocksOf(entries) /\ Distinct(entries)' BY <1>0, <2>1 DEF SocksOf, Distinct
  <2>7. \A u, v \in Thread : u # v /\ Holding(u)' /\ Holding(v)' => thread'[u].sock # thread'[v].sock
    BY <1>0, <2>2
  <2> QED BY <1>0, <1>f, <2>1, <2>4, <2>5, <2>6, <2>7
<1>5. ASSUME NEW t \in Thread, Put(t) PROVE OneOwner'
  <2>0. thread[t].pc = "put" /\ Holding(t) /\ open' = open \ Expired BY <1>5 DEF Put, Holding
  <2>1. CASE HasRoom(thread[t].peer)
    <3> DEFINE e == [sock |-> thread[t].sock, peer |-> thread[t].peer, since |-> clock]
    <3>1. entries' = Append(Pruned, e) /\ thread' = [thread EXCEPT ![t] = Idle] BY <1>5, <2>1 DEF Put
    <3>2. e \in Entry /\ e.sock = thread[t].sock BY <2>0 DEF TypeOK, Entry
    <3> HIDE DEF e
    <3>3. /\ DOMAIN entries' = DOMAIN Pruned \cup {Len(Pruned) + 1} /\ Len(Pruned) + 1 \notin DOMAIN Pruned
          /\ \A n \in DOMAIN Pruned : entries'[n] = Pruned[n]
          /\ entries'[Len(Pruned) + 1] = e
      BY <1>0, <3>1, <3>2
    <3>4. SocksOf(entries)' = SocksOf(Pruned) \cup {thread[t].sock} BY <3>2, <3>3 DEF SocksOf
    <3>5. thread[t].sock \in Held /\ thread[t].sock \notin SocksOf(Pruned) BY <1>p, <2>0 DEF Held
    <3>6. Distinct(entries)'
      <4>1. \A n \in DOMAIN Pruned : Pruned[n].sock # thread[t].sock BY <3>5 DEF SocksOf
      <4> QED BY <1>p, <3>2, <3>3, <4>1 DEF Distinct
    <3>7. /\ \A u \in Thread \ {t} : Holding(u)' = Holding(u) /\ thread'[u].sock = thread[u].sock
          /\ ~Holding(t)'
      BY <3>1 DEF TypeOK, Holding, Idle
    <3>8. \A u \in Thread \ {t} : Holding(u) => thread[u].sock # thread[t].sock BY <1>0, <2>0
    <3>9. Held' = Held \ {thread[t].sock} BY <3>7, <3>8 DEF Held
    <3>10. \A u, v \in Thread : u # v /\ Holding(u)' /\ Holding(v)' => thread'[u].sock # thread'[v].sock
      BY <1>0, <3>7
    <3>11. /\ Held' \cap SocksOf(entries)' = {}
           /\ open' = SocksOf(entries)' \cup Held'
      BY <1>p, <2>0, <3>4, <3>5, <3>9
    <3> QED BY <1>f, <3>6, <3>10, <3>11
  <2>2. CASE ~HasRoom(thread[t].peer)
    <3>1. entries' = Pruned /\ thread' = [thread EXCEPT ![t].pc = "discard"] BY <1>5, <2>2 DEF Put
    <3>2. \A u \in Thread : Holding(u)' = Holding(u) /\ (Holding(u) => thread'[u].sock = thread[u].sock)
      BY <2>0, <3>1 DEF TypeOK, Holding
    <3>3. Held' = Held BY <3>2 DEF Held
    <3>4. Distinct(entries)' /\ SocksOf(entries)' = SocksOf(Pruned) BY <1>p, <3>1 DEF Distinct, SocksOf
    <3> QED BY <1>0, <1>p, <1>f, <2>0, <3>2, <3>3, <3>4
  <2> QED BY <2>1, <2>2
<1>6. ASSUME Stop PROVE OneOwner'
  <2>1. entries' = << >> /\ open' = open \ SocksOf(entries) /\ UNCHANGED thread BY <1>6 DEF Stop
  <2>2. SocksOf(entries)' = {} /\ Distinct(entries)' BY <2>1 DEF SocksOf, Distinct
  <2>3. Held' = Held /\ \A u \in Thread : Holding(u)' = Holding(u) /\ thread'[u] = thread[u]
    BY <2>1 DEF Held, Holding
  <2> QED BY <1>0, <1>f, <2>1, <2>2, <2>3
<1>7. ASSUME Tick \/ UNCHANGED vars PROVE OneOwner'
  BY <1>7 DEF Tick, vars, OneOwner, Holding, SocksOf
<1> QED BY <1>a, <1>2, <1>3, <1>4, <1>5, <1>6, <1>7 DEF Next

(* Every step keeps the limits: only Put makes the pool grow, by one entry, *)
(* after it has counted the entries that pruning left.                      *)
LEMMA PoolBoundedStep == PoolInv /\ [Next]_vars => PoolBounded'
<1> SUFFICES ASSUME TypeOK, OneOwner, PoolBounded, [Next]_vars PROVE PoolBounded'
  BY DEF PoolInv
<1>0. /\ entries \in Seq(Entry) /\ Pruned \in Seq(Entry) /\ Arranged(Pruned, entries)
      /\ MaxIdle \in Nat /\ MaxEntries \in Nat
  BY PrunedProperties DEF TypeOK, MaxIdle
<1>1. /\ Len(Pruned) <= Len(entries)
      /\ \A p : Cardinality(Matches(Pruned, p)) <= Cardinality(Matches(entries, p))
  BY <1>0, ArrangedBounds
<1>2. \A p : Cardinality(Matches(Pruned, p)) \in Nat /\ Cardinality(Matches(entries, p)) \in Nat
  BY <1>0, MatchesFinite
<1>3. ASSUME entries' = Pruned PROVE PoolBounded'
  <2>1. Len(Pruned) <= MaxEntries BY <1>0, <1>1 DEF PoolBounded
  <2>2. \A p \in Peer : Cardinality(Matches(Pruned, p)) <= MaxIdle BY <1>0, <1>1, <1>2 DEF PoolBounded
  <2> QED BY <1>3, <2>1, <2>2 DEF PoolBounded, Matches, MaxIdle
<1>4. ASSUME NEW t \in Thread, Get(t) PROVE PoolBounded'
  <2>1. CASE Matches(Pruned, thread[t].peer) = {}
    BY <1>3, <1>4, <2>1 DEF Get
  <2>2. CASE Matches(Pruned, thread[t].peer) # {}
    <3>1. PICK i \in DOMAIN Pruned : entries' = SwapRemove(Pruned, i) BY <1>4, <2>2, GetFinds
    <3> DEFINE r == SwapRemove(Pruned, i)
    <3>2. r \in Seq(Entry) /\ Arranged(r, Pruned) BY <1>0, SwapRemoveProperties
    <3> HIDE DEF r
    <3>3. Len(r) <= Len(Pruned) /\ \A p : Cardinality(Matches(r, p)) <= Cardinality(Matches(Pruned, p))
      BY <1>0, <3>2, ArrangedBounds
    <3>4. Len(r) <= MaxEntries BY <1>0, <1>1, <3>2, <3>3 DEF PoolBounded
    <3>5. \A p : Cardinality(Matches(r, p)) \in Nat BY <3>2, MatchesFinite
    <3>6. \A p \in Peer : Cardinality(Matches(r, p)) <= MaxIdle
      BY <1>0, <1>1, <1>2, <3>3, <3>5 DEF PoolBounded
    <3>7. entries' = r BY <3>1 DEF r
    <3> QED BY <3>4, <3>6, <3>7 DEF PoolBounded, Matches, MaxIdle
  <2> QED BY <2>1, <2>2
<1>5. ASSUME NEW t \in Thread, Put(t) PROVE PoolBounded'
  <2>1. CASE ~HasRoom(thread[t].peer)
    BY <1>3, <1>5, <2>1 DEF Put
  <2>2. CASE HasRoom(thread[t].peer)
    <3> DEFINE e == [sock |-> thread[t].sock, peer |-> thread[t].peer, since |-> clock]
               q == Append(Pruned, e)
    <3>1. entries' = q BY <1>5, <2>2 DEF Put
    <3>2. e \in Entry /\ e.peer = thread[t].peer BY <1>5 DEF Put, TypeOK, Entry, Holding
    <3> HIDE DEF e
    <3>3. /\ q \in Seq(Entry) /\ Len(q) = Len(Pruned) + 1 /\ DOMAIN q = DOMAIN Pruned \cup {Len(q)}
          /\ Len(q) \notin DOMAIN Pruned
          /\ \A n \in DOMAIN Pruned : q[n] = Pruned[n]
          /\ q[Len(q)] = e
      BY <1>0, <3>2
    <3> HIDE DEF q
    <3>4. Len(q) <= MaxEntries BY <1>0, <2>2, <3>3 DEF HasRoom
    <3>5. ASSUME NEW p \in Peer PROVE Cardinality(Matches(q, p)) <= MaxIdle
      <4>1. CASE p = thread[t].peer
        <5>1. Matches(q, p) = Matches(Pruned, p) \cup {Len(q)} BY <3>2, <3>3, <4>1 DEF Matches
        <5>2. Len(q) \notin Matches(Pruned, p) BY <3>3 DEF Matches
        <5>3. IsFiniteSet(Matches(Pruned, p)) BY <1>0, MatchesFinite
        <5>4. Cardinality(Matches(q, p)) = Cardinality(Matches(Pruned, p)) + 1
          BY <5>1, <5>2, <5>3, FS_AddElement
        <5>5. Cardinality(Matches(Pruned, p)) < MaxIdle BY <2>2, <4>1 DEF HasRoom
        <5> QED BY <1>0, <1>2, <5>4, <5>5
      <4>2. CASE p # thread[t].peer
        <5>1. Matches(q, p) = Matches(Pruned, p) BY <3>2, <3>3, <4>2 DEF Matches
        <5> QED BY <1>0, <1>1, <1>2, <5>1 DEF PoolBounded
      <4> QED BY <4>1, <4>2
    <3> QED BY <3>1, <3>4, <3>5 DEF PoolBounded, Matches, MaxIdle
  <2> QED BY <2>1, <2>2
<1>6. ASSUME Stop PROVE PoolBounded'
  <2>1. entries' = << >> BY <1>6 DEF Stop
  <2>2. Len(entries') <= MaxEntries BY <1>0, <2>1
  <2>3. ASSUME NEW p PROVE Cardinality(Matches(entries, p)') <= MaxIdle
    <3>1. Matches(entries, p)' = {} BY <2>1 DEF Matches
    <3>2. Cardinality({}) = 0 BY FS_EmptySet
    <3> QED BY <1>0, <3>1, <3>2
  <2> QED BY <2>2, <2>3 DEF PoolBounded, MaxIdle
<1>7. ASSUME UNCHANGED entries PROVE PoolBounded'
  BY <1>7 DEF PoolBounded, Matches, MaxIdle
<1> QED
  BY <1>4, <1>5, <1>6, <1>7
  DEF Next, Start, Connect, ConnectFails, Answer, Close, Return, Tick, vars

(* An empty pool of a server that starts. *)
LEMMA PoolInvInit == Init => PoolInv
<1> SUFFICES ASSUME Init PROVE PoolInv
  OBVIOUS
<1>1. TypeOK BY DEF Init, TypeOK, Idle, Holding
<1>2. OneOwner BY DEF Init, OneOwner, SocksOf, Holding, Idle
<1>3. ASSUME NEW p PROVE Cardinality(Matches(entries, p)) <= MaxIdle
  <2>1. Matches(entries, p) = {} BY DEF Init, Matches
  <2>2. Cardinality({}) = 0 BY FS_EmptySet
  <2> QED BY <2>1, <2>2 DEF MaxIdle
<1>4. PoolBounded BY <1>3 DEF Init, PoolBounded
<1> QED BY <1>1, <1>2, <1>4 DEF PoolInv

(* The inductive invariant holds throughout. *)
LEMMA PoolInvariant == Spec => []PoolInv
<1>1. PoolInv /\ [Next]_vars => PoolInv'
  BY PoolTypeStep, OneOwnerStep, PoolBoundedStep DEF PoolInv
<1> QED BY PoolInvInit, <1>1, PTL DEF Spec

-----------------------------------------------------------------------------
(* The pool holds entries, and a thread that talks to a peer, and no other, *)
(* has a descriptor.                                                        *)
THEOREM PoolTypes == Spec => []TypeOK
<1>1. PoolInv => TypeOK BY DEF PoolInv
<1> QED BY PoolInvariant, <1>1, PTL

(* However many threads get, return, discard and connect, and whenever      *)
(* cookbook_server_stop destroys the pool: an open descriptor has one owner *)
(* and a closed one has none.                                               *)
THEOREM DescriptorsHaveOneOwner == Spec => []OneOwner
<1>1. PoolInv => OneOwner BY DEF PoolInv
<1> QED BY PoolInvariant, <1>1, PTL

(* cookbook_connpool_put never passes POOL_MAX_ENTRIES or max_idle.         *)
THEOREM PoolStaysBounded == Spec => []PoolBounded
<1>1. PoolInv => PoolBounded BY DEF PoolInv
<1> QED BY PoolInvariant, <1>1, PTL

(* cookbook_connpool_get never hands out a connection that has been idle    *)
(* for the timeout: the entry it takes was left by the pruning of the same  *)
(* call, and no other entry has its descriptor.                             *)
THEOREM NoStaleConnection == Spec => NeverHandedOutStale
<1> DEFINE Handed == \A i \in DOMAIN entries :
              (\E t \in Thread : thread[t].pc = "get" /\ thread'[t].sock = entries[i].sock)
                => clock - entries[i].since < IdleTimeout
<1>1. PoolInv /\ [Next]_vars => [Handed]_vars
  <2> SUFFICES ASSUME TypeOK, OneOwner, Next, NEW i \in DOMAIN entries, NEW t \in Thread,
                      thread[t].pc = "get", thread'[t].sock = entries[i].sock
               PROVE  Fresh(entries[i])
    BY DEF PoolInv, Fresh
  <2>1. entries \in Seq(Entry) /\ Pruned \in Seq(Entry) BY PrunedProperties DEF TypeOK
  <2>2. entries[i] \in Entry BY <2>1
  <2>3. entries[i].sock # None BY <2>2 DEF Entry
  <2>4. thread[t].sock = None BY DEF TypeOK, Holding
  <2>5. Get(t)
    <3> SUFFICES ASSUME ~Get(t) PROVE FALSE
      OBVIOUS
    <3>1. \A u \in Thread \ {t} : ~Get(u) \/ thread'[t] = thread[t]
      BY DEF Get, TypeOK
    <3>2. thread'[t] = thread[t]
      BY <3>1 DEF Next, Start, Connect, ConnectFails, Answer, Close, Return, Put, Stop, Tick, TypeOK
    <3> QED BY <2>3, <2>4, <3>2
  <2>6. CASE Matches(Pruned, thread[t].peer) = {}
    <3>1. thread'[t].sock = thread[t].sock BY <2>5, <2>6 DEF Get, TypeOK
    <3> QED BY <2>3, <2>4, <3>1
  <2>7. CASE Matches(Pruned, thread[t].peer) # {}
    <3>1. PICK n \in DOMAIN Pruned :
            thread' = [thread EXCEPT ![t].pc = "exchange", ![t].sock = Pruned[n].sock]
      BY <2>5, <2>7, GetFinds
    <3>2. thread'[t].sock = Pruned[n].sock BY <3>1 DEF TypeOK
    <3>3. PICK j \in DOMAIN entries : Pruned[n] = entries[j] /\ Fresh(entries[j])
      BY <2>1, PrunedProperties
    <3>4. j = i BY <3>2, <3>3 DEF OneOwner
    <3> QED BY <3>3, <3>4
  <2> QED BY <2>6, <2>7
<1> QED BY PoolInvariant, <1>1, PTL DEF Spec, NeverHandedOutStale
=============================================================================
