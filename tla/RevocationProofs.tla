-------------------------- MODULE RevocationProofs --------------------------
(* Proofs about module Revocation, for every finite set of threads, every   *)
(* set of tokens with their expiries and every capacity.  The table and the *)
(* reload after a restart are right however the threads interleave; the     *)
(* array is right as long as Apart holds.                                   *)
EXTENDS Revocation, FiniteSetTheorems, TLAPS

USE RevocationAssumption

ThreadState ==
  [pc : {"idle", "prune", "scan", "full", "take", "store", "fill", "persist", "check", "accepted"},
   tok : Token \cup {None}, i : Nat, wr : Nat, now : Nat, was : BOOLEAN]

-----------------------------------------------------------------------------
(* The slots that hold entries: while pruning, not those between the write  *)
(* position and the read position, and not the slot about to be filled.     *)
Region ==
  {j \in 1 .. count : \A t \in Thread :
     /\ At(t, "prune") => j < thread[t].wr \/ thread[t].i <= j
     /\ At(t, "fill") => j # thread[t].i}

Covered(tok) == \E j \in Region : entries[j] = tok

(* Where a thread is in cookbook_revocation_add or cookbook_revocation_check *)
(* and what it may rely on there.                                            *)
Place(t) ==
  LET s == thread[t] IN
  /\ s.now <= clock /\ s.i <= Capacity + 1
  /\ s.pc # "idle" => s.tok \in Token
  /\ s.pc = "prune" => 1 <= s.wr /\ s.wr <= s.i
  /\ s.pc \in {"prune", "scan", "check"} => 1 <= s.i /\ s.i <= count + 1
  /\ s.pc \in {"take", "store"} => count < Capacity
  /\ s.pc = "store" => s.i = count + 1
  /\ s.pc = "fill" => s.i = count /\ 1 <= count
  /\ s.pc = "persist" /\ Exp[s.tok] > clock => Covered(s.tok)
  /\ s.pc = "check" /\ s.was /\ s.now < Exp[s.tok]
       => \E j \in 1 .. count : s.i <= j /\ entries[j] = s.tok

(* Every row that has not expired is in the array, and every revocation     *)
(* answered has a row as long as it counts.                                 *)
RowsCovered == \A tok \in table : Exp[tok] > clock => Covered(tok)

RevokedHaveRows == \A tok \in revoked \ unsaved : Exp[tok] > clock => tok \in table

Basics ==
  /\ clock \in 0 .. MaxTime
  /\ entries \in [Slot -> Token \cup {None}]
  /\ count \in 0 .. Capacity
  /\ table \subseteq Token
  /\ thread \in [Thread -> ThreadState]
  /\ revoked \subseteq Token
  /\ unsaved \subseteq revoked
  /\ restarts \in 0 .. MaxRestarts

(* The inductive invariant. *)
RevInv ==
  /\ Basics
  /\ \A t \in Thread : Place(t)
  /\ RowsCovered
  /\ RevokedHaveRows
  /\ RevokedRejectedBeforeExpiry

-----------------------------------------------------------------------------
(* The array has a slot for each entry up to its capacity.                  *)
LEMMA Slots == Cardinality(Thread) \in Nat /\ \A j \in 1 .. Capacity : j \in Slot
<1>1. Cardinality(Thread) \in Nat BY FS_CardinalityType
<1> QED BY <1>1 DEF Slot

(* The rows that have not expired fit into the array: each is in a slot of  *)
(* its own.                                                                 *)
LEMMA RowsFit ==
  ASSUME RevInv
  PROVE  IsFiniteSet(Unexpired) /\ Cardinality(Unexpired) \in Nat /\ Cardinality(Unexpired) <= Capacity
<1> DEFINE g == [tok \in Unexpired |-> CHOOSE j \in Region : entries[j] = tok]
<1>1. \A tok \in Unexpired : \E j \in Region : entries[j] = tok
  BY DEF RevInv, RowsCovered, Covered, Unexpired
<1>2. \A tok \in Unexpired : g[tok] \in Region /\ entries[g[tok]] = tok BY <1>1
<1>3. Region \subseteq 1 .. Capacity /\ Capacity \in Nat BY DEF Region, RevInv, Basics
<1>4. g \in Injection(Unexpired, 1 .. Capacity)
  <2>1. g \in [Unexpired -> 1 .. Capacity] BY <1>2, <1>3
  <2> HIDE DEF g
  <2>2. \A x, y \in Unexpired : g[x] = g[y] => x = y BY <1>2
  <2> QED BY <2>1, <2>2 DEF Injection, IsInjective
<1> HIDE DEF g
<1>5. 1 \in Int /\ Capacity \in Int BY <1>3
<1>6. /\ IsFiniteSet(1 .. Capacity)
      /\ Cardinality(1 .. Capacity) = IF 1 > Capacity THEN 0 ELSE Capacity - 1 + 1
  BY ONLY <1>5, FS_Interval
<1>7. Cardinality(1 .. Capacity) = Capacity BY <1>3, <1>6
<1>8. IsFiniteSet(Unexpired) /\ Cardinality(Unexpired) <= Cardinality(1 .. Capacity)
  BY <1>4, <1>6, FS_Injection
<1> QED BY <1>7, <1>8, FS_CardinalityType

(* The inductive invariant is strong enough. *)
LEMMA RevInvSuffices ==
  ASSUME RevInv
  PROVE  TypeOK /\ ListBounded /\ ReloadFits /\ RevokedRejectedBeforeExpiry
<1>1. TypeOK
  <2>1. count \in 0 .. Capacity + Cardinality(Thread) BY Slots DEF RevInv, Basics
  <2>2. \A t \in Thread : thread[t].i \in 0 .. Capacity + Cardinality(Thread) + 1
    BY Slots DEF RevInv, Basics, Place, ThreadState
  <2> QED BY <2>1, <2>2 DEF RevInv, Basics, TypeOK, ThreadState
<1>2. ListBounded BY DEF RevInv, Basics, Place, ListBounded, At
<1>3. ReloadFits BY RowsFit DEF ReloadFits
<1> QED BY <1>1, <1>2, <1>3 DEF RevInv

LEMMA IdleState == Idle \in ThreadState /\ Idle.pc = "idle" /\ Idle.now = 0 /\ Idle.i = 0
BY DEF Idle, ThreadState

-----------------------------------------------------------------------------
(* A step that changes only its thread's state keeps the invariant when the *)
(* thread's new place does: no slot drops out of Region.                    *)
LEMMA ThreadOnly ==
  ASSUME RevInv, NEW t \in Thread, NEW r \in ThreadState, Set(t, r),
         UNCHANGED <<clock, entries, count, table, revoked, unsaved, restarts>>,
         Place(t)', r.pc # "fill", r.pc = "prune" => r.wr = r.i,
         (r.pc = "accepted" /\ r.now < Exp[r.tok]) => ~r.was
  PROVE  RevInv'
<1>1. /\ thread'[t] = r /\ thread' \in [Thread -> ThreadState]
      /\ \A u \in Thread : u # t => thread'[u] = thread[u]
  BY DEF RevInv, Basics, Set
<1>2. Basics' BY <1>1 DEF RevInv, Basics
<1>3. Region \subseteq Region'
  <2> SUFFICES ASSUME NEW j \in Region PROVE j \in Region'
    OBVIOUS
  <2>1. j \in 1 .. count' /\ j \in Nat BY DEF Region, RevInv, Basics
  <2>2. r.wr \in Nat /\ r.i \in Nat BY DEF ThreadState
  <2>3. ASSUME NEW u \in Thread
        PROVE  /\ At(u, "prune")' => j < thread'[u].wr \/ thread'[u].i <= j
               /\ At(u, "fill")' => j # thread'[u].i
    <3>1. CASE u = t BY <1>1, <2>1, <2>2, <3>1 DEF At
    <3>2. CASE u # t BY <1>1, <3>2 DEF Region, At
    <3> QED BY <3>1, <3>2
  <2> QED BY <2>1, <2>3 DEF Region
<1>4. \A tok : Covered(tok) => Covered(tok)' BY <1>3 DEF Covered
<1>5. ASSUME NEW u \in Thread, u # t PROVE Place(u)'
  BY <1>1, <1>4, <1>5 DEF RevInv, Place
<1>6. (\A u \in Thread : Place(u))' BY <1>5
<1>7. RowsCovered' BY <1>4 DEF RevInv, RowsCovered
<1>8. RevokedHaveRows' BY DEF RevInv, RevokedHaveRows
<1>9. RevokedRejectedBeforeExpiry' BY <1>1 DEF RevInv, RevokedRejectedBeforeExpiry, At
<1> QED BY <1>2, <1>6, <1>7, <1>8, <1>9 DEF RevInv

(* A step inside cookbook_revocation_add keeps the invariant when every     *)
(* entry that still counts stays where it is found: nobody else is in the   *)
(* array, so the other threads rely on no more than that.                   *)
LEMMA WriterStep ==
  ASSUME Apart, RevInv, NEW t \in Thread, NEW r \in ThreadState, Set(t, r), Writing(t),
         UNCHANGED <<clock, table, revoked, unsaved, restarts>>,
         entries' \in [Slot -> Token \cup {None}], count' \in 0 .. Capacity,
         Place(t)', r.pc # "accepted",
         \A tok \in Token : Exp[tok] > clock /\ Covered(tok) => Covered(tok)'
  PROVE  RevInv'
<1>1. /\ thread'[t] = r /\ thread' \in [Thread -> ThreadState]
      /\ \A u \in Thread : u # t => thread'[u] = thread[u]
  BY DEF RevInv, Basics, Set
<1>2. Basics' BY <1>1 DEF RevInv, Basics
<1>3. ASSUME NEW u \in Thread, u # t PROVE Place(u)'
  <2>1. thread[u].pc \notin {"prune", "scan", "full", "take", "store", "fill", "check"}
    BY <1>3 DEF Apart, Writing, At
  <2>2. Place(u) BY DEF RevInv
  <2> QED BY <1>1, <1>3, <2>1, <2>2 DEF Place
<1>4. (\A u \in Thread : Place(u))' BY <1>3
<1>5. RowsCovered' BY DEF RevInv, Basics, RowsCovered
<1>6. RevokedHaveRows' BY DEF RevInv, RevokedHaveRows
<1>7. RevokedRejectedBeforeExpiry' BY <1>1 DEF RevInv, RevokedRejectedBeforeExpiry, At
<1> QED BY <1>2, <1>4, <1>5, <1>6, <1>7 DEF RevInv

(* The slots of Region are those that the only writer t leaves alone.       *)
LEMMA OneRegion ==
  ASSUME Apart, NEW t \in Thread, Writing(t)
  PROVE  Region = {j \in 1 .. count : /\ At(t, "prune") => j < thread[t].wr \/ thread[t].i <= j
                                      /\ At(t, "fill") => j # thread[t].i}
<1>1. \A u \in Thread : u # t => ~At(u, "prune") /\ ~At(u, "fill") BY DEF Apart, Writing, At
<1> QED BY <1>1 DEF Region

(* Requests that begin, and a request that ends without having changed      *)
(* anything.                                                                *)
LEMMA StartRevokeStep ==
  ASSUME RevInv, NEW t \in Thread, NEW tok \in Token, StartRevoke(t, tok)
  PROVE  RevInv'
<1> DEFINE r == [Idle EXCEPT !.pc = "prune", !.tok = tok, !.i = 1, !.wr = 1, !.now = clock]
<1>1. clock \in Nat /\ count \in Nat BY DEF RevInv, Basics
<1>2. /\ r \in ThreadState /\ r.pc = "prune" /\ r.tok = tok /\ r.i = 1 /\ r.wr = 1
      /\ r.now = clock
  BY <1>1 DEF Idle, ThreadState
<1>3. Set(t, r) BY DEF StartRevoke
<1> HIDE DEF r
<1>4. thread'[t] = r BY <1>3 DEF Set, RevInv, Basics
<1>5. Place(t)' BY <1>1, <1>2, <1>4 DEF Place, StartRevoke
<1> QED BY <1>2, <1>3, <1>5, ThreadOnly DEF StartRevoke

LEMMA StartVerifyStep ==
  ASSUME RevInv, NEW t \in Thread, NEW tok \in Token, StartVerify(t, tok)
  PROVE  RevInv'
<1>0. PICK was \in BOOLEAN : was = (tok \in revoked \ unsaved)
  <2>1. CASE tok \in revoked \ unsaved BY <2>1, Zenon
  <2>2. CASE tok \notin revoked \ unsaved
    <3>1. FALSE = (tok \in revoked \ unsaved) /\ FALSE \in BOOLEAN BY <2>2
    <3> QED BY <3>1
  <2> QED BY <2>1, <2>2
<1> DEFINE r == [Idle EXCEPT !.pc = "check", !.tok = tok, !.i = 1, !.now = clock, !.was = was]
<1>1. clock \in Nat /\ count \in Nat BY DEF RevInv, Basics
<1>2. /\ r \in ThreadState /\ r.pc = "check" /\ r.tok = tok /\ r.i = 1
      /\ r.now = clock /\ r.was = was
  BY <1>1 DEF Idle, ThreadState
<1>3. Set(t, r) BY <1>0 DEF StartVerify
<1> HIDE DEF r
<1>4. thread'[t] = r BY <1>3 DEF Set, RevInv, Basics
<1>5. ASSUME tok \in revoked, tok \notin unsaved, Exp[tok] > clock
      PROVE  \E j \in 1 .. count : 1 <= j /\ entries[j] = tok
  <2>1. Covered(tok) BY <1>5 DEF RevInv, RevokedHaveRows, RowsCovered
  <2> QED BY <1>1, <2>1 DEF Covered, Region
<1>6. Exp[tok] \in Nat OBVIOUS
<1>7. r.was => tok \in revoked /\ tok \notin unsaved BY <1>0, <1>2
<1>8. Place(t)' BY <1>1, <1>2, <1>4, <1>5, <1>6, <1>7 DEF Place, StartVerify
<1> QED BY <1>2, <1>3, <1>8, ThreadOnly DEF StartVerify

(* A thread that becomes idle. *)
LEMMA ToIdle ==
  ASSUME RevInv, NEW t \in Thread, Set(t, Idle),
         UNCHANGED <<clock, entries, count, table, revoked, unsaved, restarts>>
  PROVE  RevInv'
<1>1. thread'[t] = Idle BY DEF Set, RevInv, Basics
<1>2. Place(t)'
  BY <1>1, IdleState DEF Place, RevInv, Basics
<1> QED BY <1>2, IdleState, ThreadOnly
LEMMA ServeStep ==
  ASSUME RevInv, NEW t \in Thread, Serve(t)
  PROVE  RevInv'
BY ToIdle DEF Serve

(* The search before adding: it goes on, finds the jti, or reaches the end. *)
LEMMA ScanEntryStep ==
  ASSUME Apart, RevInv, NEW t \in Thread, ScanEntry(t)
  PROVE  RevInv'
<1> DEFINE s == thread[t]
<1>1. s \in ThreadState /\ s.pc = "scan" /\ Place(t) /\ count \in 0 .. Capacity
  BY DEF ScanEntry, At, RevInv, Basics
<1>2. s.i \in Nat /\ s.tok \in Token /\ 1 <= s.i /\ s.i <= count + 1 /\ s.now <= clock
  BY <1>1 DEF Place, ThreadState
<1>3. PICK r : /\ Set(t, r)
               /\ \/ s.i > count /\ r = [s EXCEPT !.pc = "full"]
                  \/ s.i <= count /\ entries[s.i] = s.tok /\ r = [s EXCEPT !.pc = "persist"]
                  \/ s.i <= count /\ r = [s EXCEPT !.i = @ + 1]
  BY <1>1, <1>2 DEF ScanEntry
<1>4. /\ r \in ThreadState /\ r.tok = s.tok /\ r.now = s.now
      /\ \/ r.pc = "full" /\ r.i = s.i
         \/ r.pc = "persist" /\ r.i = s.i /\ s.i <= count /\ entries[s.i] = s.tok
         \/ r.pc = "scan" /\ r.i = s.i + 1 /\ s.i <= count
  BY <1>1, <1>2, <1>3 DEF ThreadState
<1>5. thread'[t] = r BY <1>3 DEF Set, RevInv, Basics
<1> HIDE DEF s
<1>6. Place(t)'
  <2>1. r.pc = "persist" => Covered(r.tok)'
    <3>1. Region' = 1 .. count
      <4>1. \A u \in Thread : ~At(u, "prune")' /\ ~At(u, "fill")'
        <5>1. ~At(t, "prune")' /\ ~At(t, "fill")' BY <1>4, <1>5 DEF At
        <5>2. ASSUME NEW u \in Thread, u # t PROVE thread'[u] = thread[u] /\ ~Writing(u)
          BY <1>1, <1>3, <5>2 DEF Apart, Writing, Set, RevInv, Basics, s
        <5> QED BY <5>1, <5>2 DEF Writing, At
      <4> QED BY <4>1 DEF Region, ScanEntry
    <3>2. r.pc = "persist" => s.i \in 1 .. count /\ entries'[s.i] = r.tok
      BY <1>1, <1>2, <1>4 DEF ScanEntry
    <3> QED BY <3>1, <3>2 DEF Covered
  <2> QED BY <1>1, <1>2, <1>4, <1>5, <2>1 DEF Place, ScanEntry
<1> QED BY <1>3, <1>4, <1>6, ThreadOnly DEF ScanEntry
(* The test for room, and the load of the count. *)
LEMMA CheckFullStep ==
  ASSUME RevInv, NEW t \in Thread, CheckFull(t)
  PROVE  RevInv'
<1>1. CASE count >= Capacity BY <1>1, ToIdle DEF CheckFull
<1>2. CASE ~(count >= Capacity)
  <2> DEFINE s == thread[t]
             r == [s EXCEPT !.pc = "take"]
  <2>1. s \in ThreadState /\ s.pc = "full" /\ Place(t) /\ count \in 0 .. Capacity
    BY DEF CheckFull, At, RevInv, Basics
  <2>2. r \in ThreadState /\ r.pc = "take" /\ r.tok = s.tok /\ r.now = s.now /\ r.i = s.i
    BY <2>1 DEF ThreadState
  <2>3. Set(t, r) /\ thread'[t] = r BY <1>2 DEF CheckFull, Set, RevInv, Basics
  <2> HIDE DEF r
  <2>4. Place(t)' BY <1>2, <2>1, <2>2, <2>3 DEF Place, CheckFull
  <2> QED BY <2>2, <2>3, <2>4, ThreadOnly DEF CheckFull
<1> QED BY <1>1, <1>2

LEMMA TakeSlotStep ==
  ASSUME RevInv, NEW t \in Thread, TakeSlot(t)
  PROVE  RevInv'
<1> DEFINE s == thread[t]
           r == [s EXCEPT !.pc = "store", !.i = count + 1]
<1>1. s \in ThreadState /\ s.pc = "take" /\ Place(t) /\ count \in 0 .. Capacity
  BY DEF TakeSlot, At, RevInv, Basics
<1>2. r \in ThreadState /\ r.pc = "store" /\ r.tok = s.tok /\ r.now = s.now /\ r.i = count + 1
  <2>1. count + 1 \in Nat BY <1>1
  <2>2. ASSUME NEW n \in Nat
        PROVE  LET q == [s EXCEPT !.pc = "store", !.i = n] IN
               q \in ThreadState /\ q.pc = "store" /\ q.tok = s.tok /\ q.now = s.now /\ q.i = n
    BY <1>1 DEF ThreadState
  <2> QED BY <2>1, <2>2
<1>3. Set(t, r) /\ thread'[t] = r BY DEF TakeSlot, Set, RevInv, Basics
<1> HIDE DEF r
<1>4. Place(t)' BY <1>1, <1>2, <1>3 DEF Place, TakeSlot
<1> QED BY <1>2, <1>3, <1>4, ThreadOnly DEF TakeSlot

(* The check of a presented token: the entry of a revoked one lies ahead.   *)
LEMMA CheckEntryStep ==
  ASSUME RevInv, NEW t \in Thread, CheckEntry(t)
  PROVE  RevInv'
<1> DEFINE s == thread[t]
           Counts == s.was /\ s.now < Exp[s.tok]
<1>1. s \in ThreadState /\ s.pc = "check" /\ Place(t) /\ count \in 0 .. Capacity
  BY DEF CheckEntry, At, RevInv, Basics
<1>2. s.i \in Nat /\ s.tok \in Token /\ 1 <= s.i /\ s.i <= count + 1 /\ s.now <= clock
  BY <1>1 DEF Place, ThreadState
<1>3. Counts => \E j \in 1 .. count : s.i <= j /\ entries[j] = s.tok
  BY <1>1 DEF Place
<1>4. CASE s.i > count
  <2> DEFINE r == [s EXCEPT !.pc = "accepted"]
  <2>1. /\ r \in ThreadState /\ r.pc = "accepted" /\ r.tok = s.tok /\ r.now = s.now
        /\ r.i = s.i /\ r.was = s.was
    BY <1>1 DEF ThreadState
  <2>2. Set(t, r) /\ thread'[t] = r BY <1>4 DEF CheckEntry, Set, RevInv, Basics
  <2> HIDE DEF r
  <2>3. ~Counts BY <1>1, <1>2, <1>3, <1>4
  <2>4. Place(t)' BY <1>1, <1>2, <2>1, <2>2 DEF Place, CheckEntry
  <2>5. (r.pc = "accepted" /\ r.now < Exp[r.tok]) => ~r.was
    BY <2>1, <2>3
  <2> QED BY <2>1, <2>2, <2>4, <2>5, ThreadOnly DEF CheckEntry
<1>5. CASE ~(s.i > count) /\ entries[s.i] = s.tok BY <1>5, ToIdle DEF CheckEntry
<1>6. CASE ~(s.i > count) /\ entries[s.i] # s.tok
  <2> DEFINE r == [s EXCEPT !.i = @ + 1]
  <2>1. /\ r \in ThreadState /\ r.pc = "check" /\ r.tok = s.tok /\ r.now = s.now
        /\ r.i = s.i + 1 /\ r.was = s.was
    BY <1>1 DEF ThreadState
  <2>2. Set(t, r) /\ thread'[t] = r BY <1>6 DEF CheckEntry, Set, RevInv, Basics
  <2> HIDE DEF r
  <2>3. Counts => \E j \in 1 .. count : s.i + 1 <= j /\ entries[j] = s.tok
    <3> SUFFICES ASSUME Counts PROVE \E j \in 1 .. count : s.i + 1 <= j /\ entries[j] = s.tok
      OBVIOUS
    <3>1. PICK j \in 1 .. count : s.i <= j /\ entries[j] = s.tok BY <1>3
    <3> QED BY <1>1, <1>2, <1>6, <3>1
  <2>4. Place(t)' BY <1>1, <1>2, <1>6, <2>1, <2>2, <2>3 DEF Place, CheckEntry
  <2> QED BY <2>1, <2>2, <2>4, ThreadOnly DEF CheckEntry
<1> QED BY <1>4, <1>5, <1>6
-----------------------------------------------------------------------------
(* The steps that change the array or its count. *)

(* Pruning an entry: a live one moves to the write position, one that is    *)
(* not live has expired.                                                    *)
LEMMA PruneEntryStep ==
  ASSUME Apart, RevInv, NEW t \in Thread, PruneEntry(t)
  PROVE  RevInv'
<1> DEFINE s == thread[t]
<1>1. s \in ThreadState /\ s.pc = "prune" /\ Place(t) /\ count \in 0 .. Capacity /\ s.i <= count
  BY DEF PruneEntry, At, RevInv, Basics
<1>2. /\ s.i \in Nat /\ s.wr \in Nat /\ s.tok \in Token /\ 1 <= s.wr /\ s.wr <= s.i
      /\ s.now \in Nat /\ s.now <= clock /\ clock \in Nat
  BY <1>1 DEF Place, ThreadState, RevInv, Basics
<1>3. s.i \in Slot /\ s.wr \in Slot BY <1>1, <1>2, Slots
<1>4. Writing(t) BY <1>1 DEF Writing
<1>5. UNCHANGED <<clock, count, table, revoked, unsaved, restarts>> BY DEF PruneEntry
<1>6. PICK r : /\ Set(t, r)
               /\ \/ /\ Live(entries[s.i], s.now)
                     /\ entries' = [entries EXCEPT ![s.wr] = entries[s.i]]
                     /\ r = [s EXCEPT !.i = @ + 1, !.wr = @ + 1]
                  \/ /\ ~Live(entries[s.i], s.now)
                     /\ entries' = entries
                     /\ r = [s EXCEPT !.i = @ + 1]
  BY DEF PruneEntry
<1>7. /\ r \in ThreadState /\ r.pc = "prune" /\ r.tok = s.tok /\ r.now = s.now /\ r.i = s.i + 1
      /\ r.wr \in Nat /\ s.wr <= r.wr /\ r.wr <= s.wr + 1
      /\ Live(entries[s.i], s.now) => r.wr = s.wr + 1
  <2>1. CASE Live(entries[s.i], s.now)
    <3> DEFINE m == s.i + 1
               n == s.wr + 1
    <3>1. r = [s EXCEPT !.i = m, !.wr = n] BY <1>6, <2>1
    <3>2. m \in Nat /\ n \in Nat BY <1>2
    <3> HIDE DEF m, n
    <3>3. /\ r \in ThreadState /\ r.pc = s.pc /\ r.tok = s.tok /\ r.now = s.now
          /\ r.i = m /\ r.wr = n
      BY <1>1, <3>1, <3>2 DEF ThreadState
    <3> QED BY <1>1, <1>2, <3>3 DEF m, n
  <2>2. CASE ~Live(entries[s.i], s.now)
    <3>1. r = [s EXCEPT !.i = s.i + 1] BY <1>6, <2>2
    <3> QED BY <1>1, <1>2, <2>2, <3>1 DEF ThreadState
  <2> QED BY <2>1, <2>2
<1>8. thread'[t] = r /\ thread' \in [Thread -> ThreadState] BY <1>6, <1>7 DEF Set, RevInv, Basics
<1>9. entries' \in [Slot -> Token \cup {None}] BY <1>3, <1>6 DEF RevInv, Basics
<1> HIDE DEF s
<1>10. Place(t)' BY <1>1, <1>2, <1>5, <1>7, <1>8 DEF Place
<1>11. ASSUME NEW tok \in Token, Exp[tok] > clock, Covered(tok) PROVE Covered(tok)'
  <2>1. tok # None /\ Exp[tok] \in Nat OBVIOUS
  <2>2. PICK j \in Region : entries[j] = tok BY <1>11 DEF Covered
  <2>3. j \in 1 .. count /\ (j < s.wr \/ s.i <= j) BY <1>1, <1>4, <2>2, OneRegion DEF At, s
  <2>4. j \in Slot BY <1>1, <2>3, Slots
  <2>5. \A k \in 1 .. count : k < r.wr \/ r.i <= k => k \in Region'
    <3> SUFFICES ASSUME NEW k \in 1 .. count, k < r.wr \/ r.i <= k PROVE k \in Region'
      OBVIOUS
    <3>1. k \in 1 .. count' BY <1>5
    <3>2. ~At(t, "fill")' BY <1>7, <1>8 DEF At
    <3>3. ASSUME NEW u \in Thread, u # t PROVE ~At(u, "prune")' /\ ~At(u, "fill")'
      BY <1>4, <1>6, <3>3 DEF Apart, Writing, Set, RevInv, Basics, At
    <3> QED BY <1>8, <3>1, <3>2, <3>3 DEF Region
  <2>6. CASE j = s.i
    <3>1. Live(entries[s.i], s.now) BY <1>2, <1>11, <2>1, <2>2, <2>6 DEF Live
    <3>2. entries'[s.wr] = tok /\ s.wr \in Region'
      <4>1. entries' = [entries EXCEPT ![s.wr] = entries[s.i]] /\ r.wr = s.wr + 1
        BY <1>6, <1>7, <3>1 DEF s
      <4>2. entries'[s.wr] = tok BY <1>3, <2>2, <2>6, <4>1 DEF RevInv, Basics
      <4>3. s.wr \in 1 .. count /\ s.wr < r.wr BY <1>1, <1>2, <4>1
      <4> QED BY <2>5, <4>2, <4>3
    <3> QED BY <3>2 DEF Covered
  <2>7. CASE j # s.i
    <3>1. j \in Region'
      <4>1. j < r.wr \/ r.i <= j BY <1>1, <1>2, <1>7, <2>3, <2>7
      <4> QED BY <2>3, <2>5, <4>1
    <3>2. j # s.wr BY <1>1, <1>2, <2>3, <2>7
    <3>3. entries'[j] = tok BY <1>6, <2>2, <2>4, <3>2 DEF RevInv, Basics, s
    <3> QED BY <3>1, <3>3 DEF Covered
  <2> QED BY <2>6, <2>7
<1> QED BY <1>4, <1>5, <1>6, <1>7, <1>9, <1>10, <1>11, WriterStep DEF RevInv, Basics

(* The end of pruning: no slot of Region lies at or above the write         *)
(* position.                                                                *)
LEMMA PruneDoneStep ==
  ASSUME Apart, RevInv, NEW t \in Thread, PruneDone(t)
  PROVE  RevInv'
<1> DEFINE s == thread[t]
           r == [s EXCEPT !.pc = "scan", !.i = 1]
<1>1. s \in ThreadState /\ s.pc = "prune" /\ Place(t) /\ count \in 0 .. Capacity /\ s.i > count
  BY DEF PruneDone, At, RevInv, Basics
<1>2. /\ s.i = count + 1 /\ s.wr \in Nat /\ s.tok \in Token /\ 1 <= s.wr /\ s.wr <= s.i
      /\ s.now \in Nat /\ s.now <= clock /\ clock \in Nat
  <2>1. s.i \in Nat /\ s.wr \in Nat /\ s.now \in Nat /\ clock \in Nat
    BY <1>1 DEF ThreadState, RevInv, Basics
  <2>2. s.i <= count + 1 /\ s.tok \in Token /\ 1 <= s.wr /\ s.wr <= s.i /\ s.now <= clock
    BY <1>1 DEF Place
  <2> QED BY <1>1, <2>1, <2>2
<1>3. count' = s.wr - 1 /\ UNCHANGED <<clock, entries, table, revoked, unsaved, restarts>>
  BY DEF PruneDone
<1>4. Writing(t) BY <1>1 DEF Writing
<1>5. /\ r \in ThreadState /\ r.pc = "scan" /\ r.tok = s.tok /\ r.now = s.now /\ r.i = 1
  BY <1>1 DEF ThreadState
<1>6. Set(t, r) BY DEF PruneDone
<1> HIDE DEF r
<1>7. thread'[t] = r /\ thread' \in [Thread -> ThreadState] BY <1>5, <1>6 DEF Set, RevInv, Basics
<1> HIDE DEF s
<1>8. count' \in 0 .. Capacity BY <1>1, <1>2, <1>3
<1>9. Place(t)' BY <1>2, <1>3, <1>5, <1>7, <1>8 DEF Place
<1>10. Region \subseteq Region'
  <2> SUFFICES ASSUME NEW j \in Region PROVE j \in Region'
    OBVIOUS
  <2>1. j \in 1 .. count /\ (j < s.wr \/ s.i <= j) BY <1>1, <1>4, OneRegion DEF At, s
  <2>2. j \in 1 .. count' BY <1>1, <1>2, <1>3, <2>1
  <2>3. ~At(t, "prune")' /\ ~At(t, "fill")' BY <1>5, <1>7 DEF At
  <2>4. ASSUME NEW u \in Thread, u # t PROVE ~At(u, "prune")' /\ ~At(u, "fill")'
    BY <1>4, <1>6, <2>4 DEF Apart, Writing, Set, RevInv, Basics, At
  <2> QED BY <2>2, <2>3, <2>4 DEF Region
<1>11. \A tok \in Token : Covered(tok) => Covered(tok)' BY <1>3, <1>10 DEF Covered
<1> QED BY <1>3, <1>4, <1>5, <1>6, <1>8, <1>9, <1>11, WriterStep DEF RevInv, Basics

(* The count grows by the slot that is yet to be filled. *)
LEMMA StoreCountStep ==
  ASSUME Apart, RevInv, NEW t \in Thread, StoreCount(t)
  PROVE  RevInv'
<1> DEFINE s == thread[t]
           r == [s EXCEPT !.pc = "fill"]
<1>1. s \in ThreadState /\ s.pc = "store" /\ Place(t) /\ count \in 0 .. Capacity
  BY DEF StoreCount, At, RevInv, Basics
<1>2. s.i = count + 1 /\ count < Capacity /\ s.tok \in Token /\ s.now <= clock
  BY <1>1 DEF Place
<1>3. count' = count + 1 /\ UNCHANGED <<clock, entries, table, revoked, unsaved, restarts>>
  BY <1>2 DEF StoreCount
<1>4. Writing(t) BY <1>1 DEF Writing
<1>5. /\ r \in ThreadState /\ r.pc = "fill" /\ r.tok = s.tok /\ r.now = s.now /\ r.i = s.i
  BY <1>1 DEF ThreadState
<1>6. Set(t, r) BY DEF StoreCount
<1> HIDE DEF r
<1>7. thread'[t] = r /\ thread' \in [Thread -> ThreadState] BY <1>5, <1>6 DEF Set, RevInv, Basics
<1> HIDE DEF s
<1>8. count' \in 0 .. Capacity BY <1>1, <1>2, <1>3
<1>9. Place(t)' BY <1>1, <1>2, <1>3, <1>5, <1>7, <1>8 DEF Place
<1>10. Region \subseteq Region'
  <2> SUFFICES ASSUME NEW j \in Region PROVE j \in Region'
    OBVIOUS
  <2>1. j \in 1 .. count BY DEF Region
  <2>2. j \in 1 .. count' /\ j # r.i BY <1>1, <1>2, <1>3, <1>5, <2>1
  <2>3. ~At(t, "prune")' /\ j # thread'[t].i BY <1>5, <1>7, <2>2 DEF At
  <2>4. ASSUME NEW u \in Thread, u # t PROVE ~At(u, "prune")' /\ ~At(u, "fill")'
    BY <1>4, <1>6, <2>4 DEF Apart, Writing, Set, RevInv, Basics, At
  <2> QED BY <2>2, <2>3, <2>4 DEF Region
<1>11. \A tok \in Token : Covered(tok) => Covered(tok)' BY <1>3, <1>10 DEF Covered
<1> QED BY <1>3, <1>4, <1>5, <1>6, <1>8, <1>9, <1>11, WriterStep DEF RevInv, Basics

(* The slot filled held nothing that counts. *)
LEMMA FillEntryStep ==
  ASSUME Apart, RevInv, NEW t \in Thread, FillEntry(t)
  PROVE  RevInv'
<1> DEFINE s == thread[t]
           r == [s EXCEPT !.pc = "persist"]
<1>1. s \in ThreadState /\ s.pc = "fill" /\ Place(t) /\ count \in 0 .. Capacity
  BY DEF FillEntry, At, RevInv, Basics
<1>2. s.i = count /\ 1 <= count /\ s.tok \in Token /\ s.now <= clock /\ count \in Slot
  BY <1>1, Slots DEF Place
<1>3. /\ entries' = [entries EXCEPT ![count] = s.tok]
      /\ UNCHANGED <<clock, count, table, revoked, unsaved, restarts>>
  BY <1>2 DEF FillEntry
<1>4. Writing(t) BY <1>1 DEF Writing
<1>5. /\ r \in ThreadState /\ r.pc = "persist" /\ r.tok = s.tok /\ r.now = s.now /\ r.i = s.i
  BY <1>1 DEF ThreadState
<1>6. Set(t, r) BY DEF FillEntry
<1> HIDE DEF r
<1>7. thread'[t] = r /\ thread' \in [Thread -> ThreadState] BY <1>5, <1>6 DEF Set, RevInv, Basics
<1> HIDE DEF s
<1>8. entries' \in [Slot -> Token \cup {None}] BY <1>2, <1>3 DEF RevInv, Basics
<1>9. entries'[count] = s.tok /\ count \in 1 .. count BY <1>1, <1>2, <1>3 DEF RevInv, Basics
<1>10. Region' = 1 .. count
  <2>1. ~At(t, "prune")' /\ ~At(t, "fill")' BY <1>5, <1>7 DEF At
  <2>2. ASSUME NEW u \in Thread, u # t PROVE ~At(u, "prune")' /\ ~At(u, "fill")'
    BY <1>4, <1>6, <2>2 DEF Apart, Writing, Set, RevInv, Basics, At
  <2> QED BY <1>3, <2>1, <2>2 DEF Region
<1>11. Place(t)'
  <2>1. Covered(thread[t].tok)' BY <1>3, <1>5, <1>7, <1>9, <1>10 DEF Covered
  <2>2. thread'[t].i <= Capacity + 1 BY <1>1, <1>2, <1>5, <1>7
  <2> QED BY <1>2, <1>3, <1>5, <1>7, <2>1, <2>2 DEF Place
<1>12. ASSUME NEW j \in Region PROVE j \in Region' /\ entries'[j] = entries[j]
  <2>1. j \in 1 .. count /\ j # count BY <1>1, <1>2, <1>4, OneRegion DEF At, s
  <2>2. j \in Slot BY <1>1, <2>1, Slots
  <2> QED BY <1>3, <1>10, <2>1, <2>2 DEF RevInv, Basics
<1>13. \A tok \in Token : Covered(tok) => Covered(tok)' BY <1>12 DEF Covered
<1> QED BY <1>1, <1>3, <1>4, <1>5, <1>6, <1>8, <1>11, <1>13, WriterStep DEF RevInv, Basics

(* The row is written, or not, and the request is answered. *)
LEMMA PersistStep ==
  ASSUME RevInv, NEW t \in Thread, Persist(t) \/ PersistFails(t)
  PROVE  RevInv'
<1> DEFINE s == thread[t]
<1>1. s \in ThreadState /\ s.pc = "persist" /\ Place(t) /\ count \in 0 .. Capacity
  BY DEF Persist, PersistFails, At, RevInv, Basics
<1>2. s.tok \in Token /\ (Exp[s.tok] > clock => Covered(s.tok)) BY <1>1 DEF Place
<1>3. Set(t, Idle) /\ UNCHANGED <<clock, entries, count, restarts>> BY DEF Persist, PersistFails
<1>4. /\ revoked' = revoked \cup {s.tok}
      /\ \/ table' = table \cup {s.tok} /\ unsaved' = unsaved \ {s.tok}
         \/ table' = table /\ s.tok \in table /\ unsaved' = unsaved
         \/ table' = table /\ unsaved' = unsaved \cup {s.tok}
  BY DEF Persist, PersistFails
<1>5. /\ thread'[t] = Idle /\ thread' \in [Thread -> ThreadState]
      /\ \A u \in Thread : u # t => thread'[u] = thread[u]
  BY <1>3, IdleState DEF Set, RevInv, Basics
<1>6. Region \subseteq Region'
  <2>1. ~At(t, "prune")' /\ ~At(t, "fill")' BY <1>5, IdleState DEF At
  <2> QED BY <1>3, <1>5, <2>1 DEF Region, At
<1>7. \A tok : Covered(tok) => Covered(tok)' BY <1>3, <1>6 DEF Covered
<1> HIDE DEF s
<1>8. Basics'
  <2>1. table' \subseteq Token /\ revoked' \subseteq Token /\ unsaved' \subseteq revoked'
    BY <1>2, <1>4 DEF RevInv, Basics
  <2> QED BY <1>3, <1>5, <2>1 DEF RevInv, Basics
<1>9. (\A u \in Thread : Place(u))'
  <2>1. Place(t)' BY <1>3, <1>5, IdleState DEF Place, RevInv, Basics
  <2>2. ASSUME NEW u \in Thread, u # t PROVE Place(u)'
    BY <1>3, <1>5, <1>7, <2>2 DEF RevInv, Place
  <2> QED BY <2>1, <2>2
<1>10. RowsCovered'
  <2> SUFFICES ASSUME NEW tok \in table', Exp[tok] > clock PROVE Covered(tok)'
    BY <1>3 DEF RowsCovered
  <2>1. CASE tok = s.tok BY <1>2, <1>7, <2>1
  <2>2. CASE tok # s.tok BY <1>4, <1>7, <2>2 DEF RevInv, RowsCovered
  <2> QED BY <2>1, <2>2
<1>11. RevokedHaveRows'
  <2> SUFFICES ASSUME NEW tok \in revoked' \ unsaved', Exp[tok] > clock PROVE tok \in table'
    BY <1>3 DEF RevokedHaveRows
  <2> QED BY <1>4 DEF RevInv, RevokedHaveRows
<1>12. RevokedRejectedBeforeExpiry'
  BY <1>5, IdleState DEF RevInv, RevokedRejectedBeforeExpiry, At
<1> QED BY <1>8, <1>9, <1>10, <1>11, <1>12 DEF RevInv

(* Time passes. *)
LEMMA TickStep ==
  ASSUME RevInv, Tick
  PROVE  RevInv'
<1>1. /\ clock \in Nat /\ clock' = clock + 1
      /\ UNCHANGED <<entries, count, table, thread, revoked, unsaved, restarts>>
  BY DEF Tick, RevInv, Basics
<1>2. Basics' BY <1>1 DEF Tick, RevInv, Basics
<1>3. \A tok \in Token : Exp[tok] > clock' => Exp[tok] > clock BY <1>1
<1>4. Region' = Region BY <1>1 DEF Region, At
<1>5. ASSUME NEW t \in Thread PROVE Place(t)'
  <2>1. Place(t) /\ thread[t].now \in Nat BY DEF RevInv, Basics, ThreadState
  <2>2. thread[t].now <= clock' BY <1>1, <2>1 DEF Place
  <2>3. \A tok : Covered(tok)' <=> Covered(tok) BY <1>1, <1>4 DEF Covered
  <2> QED BY <1>1, <1>3, <2>1, <2>2, <2>3 DEF Place
<1>6. RowsCovered' BY <1>1, <1>3, <1>4 DEF RevInv, Basics, RowsCovered, Covered
<1>7. RevokedHaveRows' BY <1>1, <1>3 DEF RevInv, Basics, RevokedHaveRows
<1>8. RevokedRejectedBeforeExpiry' BY <1>1 DEF RevInv, RevokedRejectedBeforeExpiry, At
<1> QED BY <1>2, <1>5, <1>6, <1>7, <1>8 DEF RevInv

(* A restart loads every row that has not expired when they fit: the slots  *)
(* it fills are as many as the rows and all different.                      *)
LEMMA Reload ==
  ASSUME IsFiniteSet(Unexpired), ReloadFits, Restart
  PROVE  /\ Cardinality(Unexpired) \in Nat /\ Cardinality(Unexpired) <= Capacity
         /\ count' = Cardinality(Unexpired)
         /\ \E f \in [1 .. count' -> Unexpired] :
              entries' = [j \in Slot |-> IF j <= count' THEN f[j] ELSE None]
         /\ \A tok \in Unexpired : \E j \in 1 .. count' : entries'[j] = tok
<1> DEFINE n == Cardinality(Unexpired)
<1>1. n \in Nat /\ n <= Capacity BY FS_CardinalityType DEF ReloadFits
<1>2. (IF n < Capacity THEN n ELSE Capacity) = n BY <1>1
<1>3. count' = n BY <1>2 DEF Restart
<1> DEFINE Loaded(k) == \E f \in [1 .. k -> Unexpired] :
                          /\ \A x, y \in 1 .. k : x # y => f[x] # f[y]
                          /\ entries' = [j \in Slot |-> IF j <= k THEN f[j] ELSE None]
<1>4. Loaded(n)
  <2>1. Loaded(IF n < Capacity THEN n ELSE Capacity) BY DEF Restart
  <2> HIDE DEF Loaded, n
  <2> QED BY <1>2, <2>1
<1> HIDE DEF n
<1>5. PICK f \in [1 .. n -> Unexpired] :
        /\ \A x, y \in 1 .. n : x # y => f[x] # f[y]
        /\ entries' = [j \in Slot |-> IF j <= n THEN f[j] ELSE None]
  BY <1>4
<1>6. 1 .. n \subseteq Slot BY <1>1, Slots
<1>7. \A tok \in Unexpired : \E j \in 1 .. n : f[j] = tok
  <2>1. 1 \in Int /\ n \in Int BY <1>1
  <2>2. IsFiniteSet(1 .. n) /\ Cardinality(1 .. n) = IF 1 > n THEN 0 ELSE n - 1 + 1
    BY ONLY <2>1, FS_Interval
  <2>3. Cardinality(1 .. n) = Cardinality(Unexpired) BY <1>1, <2>2 DEF n
  <2>4. f \in Injection(1 .. n, Unexpired) BY <1>5 DEF Injection, IsInjective
  <2>5. f \in Surjection(1 .. n, Unexpired)
    BY <2>2, <2>3, <2>4, FS_Injection
  <2> QED BY <2>5 DEF Surjection
<1>8. ASSUME NEW tok \in Unexpired PROVE \E j \in 1 .. n : entries'[j] = tok
  <2>1. PICK j \in 1 .. n : f[j] = tok BY <1>7
  <2> QED BY <1>1, <1>5, <1>6, <2>1
<1> QED BY <1>1, <1>3, <1>5, <1>8 DEF n

(* So every row is in the array of the process that starts.                 *)
LEMMA RestartStep ==
  ASSUME RevInv, Restart
  PROVE  RevInv'
<1> DEFINE n == Cardinality(Unexpired)
<1>1. IsFiniteSet(Unexpired) /\ ReloadFits BY RowsFit DEF ReloadFits
<1>2. n \in Nat /\ n <= Capacity /\ count' = n BY <1>1, Reload
<1>3. /\ thread' = [t \in Thread |-> Idle] /\ table' = Unexpired
      /\ restarts < MaxRestarts /\ restarts' = restarts + 1
      /\ UNCHANGED <<clock, revoked, unsaved>>
  BY DEF Restart
<1>4. PICK f \in [1 .. count' -> Unexpired] :
        entries' = [j \in Slot |-> IF j <= count' THEN f[j] ELSE None]
  BY <1>1, Reload
<1>5. Unexpired \subseteq Token /\ Unexpired = {tok \in table : Exp[tok] > clock}
  BY DEF Unexpired, RevInv, Basics
<1> HIDE DEF n
<1>6. entries' \in [Slot -> Token \cup {None}]
  <2>1. \A j \in Slot : j <= count' => j \in 1 .. count' BY <1>2, Slots DEF Slot
  <2> QED BY <1>4, <1>5, <2>1
<1>7. Basics'
  <2>1. count' \in 0 .. Capacity /\ restarts' \in 0 .. MaxRestarts
    BY <1>2, <1>3 DEF RevInv, Basics
  <2> QED BY <1>3, <1>5, <1>6, <2>1, IdleState DEF RevInv, Basics
<1>8. ASSUME NEW t \in Thread PROVE Place(t)'
  BY <1>3, IdleState DEF Place, RevInv, Basics
<1>9. Region' = 1 .. count'
  <2>1. \A t \in Thread : ~At(t, "prune")' /\ ~At(t, "fill")' BY <1>3, IdleState DEF At
  <2> QED BY <1>3, <2>1 DEF Region
<1>10. RowsCovered'
  <2> SUFFICES ASSUME NEW tok \in Unexpired PROVE Covered(tok)'
    BY <1>3 DEF RowsCovered
  <2>1. \E j \in 1 .. count' : entries'[j] = tok BY <1>1, Reload
  <2> QED BY <1>9, <2>1 DEF Covered
<1>11. RevokedHaveRows' BY <1>3, <1>5 DEF RevInv, RevokedHaveRows
<1>12. RevokedRejectedBeforeExpiry' BY <1>3, IdleState DEF RevokedRejectedBeforeExpiry, At
<1> QED BY <1>7, <1>8, <1>10, <1>11, <1>12 DEF RevInv
-----------------------------------------------------------------------------
LEMMA RevInvInit == Init => RevInv
<1> SUFFICES ASSUME Init PROVE RevInv
  OBVIOUS
<1> USE DEF Init
<1>1. Basics BY IdleState DEF Basics
<1>2. \A t \in Thread : Place(t) BY IdleState DEF Place
<1>3. RowsCovered /\ RevokedHaveRows BY DEF RowsCovered, RevokedHaveRows
<1>4. RevokedRejectedBeforeExpiry BY IdleState DEF RevokedRejectedBeforeExpiry, At
<1> QED BY <1>1, <1>2, <1>3, <1>4 DEF RevInv

LEMMA RevInvStep == Apart /\ RevInv /\ [Next]_vars => RevInv'
<1> SUFFICES ASSUME Apart, RevInv, [Next]_vars PROVE RevInv'
  OBVIOUS
<1>1. ASSUME NEW t \in Thread, NEW tok \in Token, StartRevoke(t, tok) \/ StartVerify(t, tok)
      PROVE  RevInv'
  BY <1>1, StartRevokeStep, StartVerifyStep
<1>2. ASSUME NEW t \in Thread, PruneEntry(t) \/ PruneDone(t) PROVE RevInv'
  BY <1>2, PruneEntryStep, PruneDoneStep
<1>3. ASSUME NEW t \in Thread, ScanEntry(t) \/ CheckFull(t) PROVE RevInv'
  BY <1>3, ScanEntryStep, CheckFullStep
<1>4. ASSUME NEW t \in Thread, TakeSlot(t) \/ StoreCount(t) \/ FillEntry(t) PROVE RevInv'
  BY <1>4, TakeSlotStep, StoreCountStep, FillEntryStep
<1>5. ASSUME NEW t \in Thread, Persist(t) \/ PersistFails(t) PROVE RevInv'
  BY <1>5, PersistStep
<1>6. ASSUME NEW t \in Thread, CheckEntry(t) \/ Serve(t) PROVE RevInv'
  BY <1>6, CheckEntryStep, ServeStep
<1>7. ASSUME Tick \/ Restart PROVE RevInv'
  BY <1>7, TickStep, RestartStep
<1>8. CASE UNCHANGED vars
  <2> USE <1>8 DEF vars
  <2>1. Basics' BY DEF RevInv, Basics
  <2>2. (\A t \in Thread : Place(t))' BY DEF RevInv, Place, Covered, Region, At
  <2>3. RowsCovered' BY DEF RevInv, RowsCovered, Covered, Region, At
  <2>4. RevokedHaveRows' BY DEF RevInv, RevokedHaveRows
  <2>5. RevokedRejectedBeforeExpiry' BY DEF RevInv, RevokedRejectedBeforeExpiry, At
  <2> QED BY <2>1, <2>2, <2>3, <2>4, <2>5 DEF RevInv
<1> QED BY <1>1, <1>2, <1>3, <1>4, <1>5, <1>6, <1>7, <1>8 DEF Next

LEMMA RevInvariant == Spec /\ []Apart => []RevInv
BY RevInvStep, RevInvInit, PTL DEF Spec

(* The shared array and the threads keep their types, for any number of     *)
(* threads, as long as nobody is in the array beside a writer.              *)
THEOREM RevocationTypes == Spec /\ []Apart => []TypeOK
<1>1. RevInv => TypeOK BY RevInvSuffices
<1> QED BY <1>1, RevInvariant, PTL

(* cookbook_revocation_add never writes past the array: pruning, the test   *)
(* for room and entries[count++] together keep the count within it.  So an  *)
(* overrun needs two threads in the array at once.                          *)
THEOREM ListStaysBounded == Spec /\ []Apart => []ListBounded
<1>1. RevInv => ListBounded BY RevInvSuffices
<1> QED BY <1>1, RevInvariant, PTL

(* cookbook_revocation_load has room for every row that has not expired:    *)
(* each is in the array, although its INSERT comes after others' prunings.  *)
THEOREM RowsAlwaysFit == Spec /\ []Apart => []ReloadFits
<1>1. RevInv => ReloadFits BY RevInvSuffices
<1> QED BY <1>1, RevInvariant, PTL

(* A token revoked before it is presented is refused until the second of    *)
(* its expiry: pruning by any thread keeps its entry, a restart reloads it  *)
(* and a check that runs beside INSERTs and other checks finds it.          *)
THEOREM RevokedTokensAreRefused == Spec /\ []Apart => []RevokedRejectedBeforeExpiry
<1>1. RevInv => RevokedRejectedBeforeExpiry BY RevInvSuffices
<1> QED BY <1>1, RevInvariant, PTL

-----------------------------------------------------------------------------
(* The table, whatever the threads do to the array: what is known of it     *)
(* without Apart.                                                           *)
Shape ==
  [pc : {"idle", "prune", "scan", "full", "take", "store", "fill", "persist", "check", "accepted"},
   tok : Token \cup {None}, i : Int, wr : Int, now : Int, was : BOOLEAN]

TableInv ==
  /\ clock \in Nat /\ count \in Int
  /\ thread \in [Thread -> Shape]
  /\ \A t \in Thread : thread[t].pc # "idle" => thread[t].tok \in Token
  /\ IsFiniteSet(table) /\ table \subseteq Token
  /\ revoked \subseteq Token
  /\ RevokedHaveRows

(* A thread that goes on with the token it has, or starts with one, leaves  *)
(* what is known of the table.                                              *)
LEMMA TableUntouched ==
  ASSUME TableInv, NEW t \in Thread, NEW r \in Shape, Set(t, r), count' \in Int,
         r.pc # "idle" => r.tok \in Token,
         UNCHANGED <<clock, table, revoked, unsaved>>
  PROVE  TableInv'
<1>1. thread'[t] = r /\ thread' \in [Thread -> Shape]
      /\ \A u \in Thread : u # t => thread'[u] = thread[u]
  BY DEF TableInv, Set
<1>2. RevokedHaveRows' BY DEF TableInv, RevokedHaveRows
<1>3. \A u \in Thread : thread'[u].pc # "idle" => thread'[u].tok \in Token
  BY <1>1 DEF TableInv
<1> QED BY <1>1, <1>2, <1>3 DEF TableInv

(* Every step keeps it. *)
LEMMA TableStep == TableInv /\ [Next]_vars => TableInv'
<1> SUFFICES ASSUME TableInv, [Next]_vars PROVE TableInv'
  OBVIOUS
<1>i. Idle \in Shape /\ Idle.pc = "idle" BY DEF Idle, Shape
<1>t. \A t \in Thread : thread[t] \in Shape /\ count \in Int /\ clock \in Nat BY DEF TableInv
<1>0. ASSUME NEW t \in Thread, Set(t, Idle), count' \in Int,
             UNCHANGED <<clock, table, revoked, unsaved>>
      PROVE  TableInv'
  BY <1>0, <1>i, TableUntouched
<1>g. ASSUME NEW t \in Thread, NEW q, q \in Shape, q.tok = thread[t].tok, thread[t].pc # "idle",
             Set(t, q), count' \in Int, UNCHANGED <<clock, table, revoked, unsaved>>
      PROVE  TableInv'
  <2>1. thread[t].tok \in Token BY <1>g DEF TableInv
  <2> QED BY <1>g, <2>1, TableUntouched
<1>1. ASSUME NEW t \in Thread, NEW tok \in Token, StartRevoke(t, tok) PROVE TableInv'
  <2> DEFINE r == [Idle EXCEPT !.pc = "prune", !.tok = tok, !.i = 1, !.wr = 1, !.now = clock]
  <2>0. clock \in Int /\ count \in Int BY <1>t
  <2>1. r \in Shape /\ r.tok = tok
    <3>1. ASSUME NEW m \in Int, NEW n \in Int, NEW x \in Int, NEW i \in Shape
          PROVE  LET q == [i EXCEPT !.pc = "prune", !.tok = tok, !.i = m, !.wr = n, !.now = x]
                 IN  q \in Shape /\ q.tok = tok
      BY DEF Shape
    <3>2. 1 \in Int OBVIOUS
    <3> QED BY <1>i, <2>0, <3>1, <3>2, Zenon
  <2>2. Set(t, r) /\ UNCHANGED <<clock, count, table, revoked, unsaved>> BY <1>1 DEF StartRevoke
  <2> HIDE DEF r
  <2> QED BY <1>t, <2>1, <2>2, TableUntouched
<1>2. ASSUME NEW t \in Thread, NEW tok \in Token, StartVerify(t, tok) PROVE TableInv'
  <2>0. PICK was \in BOOLEAN : was = (tok \in revoked \ unsaved)
    <3>1. CASE tok \in revoked \ unsaved BY <3>1, Zenon
    <3>2. CASE tok \notin revoked \ unsaved
      <4>1. FALSE = (tok \in revoked \ unsaved) /\ FALSE \in BOOLEAN BY <3>2
      <4> QED BY <4>1
    <3> QED BY <3>1, <3>2
  <2> DEFINE q == [Idle EXCEPT !.pc = "check", !.tok = tok, !.i = 1, !.now = clock, !.was = was]
  <2>1. clock \in Int /\ count \in Int BY <1>t
  <2>2. q \in Shape /\ q.tok = tok
    <3>1. ASSUME NEW m \in Int, NEW x \in Int, NEW i \in Shape
          PROVE  LET p == [i EXCEPT !.pc = "check", !.tok = tok, !.i = m, !.now = x, !.was = was]
                 IN  p \in Shape /\ p.tok = tok
      BY <2>0 DEF Shape
    <3>2. 1 \in Int OBVIOUS
    <3> QED BY <1>i, <2>1, <3>1, <3>2, Zenon
  <2>3. Set(t, q) /\ UNCHANGED <<clock, count, table, revoked, unsaved>>
    BY <1>2, <2>0 DEF StartVerify
  <2> HIDE DEF q
  <2> QED BY <1>t, <2>2, <2>3, TableUntouched
<1>3. ASSUME NEW t \in Thread, PruneEntry(t) PROVE TableInv'
  <2> DEFINE s == thread[t]
             m == s.i + 1
             n == s.wr + 1
  <2>1. /\ s.pc # "idle" /\ s \in Shape /\ UNCHANGED <<clock, count, table, revoked, unsaved>>
        /\ Set(t, [s EXCEPT !.i = m, !.wr = n]) \/ Set(t, [s EXCEPT !.i = m])
    BY <1>3, <1>t DEF PruneEntry, At
  <2>2. m \in Int /\ n \in Int BY <1>t DEF Shape
  <2> HIDE DEF m, n
  <2>3. [s EXCEPT !.i = m, !.wr = n] \in Shape /\ [s EXCEPT !.i = m, !.wr = n].tok = s.tok
    BY <2>1, <2>2 DEF Shape
  <2>4. [s EXCEPT !.i = m] \in Shape /\ [s EXCEPT !.i = m].tok = s.tok BY <2>1, <2>2 DEF Shape
  <2> QED BY <1>t, <1>g, <2>1, <2>3, <2>4
<1>4. ASSUME NEW t \in Thread, PruneDone(t) PROVE TableInv'
  <2> DEFINE q == [thread[t] EXCEPT !.pc = "scan", !.i = 1]
  <2>0. thread[t] \in Shape BY <1>t
  <2>1. q \in Shape /\ q.tok = thread[t].tok
    <3>1. ASSUME NEW r \in Shape, NEW m \in Int
          PROVE  [r EXCEPT !.pc = "scan", !.i = m] \in Shape
                 /\ [r EXCEPT !.pc = "scan", !.i = m].tok = r.tok
      BY DEF Shape
    <3>2. 1 \in Int OBVIOUS
    <3> QED BY <2>0, <3>1, <3>2, Zenon
  <2>2. /\ Set(t, q) /\ thread[t].pc # "idle" /\ count' \in Int
        /\ UNCHANGED <<clock, table, revoked, unsaved>>
    BY <1>4, <1>t DEF PruneDone, At, Shape
  <2> QED BY <1>g, <2>1, <2>2
<1>5. ASSUME NEW t \in Thread, ScanEntry(t) \/ CheckEntry(t) PROVE TableInv'
  <2> DEFINE s == thread[t]
             m == s.i + 1
  <2>1. /\ s.pc # "idle" /\ s \in Shape /\ UNCHANGED <<clock, count, table, revoked, unsaved>>
        /\ \/ \E pc \in {"full", "persist", "accepted"} : Set(t, [s EXCEPT !.pc = pc])
           \/ Set(t, [s EXCEPT !.i = m]) \/ Set(t, Idle)
    BY <1>5, <1>t DEF ScanEntry, CheckEntry, At
  <2>2. m \in Int BY <1>t DEF Shape
  <2> HIDE DEF m
  <2>3. ASSUME NEW pc \in {"full", "persist", "accepted"}
        PROVE  [s EXCEPT !.pc = pc] \in Shape /\ [s EXCEPT !.pc = pc].tok = s.tok
    BY <2>1 DEF Shape
  <2>4. [s EXCEPT !.i = m] \in Shape /\ [s EXCEPT !.i = m].tok = s.tok BY <2>1, <2>2 DEF Shape
  <2> QED BY <1>0, <1>t, <1>g, <2>1, <2>3, <2>4
<1>6. ASSUME NEW t \in Thread, CheckFull(t) \/ FillEntry(t) \/ Serve(t) PROVE TableInv'
  <2> DEFINE s == thread[t]
  <2>1. /\ s.pc # "idle" /\ s \in Shape /\ UNCHANGED <<clock, count, table, revoked, unsaved>>
        /\ (\E pc \in {"take", "persist"} : Set(t, [s EXCEPT !.pc = pc])) \/ Set(t, Idle)
    BY <1>6, <1>t DEF CheckFull, FillEntry, Serve, At
  <2>2. ASSUME NEW pc \in {"take", "persist"}
        PROVE  [s EXCEPT !.pc = pc] \in Shape /\ [s EXCEPT !.pc = pc].tok = s.tok
    BY <2>1 DEF Shape
  <2> QED BY <1>0, <1>t, <1>g, <2>1, <2>2
<1>7. ASSUME NEW t \in Thread, TakeSlot(t) \/ StoreCount(t) PROVE TableInv'
  <2> DEFINE s == thread[t]
             m == count + 1
  <2>1. /\ s.pc # "idle" /\ s \in Shape /\ count' \in Int
        /\ UNCHANGED <<clock, table, revoked, unsaved>>
        /\ Set(t, [s EXCEPT !.pc = "store", !.i = m]) \/ Set(t, [s EXCEPT !.pc = "fill"])
    BY <1>7, <1>t DEF TakeSlot, StoreCount, At, Shape
  <2>2. m \in Int BY <1>t
  <2> HIDE DEF m
  <2>3. /\ [s EXCEPT !.pc = "store", !.i = m] \in Shape
        /\ [s EXCEPT !.pc = "store", !.i = m].tok = s.tok
    BY <2>1, <2>2 DEF Shape
  <2>4. [s EXCEPT !.pc = "fill"] \in Shape /\ [s EXCEPT !.pc = "fill"].tok = s.tok
    BY <2>1 DEF Shape
  <2> QED BY <1>g, <2>1, <2>3, <2>4
<1>8. ASSUME NEW t \in Thread, Persist(t) \/ PersistFails(t) PROVE TableInv'
  <2>1. thread[t].tok \in Token BY <1>8 DEF Persist, PersistFails, At, TableInv
  <2>2. /\ Set(t, Idle) /\ UNCHANGED <<clock, count>>
        /\ revoked' = revoked \cup {thread[t].tok}
        /\ \/ table' = table \cup {thread[t].tok} /\ unsaved' = unsaved \ {thread[t].tok}
           \/ table' = table /\ thread[t].tok \in table /\ unsaved' = unsaved
           \/ table' = table /\ unsaved' = unsaved \cup {thread[t].tok}
    BY <1>8 DEF Persist, PersistFails
  <2>3. thread' \in [Thread -> Shape] /\ thread'[t] = Idle
        /\ \A u \in Thread : u # t => thread'[u] = thread[u]
    BY <1>i, <2>2 DEF Set, TableInv
  <2>4. IsFiniteSet(table') /\ table' \subseteq Token /\ revoked' \subseteq Token
    BY <2>1, <2>2, FS_AddElement DEF TableInv
  <2>5. RevokedHaveRows'
    <3> SUFFICES ASSUME NEW tok \in revoked' \ unsaved', Exp[tok] > clock PROVE tok \in table'
      BY <2>2 DEF RevokedHaveRows
    <3> QED BY <2>2 DEF TableInv, RevokedHaveRows
  <2>6. \A u \in Thread : thread'[u].pc # "idle" => thread'[u].tok \in Token
    BY <1>i, <2>3 DEF TableInv
  <2> QED BY <2>2, <2>3, <2>4, <2>5, <2>6 DEF TableInv
<1>9. ASSUME Tick PROVE TableInv'
  <2>1. clock' = clock + 1 /\ UNCHANGED <<count, table, thread, revoked, unsaved>> BY <1>9 DEF Tick
  <2>2. \A tok \in Token : Exp[tok] > clock' => Exp[tok] > clock BY <1>t, <2>1 DEF TableInv
  <2>3. RevokedHaveRows' BY <2>1, <2>2 DEF TableInv, RevokedHaveRows
  <2>4. clock' \in Nat BY <2>1 DEF TableInv
  <2> QED BY <2>1, <2>3, <2>4 DEF TableInv
<1>10. ASSUME Restart PROVE TableInv'
  <2>1. /\ thread' = [t \in Thread |-> Idle] /\ table' = Unexpired
        /\ UNCHANGED <<clock, revoked, unsaved>>
    BY <1>10 DEF Restart
  <2>2. IsFiniteSet(Unexpired) /\ Unexpired \subseteq Token
    BY FS_Subset DEF Unexpired, TableInv
  <2>3. count' \in Int
    <3>1. Cardinality(Unexpired) \in Nat BY <2>2, FS_CardinalityType
    <3> QED BY <1>10, <3>1 DEF Restart
  <2>4. RevokedHaveRows' BY <2>1 DEF TableInv, RevokedHaveRows, Unexpired
  <2>5. thread' \in [Thread -> Shape] /\ \A t \in Thread : thread'[t].pc = "idle"
    BY <1>i, <2>1
  <2> QED BY <2>1, <2>2, <2>3, <2>4, <2>5 DEF TableInv
<1>11. ASSUME UNCHANGED vars PROVE TableInv' BY <1>11 DEF vars, TableInv, RevokedHaveRows
<1> QED
  BY <1>1, <1>2, <1>3, <1>4, <1>5, <1>6, <1>7, <1>8, <1>9, <1>10, <1>11 DEF Next

LEMMA TableInvariant == Spec => []TableInv
<1>1. Init => TableInv
  <2> SUFFICES ASSUME Init PROVE TableInv
    OBVIOUS
  <2>1. Idle \in Shape /\ Idle.pc = "idle" BY DEF Idle, Shape
  <2> QED BY <2>1, FS_EmptySet DEF Init, TableInv, RevokedHaveRows
<1> QED BY <1>1, TableStep, PTL DEF Spec

(* However the threads race in the array, a revocation that was answered    *)
(* and saved is restored by the next restart: its row is there until it     *)
(* expires, and the load fills a slot with every row as long as they fit.   *)
THEOREM RestartsRestore == Spec => RestartRestores
<1>1. TableInv /\ [Next]_vars =>
        [restarts' # restarts /\ ReloadFits =>
           \A tok \in revoked \ unsaved :
             Exp[tok] > clock => \E j \in 1 .. count' : entries'[j] = tok]_vars
  <2> SUFFICES ASSUME TableInv, [Next]_vars, restarts' # restarts, ReloadFits,
                      NEW tok \in revoked \ unsaved, Exp[tok] > clock
               PROVE  \E j \in 1 .. count' : entries'[j] = tok
    OBVIOUS
  <2>1. Restart
    BY DEF Next, StartRevoke, StartVerify, PruneEntry, PruneDone, ScanEntry, CheckFull, TakeSlot,
           StoreCount, FillEntry, Persist, PersistFails, CheckEntry, Serve, Tick, vars
  <2>2. IsFiniteSet(Unexpired) BY FS_Subset DEF Unexpired, TableInv
  <2>3. tok \in Unexpired BY DEF Unexpired, TableInv, RevokedHaveRows
  <2> QED BY <2>1, <2>2, <2>3, Reload
<1> QED BY <1>1, TableInvariant, PTL DEF Spec, RestartRestores
=============================================================================
