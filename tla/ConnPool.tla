------------------------------ MODULE ConnPool ------------------------------
(***************************************************************************)
(* The pool of idle connections to peers and the grid requests that use it *)
(* (cookbook_connpool.c, grid_request_ex).  The pool's mutex makes get and *)
(* put atomic; connecting, talking to the peer and closing a connection    *)
(* that found no room happen outside it, and so does the test of the       *)
(* global pointer to the pool, which a stopping server frees.              *)
(***************************************************************************)
EXTENDS Integers, Sequences, FiniteSets, Compaction

CONSTANTS Thread,       \* request threads
          Sock,         \* descriptors the kernel can hand out
          Peer,         \* host:port of the peers
          None,         \* no descriptor, no peer
          Requested,    \* max_idle as given to cookbook_connpool_create
          MaxEntries,   \* POOL_MAX_ENTRIES
          IdleTimeout,  \* idle_timeout_sec
          StopQuiet,    \* is the server stopped only when no thread uses the pool?
          MaxTime       \* bound: seconds

ASSUME PoolAssumption ==
  /\ None \notin Sock \cup Peer
  /\ {Requested, MaxEntries, IdleTimeout, MaxTime} \subseteq Nat
  /\ StopQuiet \in BOOLEAN

VARIABLES clock,
          pool,    \* "live", or "freed" once the server stops
          entries, \* sequence of [sock, peer, since]
          open,    \* SUBSET Sock: descriptors in use in the process
          thread   \* [Thread -> [pc, peer, sock]]

vars == <<clock, pool, entries, open, thread>>

Entry == [sock : Sock, peer : Peer, since : 0 .. MaxTime]

Idle == [pc |-> "idle", peer |-> None, sock |-> None]

(* The thread has loaded the pointer to the pool and calls get or put. *)
Using(t) == thread[t].pc \in {"get", "put"}

(* Holding a descriptor of its own. *)
Holding(t) == thread[t].pc \in {"exchange", "answered", "put", "discard"}

Init ==
  /\ clock = 0
  /\ pool = "live"
  /\ entries = << >>
  /\ open = {}
  /\ thread = [t \in Thread |-> Idle]

-----------------------------------------------------------------------------
(* cookbook_connpool_create: 0 means the default. *)
MaxIdle == IF Requested > 0 THEN Requested ELSE 4

(* Mutant: <= for <. *)
FreshTooLong(e) == clock - e.since <= IdleTimeout

(* pool_prune keeps the entries that have been idle for less than the       *)
(* timeout, in order, and closes the others.                                *)
Fresh(e) == clock - e.since < IdleTimeout

Pruned == Compact(entries, {i \in DOMAIN entries : Fresh(entries[i])})

SocksOf(seq) == {seq[i].sock : i \in DOMAIN seq}

Expired == SocksOf(entries) \ SocksOf(Pruned)

(* Mutant: only the count goes down. *)
DropLast(seq, i) == SubSeq(seq, 1, Len(seq) - 1)

(* entries[i] = entries[--count] *)
SwapRemove(seq, i) == SubSeq([seq EXCEPT ![i] = seq[Len(seq)]], 1, Len(seq) - 1)

Matches(seq, p) == {i \in DOMAIN seq : seq[i].peer = p}

(* grid_request_ex: the test of the pointer to the pool. *)
Start(t, p) ==
  /\ thread[t].pc = "idle"
  /\ thread' = [thread EXCEPT ![t] =
       [Idle EXCEPT !.pc = IF pool = "live" THEN "get" ELSE "connect", !.peer = p]]
  /\ UNCHANGED <<clock, pool, entries, open>>

(* cookbook_connpool_get: the first match, removed by moving the last       *)
(* entry into its place.                                                    *)
Get(t) ==
  /\ thread[t].pc = "get"
  /\ pool = "live"
  /\ open' = open \ Expired
  /\ LET m == Matches(Pruned, thread[t].peer) IN
     IF m = {}
     THEN /\ entries' = Pruned
          /\ thread' = [thread EXCEPT ![t].pc = "connect"]
     ELSE LET i == CHOOSE j \in m : \A k \in m : j <= k IN
          /\ entries' = SwapRemove(Pruned, i)
          /\ thread' = [thread EXCEPT ![t].pc = "exchange", ![t].sock = Pruned[i].sock]
  /\ UNCHANGED <<clock, pool>>

(* cookbook_sock_connect, from get and once more from grid_connect. *)
Connect(t) ==
  /\ thread[t].pc = "connect"
  /\ \E s \in Sock \ open :
       /\ open' = open \cup {s}
       /\ thread' = [thread EXCEPT ![t].pc = "exchange", ![t].sock = s]
  /\ UNCHANGED <<clock, pool, entries>>

ConnectFails(t) ==
  /\ thread[t].pc = "connect"
  /\ thread' = [thread EXCEPT ![t] = Idle]
  /\ UNCHANGED <<clock, pool, entries, open>>

(* An answer with a status and a body without "Connection: close", which    *)
(* the code looks for there and not in the headers.                         *)
Answer(t) ==
  /\ thread[t].pc = "exchange"
  /\ thread' = [thread EXCEPT ![t].pc = "answered"]
  /\ UNCHANGED <<clock, pool, entries, open>>

(* Send fails, or no status line, or no body: close. *)
Close(t) ==
  /\ \/ thread[t].pc \in {"exchange", "discard"}
     \/ thread[t].pc = "answered" /\ pool = "freed"
  /\ open' = open \ {thread[t].sock}
  /\ thread' = [thread EXCEPT ![t] = Idle]
  /\ UNCHANGED <<clock, pool, entries>>

Return(t) ==
  /\ thread[t].pc = "answered"
  /\ pool = "live"
  /\ thread' = [thread EXCEPT ![t].pc = "put"]
  /\ UNCHANGED <<clock, pool, entries, open>>

(* Mutant: <= for <. *)
HasRoomForOneMore(p) ==
  /\ Cardinality(Matches(Pruned, p)) <= MaxIdle
  /\ Len(Pruned) <= MaxEntries

HasRoom(p) ==
  /\ Cardinality(Matches(Pruned, p)) < MaxIdle
  /\ Len(Pruned) < MaxEntries

(* cookbook_connpool_put; without room it unlocks first and closes then. *)
Put(t) ==
  LET r == thread[t] IN
  /\ r.pc = "put"
  /\ pool = "live"
  /\ open' = open \ Expired
  /\ IF HasRoom(r.peer)
     THEN /\ entries' = Append(Pruned, [sock |-> r.sock, peer |-> r.peer,
                                        since |-> clock])
          /\ thread' = [thread EXCEPT ![t] = Idle]
     ELSE /\ entries' = Pruned
          /\ thread' = [thread EXCEPT ![t].pc = "discard"]
  /\ UNCHANGED <<clock, pool>>

(* cookbook_server_stop destroys the pool before it stops the HTTP server. *)
Stop ==
  /\ pool = "live"
  /\ StopQuiet => \A t \in Thread : ~Using(t)
  /\ pool' = "freed"
  /\ open' = open \ SocksOf(entries)
  /\ entries' = << >>
  /\ UNCHANGED <<clock, thread>>

Tick ==
  /\ clock < MaxTime
  /\ clock' = clock + 1
  /\ UNCHANGED <<pool, entries, open, thread>>

Next ==
  \/ \E t \in Thread :
       \/ \E p \in Peer : Start(t, p)
       \/ Get(t) \/ Connect(t) \/ ConnectFails(t) \/ Answer(t) \/ Close(t) \/ Return(t) \/ Put(t)
  \/ Stop
  \/ Tick

Spec == Init /\ [][Next]_vars

-----------------------------------------------------------------------------
(* The pool holds entries, a thread that talks to a peer has a descriptor.  *)
TypeOK ==
  /\ clock \in 0 .. MaxTime
  /\ pool \in {"live", "freed"}
  /\ entries \in Seq(Entry)
  /\ open \subseteq Sock
  /\ thread \in [Thread -> [pc : {"idle", "get", "connect", "exchange", "answered",
                                  "put", "discard"},
                            peer : Peer \cup {None}, sock : Sock \cup {None}]]
  /\ \A t \in Thread :
       /\ Holding(t) <=> thread[t].sock # None
       /\ thread[t].pc # "idle" => thread[t].peer # None

(* Whoever gets, returns, discards, prunes or stops, a descriptor belongs   *)
(* to one thread or to one entry of the pool, is open as long as it does    *)
(* and is closed when nobody has it: nothing is shared, closed twice, used  *)
(* after it was closed or left open.                                        *)
OneOwner ==
  /\ \A i, j \in DOMAIN entries : i # j => entries[i].sock # entries[j].sock
  /\ \A t, u \in Thread : t # u /\ Holding(t) /\ Holding(u) => thread[t].sock # thread[u].sock
  /\ \A t \in Thread : Holding(t) => thread[t].sock \notin SocksOf(entries)
  /\ open = SocksOf(entries) \cup {thread[t].sock : t \in {u \in Thread : Holding(u)}}

(* docs/roadmap.md:211: "bounded pool (128 entries, per-host limit, idle    *)
(* timeout)": neither limit is passed, although the count is taken anew by  *)
(* every put and other threads get and put in between.                      *)
PoolBounded ==
  /\ Len(entries) <= MaxEntries
  /\ \A p \in Peer : Cardinality(Matches(entries, p)) <= MaxIdle

(* A connection that has been idle for the timeout is never handed out,     *)
(* whenever the last prune was.                                             *)
NeverHandedOutStale ==
  [][\A i \in DOMAIN entries :
       (\E t \in Thread : thread[t].pc = "get" /\ thread'[t].sock = entries[i].sock)
         => clock - entries[i].since < IdleTimeout]_vars

(* cookbook_connpool.h:11: "Thread-safe: protected by mutex": no thread is  *)
(* about to lock a pool that has been freed.                                *)
NoUseAfterFree == \A t \in Thread : Using(t) => pool = "live"
=============================================================================
