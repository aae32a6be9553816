----------------------------- MODULE ObjectCache -----------------------------
(***************************************************************************)
(* The caches of compiled objects and of build graphs.  PUT /objects/{key} *)
(* writes the file and then its row in table object_cache; the background  *)
(* thread evicts the objects whose row has outlived the TTL.  PUT          *)
(* /graphs/{key} writes a file and nothing else.  Nobody holds a lock: the *)
(* opening of a file, which empties it, its writing, and each SQL          *)
(* statement are one step each.                                            *)
(***************************************************************************)
EXTENDS Naturals, FiniteSets

CONSTANTS Worker,     \* request threads
          CacheKey, GraphKey, \* keys of objects and of graphs
          NoKey,      \* the null value
          MaxPuts,    \* bound: upload requests
          MaxFaults,  \* bound: failing store calls and SQL statements
          MaxCrashes  \* bound: crashes

ASSUME CacheAssumption ==
  /\ NoKey \notin CacheKey \cup GraphKey
  /\ CacheKey \cap GraphKey = {}   \* objects/... and graphs/... in the store
  /\ {MaxPuts, MaxFaults, MaxCrashes} \subseteq Nat

VARIABLES file,     \* SUBSET Key: files in the store
          partial,  \* of these: opened for writing, or left so
          row,      \* [CacheKey -> {"none", "fresh", "expired"}]: table object_cache
          worker,   \* [Worker -> [pc, key, linked]]: linked, its file still has a name
          evict,    \* the eviction pass: how many rows it counted, which it collected
          uploaded,  \* SUBSET Key: keys ever uploaded
          disturbed, \* of these: uploaded again, or with a failed call or a crash
          puts, faults, crashes

vars == <<file, partial, row, worker, evict, uploaded, disturbed, puts, faults, crashes>>

Key == CacheKey \cup GraphKey

Idle == [pc |-> "idle", key |-> NoKey, linked |-> FALSE]

NoPass == [pc |-> "idle", cap |-> 0, todo |-> {}, cur |-> NoKey]

(* Workers are idle or have a key; the eviction pass has a list of keys. *)
TypeOK ==
  /\ file \subseteq Key
  /\ partial \subseteq file
  /\ row \in [CacheKey -> {"none", "fresh", "expired"}]
  /\ worker \in [Worker -> {Idle} \cup [pc : {"put", "write", "track"}, key : Key, linked : BOOLEAN]]
  /\ evict \in [pc : {"idle", "select", "object", "row"}, cap : Nat,
                todo : SUBSET CacheKey, cur : CacheKey \cup {NoKey}]
  /\ uploaded \subseteq Key
  /\ disturbed \subseteq uploaded
  /\ puts \in 0 .. MaxPuts /\ faults \in 0 .. MaxFaults /\ crashes \in 0 .. MaxCrashes

Init ==
  /\ file = {} /\ partial = {}
  /\ row = [k \in CacheKey |-> "none"]
  /\ worker = [w \in Worker |-> Idle]
  /\ evict = NoPass
  /\ uploaded = {} /\ disturbed = {}
  /\ puts = 0 /\ faults = 0 /\ crashes = 0

-----------------------------------------------------------------------------
(* Reading: the answer to GET or HEAD, and whether the body is all there.   *)
(* A failure to read an existing file is answered 200 too, with no body.    *)
FetchObject(k) == [status |-> IF k \in file THEN 200 ELSE 404, whole |-> k \in file \ partial]

(* HEAD of a graph also says how old it is: always 0, its age is not kept.  *)
FetchGraph(k) ==
  [status |-> IF k \in file THEN 200 ELSE 404, whole |-> k \in file \ partial, age |-> 0]

-----------------------------------------------------------------------------
(* PUT /objects/{key} and PUT /graphs/{key} *)

(* Authenticated, body read. *)
Request(w, k) ==
  /\ worker[w] = Idle
  /\ puts < MaxPuts
  /\ worker' = [worker EXCEPT ![w] = [pc |-> "put", key |-> k, linked |-> FALSE]]
  /\ uploaded' = uploaded \cup {k}
  /\ disturbed' = disturbed \cup (uploaded \cap {k})
  /\ puts' = puts + 1
  /\ UNCHANGED <<file, partial, row, evict, faults, crashes>>

(* Mutant: the row is written before the file. *)
OpenTracked(w) ==
  /\ worker[w].pc = "put"
  /\ file' = file \cup {worker[w].key}
  /\ partial' = partial \cup {worker[w].key}
  /\ row' = [k \in CacheKey |-> IF k = worker[w].key THEN "fresh" ELSE row[k]]
  /\ worker' = [worker EXCEPT ![w].pc = "write", ![w].linked = TRUE]
  /\ UNCHANGED <<evict, uploaded, disturbed, puts, faults, crashes>>

OpenObject(w) == \* fopen(path, "wb")
  /\ worker[w].pc = "put"
  /\ file' = file \cup {worker[w].key}
  /\ partial' = partial \cup {worker[w].key}
  /\ worker' = [worker EXCEPT ![w].pc = "write", ![w].linked = TRUE]
  /\ UNCHANGED <<row, evict, uploaded, disturbed, puts, faults, crashes>>

(* Mutant: the row is never written. *)
PutUntracked(w) ==
  /\ worker[w].pc = "write"
  /\ partial' = IF worker[w].linked THEN partial \ {worker[w].key} ELSE partial
  /\ worker' = [worker EXCEPT ![w] = Idle]
  /\ UNCHANGED <<file, row, evict, uploaded, disturbed, puts, faults, crashes>>

(* fwrite and fclose; a file evicted meanwhile is written to no avail.  A   *)
(* graph is answered 201 at once.                                           *)
PutObject(w) ==
  /\ worker[w].pc = "write"
  /\ partial' = IF worker[w].linked THEN partial \ {worker[w].key} ELSE partial
  /\ worker' = [worker EXCEPT ![w] = IF @.key \in GraphKey THEN Idle
                                     ELSE [@ EXCEPT !.pc = "track", !.linked = FALSE]]
  /\ UNCHANGED <<file, row, evict, uploaded, disturbed, puts, faults, crashes>>

(* fopen fails, or fwrite does and leaves what it wrote: 500, no row. *)
PutFails(w) ==
  /\ worker[w].pc \in {"put", "write"}
  /\ faults < MaxFaults
  /\ faults' = faults + 1
  /\ disturbed' = disturbed \cup {worker[w].key}
  /\ worker' = [worker EXCEPT ![w] = Idle]
  /\ UNCHANGED <<file, partial, row, evict, uploaded, puts, crashes>>

(* INSERT OR REPLACE with the time of now, then 201. *)
TrackObject(w) ==
  /\ worker[w].pc = "track"
  /\ row' = [row EXCEPT ![worker[w].key] = "fresh"]
  /\ worker' = [worker EXCEPT ![w] = Idle]
  /\ UNCHANGED <<file, partial, evict, uploaded, disturbed, puts, faults, crashes>>

(* The insert fails: nobody looks, 201. *)
TrackFails(w) ==
  /\ worker[w].pc = "track"
  /\ faults < MaxFaults
  /\ faults' = faults + 1
  /\ disturbed' = disturbed \cup {worker[w].key}
  /\ worker' = [worker EXCEPT ![w] = Idle]
  /\ UNCHANGED <<file, partial, row, evict, uploaded, puts, crashes>>

-----------------------------------------------------------------------------
(* evict_expired_objects *)

(* Mutant: the cutoff is not compared. *)
AnyTracked == {k \in CacheKey : row[k] # "none"}

Expired == {k \in CacheKey : row[k] = "expired"}

Expire(k) == \* the TTL of an object passes
  /\ row[k] = "fresh"
  /\ row' = [row EXCEPT ![k] = "expired"]
  /\ UNCHANGED <<file, partial, worker, evict, uploaded, disturbed, puts, faults, crashes>>

(* Mutant: one less than there are. *)
EvictCountShort ==
  /\ evict.pc = "idle"
  /\ Expired # {}
  /\ evict' = [evict EXCEPT !.pc = "select", !.cap = Cardinality(Expired) - 1]
  /\ UNCHANGED <<file, partial, row, worker, uploaded, disturbed, puts, faults, crashes>>

(* The first query only counts, and sizes the arrays for the second. *)
EvictCount ==
  /\ evict.pc = "idle"
  /\ Expired # {}
  /\ evict' = [evict EXCEPT !.pc = "select", !.cap = Cardinality(Expired)]
  /\ UNCHANGED <<file, partial, row, worker, uploaded, disturbed, puts, faults, crashes>>

(* Rows that have expired since the count do not fit and are left. *)
EvictSelect ==
  /\ evict.pc = "select"
  /\ \E S \in SUBSET Expired :
       /\ Cardinality(S) <= evict.cap
       /\ S = Expired \/ Cardinality(S) = evict.cap
       /\ evict' = IF S = {} THEN NoPass
                   ELSE [pc |-> "object", cap |-> 0, todo |-> S, cur |-> NoKey]
  /\ UNCHANGED <<file, partial, row, worker, uploaded, disturbed, puts, faults, crashes>>

(* Mutant: only the row is deleted. *)
EvictNoObject(k) ==
  /\ evict.pc = "object"
  /\ k \in evict.todo
  /\ evict' = [evict EXCEPT !.pc = "row", !.cur = k]
  /\ UNCHANGED <<file, partial, row, worker, uploaded, disturbed, puts, faults, crashes>>

EvictObject(k) == \* store->del
  /\ evict.pc = "object"
  /\ k \in evict.todo
  /\ file' = file \ {k}
  /\ partial' = partial \ {k}
  /\ worker' = [w \in Worker |-> IF worker[w].key = k THEN [worker[w] EXCEPT !.linked = FALSE]
                                 ELSE worker[w]]
  /\ evict' = [evict EXCEPT !.pc = "row", !.cur = k]
  /\ UNCHANGED <<row, uploaded, disturbed, puts, faults, crashes>>

(* remove() fails: nobody looks, the row goes all the same. *)
EvictObjectFails(k) ==
  /\ evict.pc = "object"
  /\ k \in evict.todo
  /\ faults < MaxFaults
  /\ faults' = faults + 1
  /\ disturbed' = disturbed \cup {k}
  /\ evict' = [evict EXCEPT !.pc = "row", !.cur = k]
  /\ UNCHANGED <<file, partial, row, worker, uploaded, puts, crashes>>

(* The evictor has finished with entry k. *)
EntryDone(k) ==
  LET rest == evict.todo \ {k} IN
  evict' = IF rest = {} THEN NoPass
           ELSE [evict EXCEPT !.pc = "object", !.todo = rest, !.cur = NoKey]

EvictRow(k) == \* DELETE FROM object_cache WHERE cache_key = k
  /\ evict.pc = "row"
  /\ evict.cur = k
  /\ row' = [row EXCEPT ![k] = "none"]
  /\ EntryDone(k)
  /\ UNCHANGED <<file, partial, worker, uploaded, disturbed, puts, faults, crashes>>

EvictRowFails(k) ==
  /\ evict.pc = "row"
  /\ evict.cur = k
  /\ faults < MaxFaults
  /\ faults' = faults + 1
  /\ EntryDone(k)
  /\ UNCHANGED <<file, partial, row, worker, uploaded, disturbed, puts, crashes>>

Crash ==
  /\ crashes < MaxCrashes
  /\ crashes' = crashes + 1
  /\ disturbed' = disturbed \cup {worker[w].key : w \in {v \in Worker : worker[v] # Idle}}
  /\ worker' = [w \in Worker |-> Idle]
  /\ evict' = NoPass
  /\ UNCHANGED <<file, partial, row, uploaded, puts, faults>>

Evict == EvictCount \/ EvictSelect \/ \E k \in CacheKey : EvictObject(k) \/ EvictRow(k)

Next ==
  \/ \E w \in Worker, k \in Key : Request(w, k)
  \/ \E w \in Worker : OpenObject(w) \/ PutObject(w) \/ PutFails(w) \/ TrackObject(w) \/ TrackFails(w)
  \/ \E k \in CacheKey : Expire(k) \/ EvictObjectFails(k) \/ EvictRowFails(k)
  \/ Evict
  \/ Crash

Spec == Init /\ [][Next]_vars

(* Requests taken on are run, the background thread wakes up every minute,  *)
(* time passes.                                                             *)
FairSpec ==
  /\ Spec
  /\ \A w \in Worker : WF_vars(OpenObject(w) \/ PutObject(w) \/ TrackObject(w))
  /\ WF_vars(Evict)
  /\ \A k \in CacheKey : WF_vars(Expire(k))

-----------------------------------------------------------------------------
(* Every object in the store has a row, or an upload about to write one: an *)
(* object without a row is never evicted.  Only an object uploaded again    *)
(* while it was being evicted, or whose upload broke off, is left behind.   *)
NoUntrackedObject ==
  \A k \in (file \cap CacheKey) \ disturbed :
    row[k] # "none" \/ \E w \in Worker : worker[w].key = k /\ worker[w].pc \in {"write", "track"}

(* A reader is given whole files: an object whose row is fresh is served,   *)
(* with all of its body, and so is every stored object or graph that nobody *)
(* is writing.  Uploading a key again is the exception, and an upload that  *)
(* broke off: both leave a moment, or a file, with a body cut short that    *)
(* GET answers 200.  fs_put writes in place.                                *)
FreshIsServed ==
  LET written(k) == \E w \in Worker : worker[w].key = k /\ worker[w].pc = "write" IN
  /\ \A k \in CacheKey \ disturbed :
       row[k] = "fresh" => FetchObject(k) = [status |-> 200, whole |-> TRUE]
  /\ \A k \in (file \cap CacheKey) \ disturbed : FetchObject(k).whole \/ written(k)
  /\ \A k \in (file \cap GraphKey) \ disturbed : FetchGraph(k).whole \/ written(k)

(* The evictor deletes an object only while its row says it has expired,    *)
(* although it works from a list collected earlier.                         *)
OnlyExpiredEvicted == [][\A k \in file \ (file' \cup disturbed) :
                             k \in CacheKey /\ row[k] = "expired"]_vars

(* docs/guides/configuration.md:137: "Expired entries are pruned every 60   *)
(* seconds by the background reconciliation thread": a row that has expired *)
(* goes, or is replaced by a new upload, whatever pass first missed it.     *)
ExpiredRowsGo == \A k \in CacheKey : row[k] = "expired" ~> row[k] # "expired"

(* The same for the object itself: once uploaded it leaves the store, with  *)
(* the exceptions of NoUntrackedObject.                                     *)
ObjectsGo == \A k \in CacheKey : k \in file ~> k \notin file \/ k \in disturbed
==============================================================================
