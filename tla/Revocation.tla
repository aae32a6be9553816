----------------------------- MODULE Revocation -----------------------------
(***************************************************************************)
(* Revoking tokens.  POST /auth/revoke puts the token's jti into a bounded *)
(* array in memory and then into table revocations; every authenticated    *)
(* request looks its token up in the array; a restart reloads the array    *)
(* from the table.  No lock protects the array: request threads interleave *)
(* at every access to it.                                                  *)
(***************************************************************************)
EXTENDS Naturals, FiniteSets

CONSTANTS Thread,     \* request threads
          Token,      \* tokens, standing for their jti
          Exp,        \* [Token -> Nat]: expiry
          None,       \* an unused entry of the array
          Capacity,   \* entries of the array (4096 in the code)
          MaxTime,    \* bound: seconds
          MaxFaults,  \* bound: revocations not saved because their INSERT failed
          MaxRestarts \* bound: restarts

ASSUME RevocationAssumption ==
  /\ Exp \in [Token -> Nat]
  /\ None \notin Token
  /\ IsFiniteSet(Thread)
  /\ {Capacity, MaxTime, MaxFaults, MaxRestarts} \subseteq Nat

VARIABLES clock,
          entries,  \* the array, from 1; one slot more per thread than its capacity
          count,    \* number of entries in use
          table,    \* SUBSET Token: table revocations
          thread,   \* [Thread -> [pc, tok, i, wr, now, was]]
          revoked,  \* SUBSET Token: revocations answered 200
          unsaved,  \* SUBSET revoked: those of them whose INSERT failed
          restarts

vars == <<clock, entries, count, table, thread, revoked, unsaved, restarts>>

Slot == 1 .. Capacity + Cardinality(Thread)

Idle == [pc |-> "idle", tok |-> None, i |-> 0, wr |-> 0, now |-> 0, was |-> FALSE]

(* Types of the shared array and of the threads. *)
TypeOK ==
  /\ clock \in 0 .. MaxTime
  /\ entries \in [Slot -> Token \cup {None}]
  /\ count \in 0 .. Capacity + Cardinality(Thread)
  /\ table \subseteq Token
  /\ \A t \in Thread :
       /\ thread[t].pc \in {"idle", "prune", "scan", "full", "take", "store", "fill",
                            "persist", "check", "accepted"}
       /\ thread[t].tok \in Token \cup {None}
       /\ thread[t].i \in 0 .. Capacity + Cardinality(Thread) + 1
  /\ revoked \subseteq Token
  /\ unsaved \subseteq revoked
  /\ restarts \in 0 .. MaxRestarts

Init ==
  /\ clock = 0
  /\ entries = [s \in Slot |-> None]
  /\ count = 0
  /\ table = {}
  /\ thread = [t \in Thread |-> Idle]
  /\ revoked = {}
  /\ unsaved = {}
  /\ restarts = 0

-----------------------------------------------------------------------------
At(t, pc) == thread[t].pc = pc

Set(t, r) == thread' = [thread EXCEPT ![t] = r]

(* cookbook_jwt_verify: a token is good until its expiry has passed. *)
Verifies(tok) == clock <= Exp[tok]

(* Mutant: an entry goes one second early. *)
LiveTooShort(e, now) == e # None /\ Exp[e] > now + 1

(* An entry prune keeps; an entry never filled has expiry 0. *)
Live(e, now) == e # None /\ Exp[e] > now

(* POST /auth/revoke: a valid token, then cookbook_revocation_add. *)
StartRevoke(t, tok) ==
  /\ At(t, "idle")
  /\ Verifies(tok)
  /\ Set(t, [Idle EXCEPT !.pc = "prune", !.tok = tok, !.i = 1, !.wr = 1, !.now = clock])
  /\ UNCHANGED <<clock, entries, count, table, revoked, unsaved, restarts>>

(* One round of revocation_prune's loop: keep live entries, compacted. *)
PruneEntry(t) ==
  LET s == thread[t] IN
  /\ At(t, "prune")
  /\ s.i <= count
  /\ IF Live(entries[s.i], s.now)
     THEN /\ entries' = [entries EXCEPT ![s.wr] = entries[s.i]]
          /\ Set(t, [s EXCEPT !.i = @ + 1, !.wr = @ + 1])
     ELSE /\ Set(t, [s EXCEPT !.i = @ + 1])
          /\ UNCHANGED entries
  /\ UNCHANGED <<clock, count, table, revoked, unsaved, restarts>>

(* Mutant: the count is the position of the read, not of the write. *)
PruneDoneAtRead(t) ==
  LET s == thread[t] IN
  /\ At(t, "prune")
  /\ s.i > count
  /\ count' = s.i
  /\ Set(t, [s EXCEPT !.pc = "scan", !.i = 1])
  /\ UNCHANGED <<clock, entries, table, revoked, unsaved, restarts>>

PruneDone(t) ==
  LET s == thread[t] IN
  /\ At(t, "prune")
  /\ s.i > count
  /\ count' = s.wr - 1
  /\ Set(t, [s EXCEPT !.pc = "scan", !.i = 1])
  /\ UNCHANGED <<clock, entries, table, revoked, unsaved, restarts>>

(* The search for the jti: found means already revoked. *)
ScanEntry(t) ==
  LET s == thread[t] IN
  /\ At(t, "scan")
  /\ Set(t, IF s.i > count THEN [s EXCEPT !.pc = "full"]
            ELSE IF entries[s.i] = s.tok THEN [s EXCEPT !.pc = "persist"]
            ELSE [s EXCEPT !.i = @ + 1])
  /\ UNCHANGED <<clock, entries, count, table, revoked, unsaved, restarts>>

(* Mutant: > for >=. *)
CheckFullLate(t) ==
  /\ At(t, "full")
  /\ Set(t, IF count > Capacity THEN Idle ELSE [thread[t] EXCEPT !.pc = "take"])
  /\ UNCHANGED <<clock, entries, count, table, revoked, unsaved, restarts>>

(* Mutant: a full array is not reported, the row is written all the same. *)
CheckFullPersists(t) ==
  /\ At(t, "full")
  /\ Set(t, [thread[t] EXCEPT !.pc = IF count >= Capacity THEN "persist" ELSE "take"])
  /\ UNCHANGED <<clock, entries, count, table, revoked, unsaved, restarts>>

CheckFull(t) == \* 507 when there is no room
  /\ At(t, "full")
  /\ Set(t, IF count >= Capacity THEN Idle ELSE [thread[t] EXCEPT !.pc = "take"])
  /\ UNCHANGED <<clock, entries, count, table, revoked, unsaved, restarts>>

(* entries[count++]: a load, a store, and then the entry is filled in. *)
TakeSlot(t) ==
  /\ At(t, "take")
  /\ Set(t, [thread[t] EXCEPT !.pc = "store", !.i = count + 1])
  /\ UNCHANGED <<clock, entries, count, table, revoked, unsaved, restarts>>

StoreCount(t) ==
  /\ At(t, "store")
  /\ count' = thread[t].i
  /\ Set(t, [thread[t] EXCEPT !.pc = "fill"])
  /\ UNCHANGED <<clock, entries, table, revoked, unsaved, restarts>>

FillEntry(t) ==
  /\ At(t, "fill")
  /\ entries' = [entries EXCEPT ![thread[t].i] = thread[t].tok]
  /\ Set(t, [thread[t] EXCEPT !.pc = "persist"])
  /\ UNCHANGED <<clock, count, table, revoked, unsaved, restarts>>

(* INSERT OR IGNORE INTO revocations, then 200 whether it worked or not. *)
Persist(t) ==
  /\ At(t, "persist")
  /\ table' = table \cup {thread[t].tok}
  /\ revoked' = revoked \cup {thread[t].tok}
  /\ unsaved' = unsaved \ {thread[t].tok}
  /\ Set(t, Idle)
  /\ UNCHANGED <<clock, entries, count, restarts>>

PersistFails(t) ==
  /\ At(t, "persist")
  /\ Cardinality(unsaved) < MaxFaults
  /\ unsaved' = IF thread[t].tok \in table THEN unsaved ELSE unsaved \cup {thread[t].tok}
  /\ revoked' = revoked \cup {thread[t].tok}
  /\ Set(t, Idle)
  /\ UNCHANGED <<clock, entries, count, table, restarts>>

-----------------------------------------------------------------------------
(* extract_bearer_jwt: jwt_verify, then cookbook_revocation_check.  The     *)
(* field was remembers whether the token's revocation had already been      *)
(* answered and saved.                                                      *)
StartVerify(t, tok) ==
  /\ At(t, "idle")
  /\ Verifies(tok)
  /\ Set(t, [Idle EXCEPT !.pc = "check", !.tok = tok, !.i = 1, !.now = clock,
                         !.was = tok \in revoked \ unsaved])
  /\ UNCHANGED <<clock, entries, count, table, revoked, unsaved, restarts>>

CheckEntry(t) ==
  LET s == thread[t] IN
  /\ At(t, "check")
  /\ Set(t, IF s.i > count THEN [s EXCEPT !.pc = "accepted"]
            ELSE IF entries[s.i] = s.tok THEN Idle
            ELSE [s EXCEPT !.i = @ + 1])
  /\ UNCHANGED <<clock, entries, count, table, revoked, unsaved, restarts>>

Serve(t) ==
  /\ At(t, "accepted")
  /\ Set(t, Idle)
  /\ UNCHANGED <<clock, entries, count, table, revoked, unsaved, restarts>>

-----------------------------------------------------------------------------
Tick ==
  /\ clock < MaxTime
  /\ clock' = clock + 1
  /\ UNCHANGED <<entries, count, table, thread, revoked, unsaved, restarts>>

(* Mutant: a row in its last second is taken for expired. *)
UnexpiredTooShort == {tok \in table : Exp[tok] > clock + 1}

Unexpired == {tok \in table : Exp[tok] > clock}

(* Stop or crash, and start: the rows not expired are added one by one to   *)
(* an empty array as far as it has room, the others are deleted.            *)
Restart ==
  /\ restarts < MaxRestarts
  /\ restarts' = restarts + 1
  /\ thread' = [t \in Thread |-> Idle]
  /\ LET n == IF Cardinality(Unexpired) < Capacity THEN Cardinality(Unexpired) ELSE Capacity
     IN /\ count' = n
        /\ \E f \in [1 .. n -> Unexpired] :
             /\ \A x, y \in 1 .. n : x # y => f[x] # f[y]
             /\ entries' = [s \in Slot |-> IF s <= n THEN f[s] ELSE None]
  /\ table' = Unexpired
  /\ UNCHANGED <<clock, revoked, unsaved>>

Next ==
  \/ \E t \in Thread, tok \in Token : StartRevoke(t, tok) \/ StartVerify(t, tok)
  \/ \E t \in Thread :
       \/ PruneEntry(t) \/ PruneDone(t) \/ ScanEntry(t) \/ CheckFull(t)
       \/ TakeSlot(t) \/ StoreCount(t) \/ FillEntry(t)
       \/ Persist(t) \/ PersistFails(t)
       \/ CheckEntry(t) \/ Serve(t)
  \/ Tick
  \/ Restart

Spec == Init /\ [][Next]_vars

-----------------------------------------------------------------------------
(* Is the thread inside cookbook_revocation_add? *)
Writing(t) == thread[t].pc \in {"prune", "scan", "full", "take", "store", "fill"}

(* No thread is inside cookbook_revocation_add while another is in the      *)
(* array: what a lock around the array's functions would ensure and nothing *)
(* in the code does.  INSERTs, answers and any number of checks overlap.    *)
Apart ==
  \A t, u \in Thread : t # u /\ Writing(t) => ~Writing(u) /\ ~At(u, "check")

(* docs/capabilities.md:494: revocation is for "immediate invalidation": a  *)
(* token whose revocation was answered before it is presented is not        *)
(* accepted, across restarts and prunings of other tokens.  Two exceptions: *)
(* in the second of its expiry the token still verifies and its entry may   *)
(* be pruned, and a revocation whose INSERT failed is lost by a restart.    *)
RevokedRejectedBeforeExpiry ==
  \A t \in Thread :
    At(t, "accepted") /\ thread[t].now < Exp[thread[t].tok] => ~thread[t].was

(* docs/capabilities.md:495: the list is "capped at 4096 entries": no entry *)
(* is ever written past the array.                                          *)
ListBounded ==
  /\ count <= Capacity
  /\ \A t \in Thread : At(t, "fill") => thread[t].i <= Capacity

(* A restart never has to drop a revocation for lack of room: the rows that *)
(* have not expired always fit into the array.                              *)
ReloadFits == Cardinality(Unexpired) <= Capacity

(* Whatever the threads did to the array before it, a restart whose rows    *)
(* fit puts back every revocation that was answered, saved and still counts:*)
(* no row of one is missing from the table and none is left out of the load.*)
RestartRestores ==
  [][restarts' # restarts /\ ReloadFits =>
       \A tok \in revoked \ unsaved :
         Exp[tok] > clock => \E j \in 1 .. count' : entries'[j] = tok]_vars
==============================================================================
