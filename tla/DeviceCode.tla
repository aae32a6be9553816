----------------------------- MODULE DeviceCode -----------------------------
(***************************************************************************)
(* The device code flow, with an OIDC provider or without.  A device       *)
(* asks for a pair of codes, its user authorises the user code with a      *)
(* credential, and the device redeems the device code for a token.  The    *)
(* server keeps the pairs in a fixed array of which the first count slots  *)
(* are in use; entries are compacted when they expire and the last one     *)
(* moves into the place of a redeemed one.  Where a provider is configured *)
(* both requests of the device are passed on to it, and the array is only  *)
(* used when it does not answer.  Requests come one at a time here:        *)
(* nothing in the code protects the array from two at once.                *)
(***************************************************************************)
EXTENDS Naturals, Sequences, FiniteSets, Compaction

CONSTANTS Device,   \* device codes, random and never issued twice
          UserCode, \* user codes, random and not checked for repetition
          Subject,  \* holders of a valid credential
          None,     \* the empty string
          Capacity, \* slots of the array (64 in the code)
          Provider, \* BOOLEAN: an OIDC provider is configured
          ClientId, \* the subject of a provider's answer that names none
          Lifetime, \* seconds a pair of codes is good for (900 in the code)
          MaxTime   \* bound: seconds

ASSUME DeviceAssumption ==
  /\ None \notin Device \cup UserCode \cup Subject
  /\ {"none", "pending", "used"} \cap Subject = {}
  /\ Provider \in BOOLEAN
  /\ {Capacity, Lifetime, MaxTime} \subseteq Nat

VARIABLES clock,
          codes,    \* the array; slots past count keep what was in them
          count,    \* slots in use
          issued,   \* [Device -> [user, at]]: pairs answered, and when
          verified, \* [Device -> SUBSET Subject]: who verified its user code in its life
          idp,      \* [Device -> state of its pair at the provider, a subject if granted]
          tokens    \* the answers that removed an entry, in order; sub None is 500

vars == <<clock, codes, count, issued, verified, idp, tokens>>

Entry == [dev : Device, user : UserCode, sub : Subject \cup {None},
          authorized : BOOLEAN, exp : Nat]

(* memset(entry, 0) *)
NoEntry == [dev |-> None, user |-> None, sub |-> None, authorized |-> FALSE, exp |-> 0]

Never == [user |-> None, at |-> 0]

Used == 1 .. count

(* The pair of codes of d has been issued and has not expired. *)
InLife(d) == issued[d] # Never /\ clock < issued[d].at + Lifetime

Init ==
  /\ clock = 0
  /\ codes = [i \in 1 .. Capacity |-> NoEntry]
  /\ count = 0
  /\ issued = [d \in Device |-> Never]
  /\ verified = [d \in Device |-> {}]
  /\ idp = [d \in Device |-> "none"]
  /\ tokens = << >>

-----------------------------------------------------------------------------
(* POST /auth/device *)

(* The provider's answer is passed on as it is. *)
ProxyIssue(d) ==
  /\ Provider
  /\ idp[d] = "none" /\ issued[d] = Never
  /\ idp' = [idp EXCEPT ![d] = "pending"]
  /\ UNCHANGED <<clock, codes, count, issued, verified, tokens>>

Live(e) == e.exp > clock

(* The entries that stay, in order. *)
Kept == Compact(codes, {i \in Used : Live(codes[i])})

(* The array after they have been moved to its front. *)
Pruned == [i \in 1 .. Capacity |-> IF i <= Len(Kept) THEN Kept[i] ELSE codes[i]]

(* Mutant: > for >=. *)
FullLate == Len(Kept) > Capacity

Full == Len(Kept) >= Capacity

IssueRefused == \* 503, after the pruning
  /\ Full
  /\ codes' = Pruned
  /\ count' = Len(Kept)
  /\ UNCHANGED <<clock, issued, verified, idp, tokens>>

(* Mutant: what the slot last held is not cleared. *)
NewEntryUncleared(d, u) ==
  [Pruned[Len(Kept) + 1] EXCEPT !.dev = d, !.user = u, !.exp = clock + Lifetime]

NewEntry(d, u) == [NoEntry EXCEPT !.dev = d, !.user = u, !.exp = clock + Lifetime]

Issue(d, u) == \* no provider, or it does not answer 200
  /\ issued[d] = Never /\ idp[d] = "none"
  /\ ~Full
  /\ codes' = [Pruned EXCEPT ![Len(Kept) + 1] = NewEntry(d, u)]
  /\ count' = Len(Kept) + 1
  /\ issued' = [issued EXCEPT ![d] = [user |-> u, at |-> clock]]
  /\ UNCHANGED <<clock, verified, idp, tokens>>

-----------------------------------------------------------------------------
(* POST /auth/device/verify by s: the first entry with this user code is    *)
(* authorised, 400 if it has expired, 404 if there is none; an entry that   *)
(* is authorised already changes its subject.                               *)
Verify(u, s) ==
  \E i \in Used :
    /\ codes[i].user = u
    /\ \A j \in Used : codes[j].user = u => i <= j
    /\ Live(codes[i])
    /\ codes' = [codes EXCEPT ![i].sub = s, ![i].authorized = TRUE]
    /\ verified' = [d \in Device |-> IF issued[d].user = u /\ InLife(d)
                                      THEN verified[d] \cup {s} ELSE verified[d]]
    /\ UNCHANGED <<clock, count, issued, idp, tokens>>

(* Mutants: the entry stays; the last entry is dropped and not moved. *)
RemoveNothing(i) == UNCHANGED <<codes, count>>

RemoveLast(i) == count' = count - 1 /\ UNCHANGED codes

(* device_codes[i] = device_codes[--device_code_count] *)
Remove(i) ==
  /\ codes' = [codes EXCEPT ![i] = codes[count]]
  /\ count' = count - 1

(* POST /auth/device/token.  A provider is asked first.  When it answers    *)
(* 200 the token is for the subject it names, or for the client itself.     *)
(* Making it may fail; the array, searched then, does not have the code.    *)
(* While the user has not decided, or the provider does not know the code,  *)
(* its refusal (428 or 400) is the answer.                                  *)
ProxyRedeem(d) ==
  /\ Provider
  /\ idp[d] \in Subject
  /\ \E s \in {idp[d], ClientId, None} :
       tokens' = Append(tokens, [dev |-> d, sub |-> s, late |-> FALSE])
  /\ idp' = [idp EXCEPT ![d] = "used"]
  /\ UNCHANGED <<clock, codes, count, issued, verified>>

(* The user signs in at the provider. *)
Grant(d, s) ==
  /\ idp[d] = "pending"
  /\ idp' = [idp EXCEPT ![d] = s]
  /\ verified' = [verified EXCEPT ![d] = {s, ClientId}]
  /\ UNCHANGED <<clock, codes, count, issued, tokens>>

(* No provider, or no answer from it, and an authorised entry: a token for  *)
(* its subject is made and the entry removed.  Making it may fail (500),    *)
(* and the entry goes all the same.  A pending entry is answered 428, an    *)
(* expired one or an unknown code 400.  Nothing ever sets an entry to       *)
(* denied.                                                                  *)
Redeem(d) ==
  \E i \in Used :
    /\ codes[i].dev = d
    /\ Live(codes[i])
    /\ codes[i].authorized
    /\ \E s \in {codes[i].sub, None} :
         tokens' = Append(tokens, [dev |-> d, sub |-> s, late |-> ~InLife(d)])
    /\ Remove(i)
    /\ UNCHANGED <<clock, issued, verified, idp>>

Tick ==
  /\ clock < MaxTime
  /\ clock' = clock + 1
  /\ UNCHANGED <<codes, count, issued, verified, idp, tokens>>

Next ==
  \/ IssueRefused
  \/ \E d \in Device, u \in UserCode : Issue(d, u)
  \/ \E u \in UserCode, s \in Subject : Verify(u, s)
  \/ \E d \in Device : Redeem(d) \/ ProxyIssue(d) \/ ProxyRedeem(d)
  \/ \E d \in Device, s \in Subject : Grant(d, s)
  \/ Tick

Spec == Init /\ [][Next]_vars

-----------------------------------------------------------------------------
(* The slots in use hold entries, and there are never more than the array   *)
(* has.                                                                     *)
TypeOK ==
  /\ clock \in 0 .. MaxTime
  /\ count \in 0 .. Capacity
  /\ codes \in [1 .. Capacity -> Entry \cup {NoEntry}]
  /\ \A i \in Used : codes[i] \in Entry
  /\ issued \in [Device -> {Never} \cup [user : UserCode, at : 0 .. MaxTime]]
  /\ verified \in [Device -> SUBSET (Subject \cup {ClientId})]
  /\ idp \in [Device -> {"none", "pending", "used"} \cup Subject]
  /\ tokens \in Seq([dev : Device, sub : Subject \cup {ClientId, None}, late : BOOLEAN])

(* docs/capabilities.md:104-105: the client polls until the user            *)
(* "authenticates with credentials": a device gets a token only for a       *)
(* subject who verified the user code shown with its own device code, after *)
(* it was issued and before it expired, wherever compaction and the         *)
(* swap-removal of other entries have moved the entry in the meantime; with *)
(* a provider, for the user who signed in there or for the client itself,   *)
(* whether the pair came from the provider or from the array.               *)
TokenNeedsVerification ==
  \A n \in DOMAIN tokens :
    /\ ~tokens[n].late
    /\ tokens[n].sub \in verified[tokens[n].dev] \cup {None}

(* A device code is redeemed at most once, by handle_auth_device_token or   *)
(* through it, also when the provider comes and goes between two polls.     *)
RedeemedOnce ==
  \A m, n \in DOMAIN tokens : tokens[m].dev = tokens[n].dev => m = n

(* A pair of codes is in the array, once, as long as it has neither expired *)
(* nor been redeemed: no pruning and no removal of another device's entry   *)
(* makes a poll answer "Invalid device_code" early.                         *)
CodesRemembered ==
  \A d \in Device :
    /\ InLife(d)
    /\ \A n \in DOMAIN tokens : tokens[n].dev # d
    => Cardinality({i \in Used : codes[i].dev = d}) = 1
=============================================================================
