-------------------------- MODULE DeviceCodeProofs --------------------------
(* Proofs about module DeviceCode, for every set of devices, user codes and *)
(* subjects, every capacity and lifetime, with a provider or without.       *)
EXTENDS DeviceCode, CompactionProofs

USE DeviceAssumption

-----------------------------------------------------------------------------
(* An entry belongs to the pair of codes issued to its device, and whoever  *)
(* it is authorised for has verified that pair.                             *)
Genuine(e) ==
  /\ issued[e.dev] # Never
  /\ issued[e.dev].user = e.user
  /\ e.exp = issued[e.dev].at + Lifetime
  /\ e.authorized => e.sub \in verified[e.dev]

(* A device has been given a token. *)
Served(d) == \E n \in DOMAIN tokens : tokens[n].dev = d

(* The inductive invariant: genuine entries, one per device, none for a     *)
(* device already served; a device is with the provider or with the array,  *)
(* never with both.                                                         *)
Entries ==
  /\ \A i \in Used : Genuine(codes[i]) /\ ~Served(codes[i].dev)
  /\ \A i, j \in Used : codes[i].dev = codes[j].dev => i = j

Homes ==
  \A d \in Device :
    /\ issued[d] # Never => idp[d] = "none"
    /\ idp[d] \in Subject => verified[d] = {idp[d], ClientId}
    /\ Served(d) => issued[d] # Never \/ idp[d] = "used"

(* Every pair of codes that still counts has an entry. *)
Remembered ==
  \A d \in Device : InLife(d) /\ ~Served(d) => \E i \in Used : codes[i].dev = d

DeviceInv ==
  /\ TypeOK /\ Entries /\ Homes /\ Remembered
  /\ TokenNeedsVerification /\ RedeemedOnce

-----------------------------------------------------------------------------
(* Pruning keeps every live entry, and nothing else, in the used slots, and *)
(* no entry twice.                                                          *)
LEMMA PruningKeepsLive ==
  ASSUME TypeOK
  PROVE  /\ Len(Kept) \in 0 .. count
         /\ Pruned \in [1 .. Capacity -> Entry \cup {NoEntry}]
         /\ \E f \in [1 .. Len(Kept) -> Used] :
              /\ \A n \in 1 .. Len(Kept) : Pruned[n] = codes[f[n]] /\ Live(codes[f[n]])
              /\ \A m, n \in 1 .. Len(Kept) : m # n => f[m] # f[n]
              /\ \A i \in Used : Live(codes[i]) => \E n \in 1 .. Len(Kept) : f[n] = i
<1> DEFINE K == {i \in Used : Live(codes[i])}
           f == [n \in 1 .. Len(Kept) |-> Nth(K, n)]
           A == Entry \cup {NoEntry}
<1>1. codes \in Seq(A) /\ Len(codes) = Capacity /\ DOMAIN codes = 1 .. Capacity
  BY DEF TypeOK
<1>2. count \in Nat /\ count <= Capacity /\ Used \subseteq 1 .. Capacity BY DEF TypeOK, Used
<1>3. K \in SUBSET DOMAIN codes BY <1>1, <1>2
<1>4. Kept = Compact(codes, K) BY DEF Kept
<1>5. \A i \in K : i \in Used /\ Live(codes[i]) OBVIOUS
<1>6. \A i \in Used : Live(codes[i]) => i \in K OBVIOUS
<1>c. Cardinality(K) <= count
  <2>1. K \in SUBSET (1 .. count) BY DEF Used
  <2>2. 1 \in Int /\ count \in Int BY <1>2
  <2>3. IsFiniteSet(1 .. count) /\ Cardinality(1 .. count) = IF 1 > count THEN 0 ELSE count - 1 + 1
    BY ONLY <2>2, FS_Interval
  <2>4. Cardinality(1 .. count) = count BY <1>2, <2>3
  <2> HIDE DEF K
  <2> QED BY <2>1, <2>3, <2>4, FS_Subset
<1> HIDE DEF K, A
<1>7. /\ Compact(codes, K) \in Seq(A)
      /\ Len(Compact(codes, K)) = Cardinality(K)
      /\ Cardinality(K) \in Nat
      /\ \A n \in 1 .. Cardinality(K) : Nth(K, n) \in K /\ Compact(codes, K)[n] = codes[Nth(K, n)]
      /\ \A m, n \in 1 .. Cardinality(K) : m # n => Nth(K, m) # Nth(K, n)
      /\ \A i \in K : \E n \in 1 .. Cardinality(K) : Nth(K, n) = i
  BY <1>1, <1>3, CompactProperties
<1>8. Len(Kept) = Cardinality(K) /\ Len(Kept) \in 0 .. count BY <1>c, <1>2, <1>4, <1>7
<1>9. \A n \in 1 .. Len(Kept) : n \in 1 .. Capacity /\ Kept[n] = codes[Nth(K, n)] /\ Kept[n] \in A
  BY <1>2, <1>4, <1>7, <1>8
<1>10. Pruned \in [1 .. Capacity -> A]
  BY <1>1, <1>8, <1>9 DEF Pruned
<1>11. \A n \in 1 .. Len(Kept) : Pruned[n] = codes[f[n]] /\ Live(codes[f[n]])
  BY <1>5, <1>7, <1>8, <1>9 DEF Pruned
<1>12. f \in [1 .. Len(Kept) -> Used] BY <1>5, <1>7, <1>8
<1>13. \A m, n \in 1 .. Len(Kept) : m # n => f[m] # f[n] BY <1>7, <1>8
<1>14. \A i \in Used : Live(codes[i]) => \E n \in 1 .. Len(Kept) : f[n] = i BY <1>6, <1>7, <1>8
<1> HIDE DEF f
<1> QED BY <1>8, <1>10, <1>11, <1>12, <1>13, <1>14 DEF A

(* What pruning leaves is as good as what was there.                        *)
LEMMA PrunedEntries ==
  ASSUME DeviceInv
  PROVE  /\ \A n \in 1 .. Len(Kept) :
              Pruned[n] \in Entry /\ Genuine(Pruned[n]) /\ ~Served(Pruned[n].dev)
         /\ \A m, n \in 1 .. Len(Kept) : Pruned[m].dev = Pruned[n].dev => m = n
         /\ \A d \in Device : InLife(d) /\ ~Served(d) => \E n \in 1 .. Len(Kept) : Pruned[n].dev = d
<1>1. PICK f \in [1 .. Len(Kept) -> Used] :
        /\ \A n \in 1 .. Len(Kept) : Pruned[n] = codes[f[n]] /\ Live(codes[f[n]])
        /\ \A m, n \in 1 .. Len(Kept) : m # n => f[m] # f[n]
        /\ \A i \in Used : Live(codes[i]) => \E n \in 1 .. Len(Kept) : f[n] = i
  BY PruningKeepsLive DEF DeviceInv
<1>2. \A n \in 1 .. Len(Kept) : f[n] \in Used OBVIOUS
<1>3. \A n \in 1 .. Len(Kept) : Pruned[n] \in Entry /\ Genuine(Pruned[n]) /\ ~Served(Pruned[n].dev)
  BY <1>1, <1>2 DEF DeviceInv, TypeOK, Entries
<1>4. \A m, n \in 1 .. Len(Kept) : Pruned[m].dev = Pruned[n].dev => m = n
  BY <1>1, <1>2 DEF DeviceInv, Entries
<1>5. ASSUME NEW d \in Device, InLife(d), ~Served(d) PROVE \E n \in 1 .. Len(Kept) : Pruned[n].dev = d
  <2>1. PICK i \in Used : codes[i].dev = d BY <1>5 DEF DeviceInv, Remembered
  <2>2. codes[i].exp = issued[d].at + Lifetime BY <2>1 DEF DeviceInv, Entries, Genuine
  <2>3. clock < codes[i].exp BY <1>5, <2>2 DEF InLife
  <2>4. codes[i].exp \in Nat /\ clock \in Nat BY <2>1 DEF DeviceInv, TypeOK, Entry
  <2>5. Live(codes[i]) BY <2>3, <2>4 DEF Live
  <2> QED BY <1>1, <2>1, <2>5
<1> QED BY <1>3, <1>4, <1>5

(* A full array refuses, and forgets nothing that counts.                   *)
LEMMA IssueRefusedStep == DeviceInv /\ IssueRefused => DeviceInv'
<1> SUFFICES ASSUME DeviceInv, IssueRefused PROVE DeviceInv'
  OBVIOUS
<1>1. codes' = Pruned /\ count' = Len(Kept) /\ UNCHANGED <<clock, issued, verified, idp, tokens>>
  BY DEF IssueRefused
<1>2. Len(Kept) \in 0 .. count /\ Pruned \in [1 .. Capacity -> Entry \cup {NoEntry}]
  BY PruningKeepsLive DEF DeviceInv
<1>3. TypeOK'
  <2>1. count' \in 0 .. Capacity BY <1>1, <1>2 DEF DeviceInv, TypeOK
  <2>2. \A i \in Used' : codes'[i] \in Entry BY <1>1, PrunedEntries DEF Used
  <2> QED BY <1>1, <1>2, <2>1, <2>2 DEF DeviceInv, TypeOK
<1>4. \A d : Served(d)' = Served(d) /\ InLife(d)' = InLife(d) BY <1>1 DEF Served, InLife
<1>5. \A e : Genuine(e)' = Genuine(e) BY <1>1 DEF Genuine
<1>6. Entries' BY <1>1, <1>4, <1>5, PrunedEntries DEF Entries, Used
<1>7. Remembered' BY <1>1, <1>4, PrunedEntries DEF Remembered, Used
<1>8. Homes' /\ TokenNeedsVerification' /\ RedeemedOnce'
  BY <1>1, <1>4 DEF DeviceInv, Homes, TokenNeedsVerification, RedeemedOnce
<1> QED BY <1>3, <1>6, <1>7, <1>8 DEF DeviceInv

(* Filling in a cleared entry. *)
LEMMA NewEntryFields ==
  ASSUME NEW r \in [dev : Device \cup {None}, user : UserCode \cup {None}, sub : Subject \cup {None},
                    authorized : BOOLEAN, exp : Nat],
         NEW d \in Device, NEW u \in UserCode, NEW x \in Nat
  PROVE  LET e == [r EXCEPT !.dev = d, !.user = u, !.exp = x] IN
         /\ e \in Entry
         /\ e.dev = d /\ e.user = u /\ e.exp = x /\ e.authorized = r.authorized
BY DEF Entry

(* A new pair goes to a device that neither the array nor the provider has, *)
(* into a cleared slot.                                                     *)
LEMMA IssueStep ==
  ASSUME DeviceInv, NEW d \in Device, NEW u \in UserCode, Issue(d, u)
  PROVE  DeviceInv'
<1> DEFINE k == Len(Kept) + 1
           e == NewEntry(d, u)
<1>1. /\ issued[d] = Never /\ idp[d] = "none" /\ ~Full
      /\ codes' = [Pruned EXCEPT ![k] = e] /\ count' = k
      /\ issued' = [issued EXCEPT ![d] = [user |-> u, at |-> clock]]
      /\ UNCHANGED <<clock, verified, idp, tokens>>
  BY DEF Issue
<1>2. Len(Kept) \in 0 .. count /\ Pruned \in [1 .. Capacity -> Entry \cup {NoEntry}] /\ Capacity \in Nat
  BY PruningKeepsLive DEF DeviceInv
<1>3. k \in 1 .. Capacity BY <1>1, <1>2 DEF Full, DeviceInv, TypeOK
<1>4. e \in Entry /\ e.dev = d /\ e.user = u /\ e.exp = clock + Lifetime /\ ~e.authorized
  <2>1. clock + Lifetime \in Nat BY DEF DeviceInv, TypeOK
  <2>2. NoEntry \in [dev : Device \cup {None}, user : UserCode \cup {None}, sub : Subject \cup {None},
                     authorized : BOOLEAN, exp : Nat] /\ ~NoEntry.authorized
    BY DEF NoEntry
  <2> QED BY <2>1, <2>2, NewEntryFields DEF NewEntry
<1> HIDE DEF e
<1>c. \A i \in 1 .. Capacity : codes'[i] = IF i = k THEN e ELSE Pruned[i] BY <1>1, <1>2
<1>u. Used' = 1 .. k BY <1>1 DEF Used
<1>n. \A i : i \in 1 .. k <=> i = k \/ i \in 1 .. Len(Kept) BY <1>2
<1>m. \A i \in 1 .. Len(Kept) : i \in 1 .. Capacity /\ i # k BY <1>2, <1>3
<1>5. \A i \in Used' : (i = k /\ codes'[i] = e) \/ (i \in 1 .. Len(Kept) /\ i # k /\ codes'[i] = Pruned[i])
  <2> HIDE DEF k
  <2> SUFFICES ASSUME NEW i \in 1 .. k
               PROVE  (i = k /\ codes'[i] = e) \/ (i \in 1 .. Len(Kept) /\ i # k /\ codes'[i] = Pruned[i])
    BY <1>u
  <2>1. CASE i = k BY <1>3, <1>c, <2>1
  <2>2. CASE i # k BY <1>c, <1>n, <1>m, <2>2
  <2> QED BY <2>1, <2>2
<1>6. \A i \in 1 .. Len(Kept) : i \in Used' /\ codes'[i] = Pruned[i]
  BY <1>c, <1>u, <1>n, <1>m
<1>7. k \in Used' /\ codes'[k] = e BY <1>1, <1>2, <1>3 DEF Used
<1>8. /\ issued' \in [Device -> {Never} \cup [user : UserCode, at : 0 .. MaxTime]]
      /\ issued'[d].user = u /\ issued'[d].at = clock /\ issued'[d] # Never
      /\ \A c \in Device \ {d} : issued'[c] = issued[c]
  BY <1>1 DEF DeviceInv, TypeOK, Never
<1> HIDE DEF k
<1>9. TypeOK'
  <2>1. codes' \in [1 .. Capacity -> Entry \cup {NoEntry}] BY <1>1, <1>2, <1>4
  <2>2. \A i \in Used' : codes'[i] \in Entry BY <1>4, <1>5, PrunedEntries
  <2>3. count' \in 0 .. Capacity BY <1>1, <1>3
  <2> QED BY <1>1, <1>8, <2>1, <2>2, <2>3 DEF DeviceInv, TypeOK
<1>10. \A c : Served(c)' = Served(c) BY <1>1 DEF Served
<1>11. ~Served(d) BY <1>1 DEF DeviceInv, Homes
<1>12. \A i \in 1 .. Len(Kept) : Pruned[i].dev \in Device \ {d}
  BY <1>1, PrunedEntries DEF Genuine, Entry
<1>13. \A i \in Used' : Genuine(codes[i])' /\ ~Served(codes[i].dev)'
  <2> SUFFICES ASSUME NEW i \in Used' PROVE Genuine(codes[i])' /\ ~Served(codes'[i].dev)
    BY <1>10
  <2>1. CASE i = k
    <3>1. codes'[i] = e BY <1>7, <2>1
    <3> QED BY <1>1, <1>4, <1>8, <1>11, <3>1 DEF Genuine
  <2>2. CASE i # k
    <3>1. i \in 1 .. Len(Kept) /\ codes'[i] = Pruned[i] BY <1>5, <2>2
    <3>2. Genuine(Pruned[i]) /\ ~Served(Pruned[i].dev) /\ Pruned[i].dev \in Device \ {d}
      BY <1>12, <3>1, PrunedEntries
    <3> QED BY <1>1, <1>8, <3>1, <3>2 DEF Genuine
  <2> QED BY <2>1, <2>2
<1>14. \A i, j \in Used' : codes'[i].dev = codes'[j].dev => i = j
  BY <1>4, <1>5, <1>12, PrunedEntries
<1>15. Entries' BY <1>13, <1>14 DEF Entries
<1>16. Remembered'
  <2> SUFFICES ASSUME NEW c \in Device, InLife(c)', ~Served(c)' PROVE \E i \in Used' : codes'[i].dev = c
    BY DEF Remembered
  <2>1. CASE c = d BY <1>4, <1>7, <2>1
  <2>2. CASE c # d
    <3>1. InLife(c) /\ ~Served(c) BY <1>1, <1>8, <1>10, <2>2 DEF InLife
    <3>2. PICK n \in 1 .. Len(Kept) : Pruned[n].dev = c BY <3>1, PrunedEntries
    <3> QED BY <1>6, <3>2
  <2> QED BY <2>1, <2>2
<1>17. Homes' BY <1>1, <1>8, <1>10 DEF DeviceInv, Homes
<1>18. TokenNeedsVerification' /\ RedeemedOnce'
  BY <1>1 DEF DeviceInv, TokenNeedsVerification, RedeemedOnce
<1> QED BY <1>9, <1>15, <1>16, <1>17, <1>18 DEF DeviceInv

(* Tokens are for devices. *)
LEMMA TokenDevices == TypeOK => \A n \in DOMAIN tokens : tokens[n].dev \in Device
<1> DEFINE T == [dev : Device, sub : Subject \cup {ClientId, None}, late : BOOLEAN]
<1> SUFFICES ASSUME TypeOK, NEW n \in DOMAIN tokens PROVE tokens[n].dev \in Device
  OBVIOUS
<1>1. tokens \in Seq(T) BY DEF TypeOK
<1>2. \A t \in T : t.dev \in Device OBVIOUS
<1> HIDE DEF T
<1>3. tokens[n] \in T BY <1>1
<1> QED BY <1>2, <1>3

(* The first entry with the user code is the one of a device to which the   *)
(* server gave that code, in its life.                                      *)
LEMMA VerifyStep ==
  ASSUME DeviceInv, NEW u \in UserCode, NEW s \in Subject, Verify(u, s)
  PROVE  DeviceInv'
<1>1. PICK i \in Used :
        /\ codes[i].user = u /\ Live(codes[i])
        /\ codes' = [codes EXCEPT ![i].sub = s, ![i].authorized = TRUE]
        /\ verified' = [d \in Device |-> IF issued[d].user = u /\ InLife(d)
                                          THEN verified[d] \cup {s} ELSE verified[d]]
        /\ UNCHANGED <<clock, count, issued, idp, tokens>>
  BY DEF Verify
<1>2. /\ i \in 1 .. Capacity /\ codes[i] \in Entry /\ Used' = Used /\ Used \subseteq 1 .. Capacity
      /\ codes \in [1 .. Capacity -> Entry \cup {NoEntry}] /\ \A j \in Used : codes[j] \in Entry
  BY <1>1 DEF DeviceInv, TypeOK, Used
<1>3. \A j \in 1 .. Capacity : j # i => codes'[j] = codes[j] BY <1>1, <1>2
<1>4. codes'[i] = [codes[i] EXCEPT !.sub = s, !.authorized = TRUE] BY <1>1, <1>2
<1>5. /\ codes'[i] \in Entry /\ codes'[i].sub = s
      /\ codes'[i].dev = codes[i].dev /\ codes'[i].user = codes[i].user /\ codes'[i].exp = codes[i].exp
  BY <1>2, <1>4 DEF Entry
<1>6. \A j \in Used : codes'[j] \in Entry /\ codes'[j].dev = codes[j].dev
  BY <1>2, <1>3, <1>5
<1>7. TypeOK'
  <2>1. codes' \in [1 .. Capacity -> Entry \cup {NoEntry}]
    <3>1. \A j \in 1 .. Capacity : codes'[j] \in Entry \cup {NoEntry} BY <1>2, <1>3, <1>5
    <3>2. DOMAIN codes' = 1 .. Capacity /\ codes' = [j \in DOMAIN codes' |-> codes'[j]] BY <1>1, <1>2
    <3> QED BY <3>1, <3>2
  <2>2. verified' \in [Device -> SUBSET (Subject \cup {ClientId})] BY <1>1 DEF DeviceInv, TypeOK
  <2> QED BY <1>1, <1>2, <1>6, <2>1, <2>2 DEF DeviceInv, TypeOK
<1>8. \A d : Served(d)' = Served(d) /\ InLife(d)' = InLife(d) BY <1>1 DEF Served, InLife
<1>9. \A d \in Device : verified[d] \subseteq verified'[d] BY <1>1
<1>10. s \in verified'[codes[i].dev]
  <2>1. codes[i].dev \in Device BY <1>2 DEF Entry
  <2>2. Genuine(codes[i]) BY DEF DeviceInv, Entries
  <2>3. clock < codes[i].exp
    <3>1. clock \in Nat /\ codes[i].exp \in Nat BY <1>2 DEF DeviceInv, TypeOK, Entry
    <3> QED BY <1>1, <3>1 DEF Live
  <2>4. InLife(codes[i].dev) BY <2>2, <2>3 DEF Genuine, InLife
  <2> QED BY <1>1, <2>1, <2>2, <2>4 DEF Genuine
<1>11. \A j \in Used : Genuine(codes[j])'
  <2> SUFFICES ASSUME NEW j \in Used PROVE Genuine(codes[j])'
    OBVIOUS
  <2>0. Genuine(codes[j]) /\ codes[j].dev \in Device BY <1>2 DEF DeviceInv, Entries, Entry
  <2>1. CASE j = i BY <1>1, <1>5, <1>10, <2>0, <2>1 DEF Genuine
  <2>2. CASE j # i
    <3>1. codes'[j] = codes[j] BY <1>2, <1>3, <2>2
    <3> QED BY <1>1, <1>9, <2>0, <3>1 DEF Genuine
  <2> QED BY <2>1, <2>2
<1>12. Entries' BY <1>2, <1>6, <1>8, <1>11 DEF DeviceInv, Entries
<1>13. Remembered' BY <1>2, <1>6, <1>8 DEF DeviceInv, Remembered
<1>14. Homes'
  <2>1. ASSUME NEW d \in Device, idp[d] \in Subject PROVE verified'[d] = verified[d]
    <3>1. issued[d] = Never BY <2>1 DEF DeviceInv, Homes
    <3> QED BY <1>1, <3>1 DEF InLife
  <2> QED BY <1>1, <1>8, <2>1 DEF DeviceInv, Homes
<1>15. TokenNeedsVerification'
  <2>1. \A n \in DOMAIN tokens : tokens[n].dev \in Device
    BY TokenDevices DEF DeviceInv
  <2> QED BY <1>1, <1>9, <2>1 DEF DeviceInv, TokenNeedsVerification
<1>16. RedeemedOnce' BY <1>1 DEF DeviceInv, RedeemedOnce
<1> QED BY <1>7, <1>12, <1>13, <1>14, <1>15, <1>16 DEF DeviceInv

(* A token more in the list of answers. *)
LEMMA OneMoreToken ==
  ASSUME TypeOK, TokenNeedsVerification, RedeemedOnce,
         NEW t \in [dev : Device, sub : Subject \cup {ClientId, None}, late : BOOLEAN],
         tokens' = Append(tokens, t), UNCHANGED verified,
         ~Served(t.dev), ~t.late, t.sub \in verified[t.dev] \cup {None}
  PROVE  /\ tokens' \in Seq([dev : Device, sub : Subject \cup {ClientId, None}, late : BOOLEAN])
         /\ \A d : Served(d)' <=> Served(d) \/ d = t.dev
         /\ TokenNeedsVerification' /\ RedeemedOnce'
<1> DEFINE T == [dev : Device, sub : Subject \cup {ClientId, None}, late : BOOLEAN]
<1>0. tokens \in Seq(T) /\ t \in T BY DEF TypeOK
<1> HIDE DEF T
<1>1. /\ tokens' \in Seq(T) /\ DOMAIN tokens' = DOMAIN tokens \cup {Len(tokens) + 1}
      /\ Len(tokens) + 1 \notin DOMAIN tokens
      /\ \A n \in DOMAIN tokens : tokens'[n] = tokens[n]
      /\ tokens'[Len(tokens) + 1] = t
  BY <1>0
<1>2. \A d : Served(d)' <=> Served(d) \/ d = t.dev BY <1>1 DEF Served
<1>3. TokenNeedsVerification' BY <1>1 DEF TokenNeedsVerification
<1>4. RedeemedOnce' BY <1>1 DEF RedeemedOnce, Served
<1> QED BY <1>1, <1>2, <1>3, <1>4 DEF T

(* A token is made for a genuine, authorised and live entry, which goes.    *)
LEMMA RedeemStep ==
  ASSUME DeviceInv, NEW d \in Device, Redeem(d)
  PROVE  DeviceInv'
<1>1. PICK i \in Used, s \in Subject \cup {None} :
        /\ codes[i].dev = d /\ Live(codes[i]) /\ codes[i].authorized /\ s \in {codes[i].sub, None}
        /\ tokens' = Append(tokens, [dev |-> d, sub |-> s, late |-> ~InLife(d)])
        /\ codes' = [codes EXCEPT ![i] = codes[count]] /\ count' = count - 1
        /\ UNCHANGED <<clock, issued, verified, idp>>
  <2>1. PICK i \in Used :
          /\ codes[i].dev = d /\ Live(codes[i]) /\ codes[i].authorized
          /\ \E s \in {codes[i].sub, None} :
               tokens' = Append(tokens, [dev |-> d, sub |-> s, late |-> ~InLife(d)])
          /\ Remove(i) /\ UNCHANGED <<clock, issued, verified, idp>>
    BY DEF Redeem
  <2>2. codes[i].sub \in Subject \cup {None} BY DEF DeviceInv, TypeOK, Entry
  <2> QED BY <2>1, <2>2 DEF Remove
<1>2. /\ count \in 1 .. Capacity /\ i \in 1 .. count /\ Used = 1 .. count /\ Used' = 1 .. count - 1
      /\ codes \in [1 .. Capacity -> Entry \cup {NoEntry}] /\ \A j \in Used : codes[j] \in Entry
  BY <1>1 DEF DeviceInv, TypeOK, Used
<1>3. /\ codes' \in [1 .. Capacity -> Entry \cup {NoEntry}]
      /\ \A j \in Used' : j \in Used /\ codes'[j] = IF j = i THEN codes[count] ELSE codes[j]
  BY <1>1, <1>2
<1>4. count \in Used /\ \A j \in Used' : j # count BY <1>2
<1>5. Genuine(codes[i]) /\ codes[i] \in Entry /\ ~Served(d) BY <1>1, <1>2 DEF DeviceInv, Entries
<1>6. InLife(d)
  <2>1. clock \in Nat /\ codes[i].exp \in Nat BY <1>5 DEF DeviceInv, TypeOK, Entry
  <2>2. clock < codes[i].exp BY <1>1, <2>1 DEF Live
  <2> QED BY <1>1, <1>5, <2>2 DEF Genuine, InLife
<1>7. s \in Subject \cup {None} /\ s \in verified[d] \cup {None}
  BY <1>1, <1>5 DEF Genuine, Entry
<1> DEFINE t == [dev |-> d, sub |-> s, late |-> ~InLife(d)]
<1>8. /\ t \in [dev : Device, sub : Subject \cup {ClientId, None}, late : BOOLEAN]
      /\ t.dev = d /\ t.sub = s /\ t.late = ~InLife(d)
  BY <1>7
<1>t. tokens' = Append(tokens, t) BY <1>1
<1> HIDE DEF t
<1>9. /\ tokens' \in Seq([dev : Device, sub : Subject \cup {ClientId, None}, late : BOOLEAN])
      /\ \A c : Served(c)' <=> Served(c) \/ c = d
      /\ TokenNeedsVerification' /\ RedeemedOnce'
  BY <1>1, <1>5, <1>6, <1>7, <1>8, <1>t, OneMoreToken DEF DeviceInv
<1>10. TypeOK'
  <2>1. count' \in 0 .. Capacity BY <1>1, <1>2
  <2>2. \A j \in Used' : codes'[j] \in Entry BY <1>2, <1>3, <1>4
  <2> QED BY <1>1, <1>3, <1>9, <2>1, <2>2 DEF DeviceInv, TypeOK
<1>11. \A j \in Used' : \E m \in Used \ {i} : codes'[j] = codes[m] /\ m = IF j = i THEN count ELSE j
  BY <1>3, <1>4
<1>14. Entries'
  <2>1. ASSUME NEW j \in Used' PROVE Genuine(codes[j])' /\ ~Served(codes[j].dev)'
    <3>1. PICK m \in Used \ {i} : codes'[j] = codes[m] BY <1>11
    <3>2. Genuine(codes[m]) /\ ~Served(codes[m].dev) /\ codes[m].dev # d
      BY <1>1 DEF DeviceInv, Entries
    <3> QED BY <1>1, <1>9, <3>1, <3>2 DEF Genuine
  <2>2. \A j, k \in Used' : codes'[j].dev = codes'[k].dev => j = k
    <3> SUFFICES ASSUME NEW j \in Used', NEW k \in Used', codes'[j].dev = codes'[k].dev PROVE j = k
      OBVIOUS
    <3>1. PICK m \in Used \ {i} : codes'[j] = codes[m] /\ m = IF j = i THEN count ELSE j BY <1>11
    <3>2. PICK n \in Used \ {i} : codes'[k] = codes[n] /\ n = IF k = i THEN count ELSE k BY <1>11
    <3>3. m = n BY <3>1, <3>2 DEF DeviceInv, Entries
    <3> QED BY <1>4, <3>1, <3>2, <3>3
  <2> QED BY <2>1, <2>2 DEF Entries
<1>15. Remembered'
  <2> SUFFICES ASSUME NEW c \in Device, InLife(c)', ~Served(c)' PROVE \E j \in Used' : codes'[j].dev = c
    BY DEF Remembered
  <2>1. InLife(c) /\ ~Served(c) /\ c # d BY <1>1, <1>9 DEF InLife
  <2>2. PICK m \in Used : codes[m].dev = c BY <2>1 DEF DeviceInv, Remembered
  <2>3. m # i BY <1>1, <2>1, <2>2
  <2>4. CASE m = count
    <3>1. i \in Used' BY <1>2, <2>3, <2>4
    <3> QED BY <1>3, <2>2, <2>4, <3>1
  <2>5. CASE m # count
    <3>1. m \in Used' BY <1>2, <2>5
    <3> QED BY <1>3, <2>2, <2>3, <3>1
  <2> QED BY <2>4, <2>5
<1>16. Homes'
  <2>1. issued[d] # Never BY <1>6 DEF InLife
  <2> QED BY <1>1, <1>9, <2>1 DEF DeviceInv, Homes
<1> QED BY <1>9, <1>10, <1>14, <1>15, <1>16 DEF DeviceInv

(* Asking the provider for a pair, and signing in there, concerns a device  *)
(* that has no entry and no token.                                          *)
LEMMA ProviderStep ==
  ASSUME DeviceInv, NEW d \in Device, ProxyIssue(d) \/ \E s \in Subject : Grant(d, s)
  PROVE  DeviceInv'
<1>1. issued[d] = Never /\ idp[d] \in {"none", "pending"} /\ ~Served(d)
  BY DEF ProxyIssue, Grant, DeviceInv, Homes
<1>2. UNCHANGED <<clock, codes, count, issued, tokens>> BY DEF ProxyIssue, Grant
<1>3. /\ idp' \in [Device -> {"none", "pending", "used"} \cup Subject]
      /\ verified' \in [Device -> SUBSET (Subject \cup {ClientId})]
      /\ \A c \in Device \ {d} : idp'[c] = idp[c] /\ verified'[c] = verified[c]
      /\ idp'[d] \in Subject => verified'[d] = {idp'[d], ClientId}
  <2>1. CASE ProxyIssue(d) BY <2>1 DEF ProxyIssue, DeviceInv, TypeOK
  <2>2. CASE \E s \in Subject : Grant(d, s) BY <2>2 DEF Grant, DeviceInv, TypeOK
  <2> QED BY <2>1, <2>2
<1>4. TypeOK' BY <1>2, <1>3 DEF DeviceInv, TypeOK, Used
<1>5. \A c : Served(c)' = Served(c) /\ InLife(c)' = InLife(c) BY <1>2 DEF Served, InLife
<1>6. \A i \in Used : codes[i].dev \in Device \ {d}
  BY <1>1 DEF DeviceInv, TypeOK, Entries, Genuine, Entry
<1>7. Entries'
  <2>1. \A i \in Used : Genuine(codes[i])'
    BY <1>2, <1>3, <1>6 DEF DeviceInv, Entries, Genuine
  <2> QED BY <1>2, <1>5, <2>1 DEF DeviceInv, Entries, Used
<1>8. Remembered' BY <1>2, <1>5 DEF DeviceInv, Remembered, Used
<1>9. Homes' BY <1>1, <1>2, <1>3, <1>5 DEF DeviceInv, Homes
<1>10. TokenNeedsVerification'
  <2>1. \A n \in DOMAIN tokens : tokens[n].dev \in Device \ {d}
    BY <1>1, TokenDevices DEF DeviceInv, Served
  <2> QED BY <1>2, <1>3, <2>1 DEF DeviceInv, TokenNeedsVerification
<1>11. RedeemedOnce' BY <1>2 DEF DeviceInv, RedeemedOnce
<1> QED BY <1>4, <1>7, <1>8, <1>9, <1>10, <1>11 DEF DeviceInv

(* The provider answers for a device once. *)
LEMMA ProxyRedeemStep ==
  ASSUME DeviceInv, NEW d \in Device, ProxyRedeem(d)
  PROVE  DeviceInv'
<1>1. PICK s \in {idp[d], ClientId, None} : tokens' = Append(tokens, [dev |-> d, sub |-> s, late |-> FALSE])
  BY DEF ProxyRedeem
<1>2. /\ idp[d] \in Subject /\ idp' = [idp EXCEPT ![d] = "used"]
      /\ UNCHANGED <<clock, codes, count, issued, verified>>
  BY DEF ProxyRedeem
<1>3. issued[d] = Never /\ ~Served(d) /\ verified[d] = {idp[d], ClientId}
  BY <1>2 DEF DeviceInv, Homes
<1> DEFINE t == [dev |-> d, sub |-> s, late |-> FALSE]
<1>4. /\ t \in [dev : Device, sub : Subject \cup {ClientId, None}, late : BOOLEAN]
      /\ t.dev = d /\ t.sub = s /\ ~t.late
  BY <1>2
<1>5. tokens' = Append(tokens, t) BY <1>1
<1> HIDE DEF t
<1>6. /\ tokens' \in Seq([dev : Device, sub : Subject \cup {ClientId, None}, late : BOOLEAN])
      /\ \A c : Served(c)' <=> Served(c) \/ c = d
      /\ TokenNeedsVerification' /\ RedeemedOnce'
  BY <1>2, <1>3, <1>4, <1>5, OneMoreToken DEF DeviceInv
<1>7. TypeOK'
  <2>1. idp' \in [Device -> {"none", "pending", "used"} \cup Subject] BY <1>2 DEF DeviceInv, TypeOK
  <2> QED BY <1>2, <1>6, <2>1 DEF DeviceInv, TypeOK, Used
<1>8. \A i \in Used : codes[i].dev # d BY <1>3 DEF DeviceInv, Entries, Genuine
<1>9. Entries'
  <2>1. \A i \in Used : Genuine(codes[i])' BY <1>2 DEF DeviceInv, Entries, Genuine
  <2> QED BY <1>2, <1>6, <1>8, <2>1 DEF DeviceInv, Entries, Used
<1>10. Remembered' BY <1>2, <1>6 DEF DeviceInv, Remembered, Used, InLife
<1>11. Homes' BY <1>2, <1>3, <1>6 DEF DeviceInv, Homes, TypeOK
<1> QED BY <1>6, <1>7, <1>9, <1>10, <1>11 DEF DeviceInv

(* Time only ends lives. *)
LEMMA TickStep == DeviceInv /\ Tick => DeviceInv'
<1> SUFFICES ASSUME DeviceInv, Tick PROVE DeviceInv'
  OBVIOUS
<1>1. clock \in Nat /\ clock' = clock + 1 /\ UNCHANGED <<codes, count, issued, verified, idp, tokens>>
  BY DEF Tick, DeviceInv, TypeOK
<1>2. TypeOK' BY <1>1 DEF Tick, DeviceInv, TypeOK, Used
<1>3. \A d : Served(d)' = Served(d) BY <1>1 DEF Served
<1>4. \A d \in Device : InLife(d)' => InLife(d) BY <1>1 DEF InLife, DeviceInv, TypeOK, Never
<1>5. Entries'
  <2>1. \A i \in Used : Genuine(codes[i])' BY <1>1 DEF DeviceInv, Entries, Genuine
  <2> QED BY <1>1, <1>3, <2>1 DEF DeviceInv, Entries, Used
<1>6. Remembered' BY <1>1, <1>3, <1>4 DEF DeviceInv, Remembered, Used
<1>7. Homes' /\ TokenNeedsVerification' /\ RedeemedOnce'
  BY <1>1, <1>3 DEF DeviceInv, Homes, TokenNeedsVerification, RedeemedOnce
<1> QED BY <1>2, <1>5, <1>6, <1>7 DEF DeviceInv

(* No codes, no tokens, no time passed. *)
LEMMA DeviceInvInit == Init => DeviceInv
<1> SUFFICES ASSUME Init PROVE DeviceInv
  OBVIOUS
<1>1. TypeOK BY DEF Init, TypeOK, Used
<1>2. Used = {} BY DEF Init, Used
<1>3. \A d : ~Served(d) BY DEF Init, Served
<1>4. Entries BY <1>2 DEF Entries
<1>5. Homes /\ Remembered BY <1>3 DEF Init, Homes, Remembered, InLife
<1>6. TokenNeedsVerification /\ RedeemedOnce BY DEF Init, TokenNeedsVerification, RedeemedOnce
<1> QED BY <1>1, <1>4, <1>5, <1>6 DEF DeviceInv

(* The inductive invariant holds throughout. *)
LEMMA DeviceInvariant == Spec => []DeviceInv
<1>1. DeviceInv /\ [Next]_vars => DeviceInv'
  <2> SUFFICES ASSUME DeviceInv, [Next]_vars PROVE DeviceInv'
    OBVIOUS
  <2>1. CASE UNCHANGED vars
    <3>1. UNCHANGED <<clock, codes, count, issued, verified, idp, tokens>> BY <2>1 DEF vars
    <3>2. \A d : Served(d)' = Served(d) /\ InLife(d)' = InLife(d) BY <3>1 DEF Served, InLife
    <3>3. \A i \in Used : Genuine(codes[i])' = Genuine(codes[i]) BY <3>1 DEF Genuine
    <3> QED BY <3>1, <3>2, <3>3
        DEF DeviceInv, TypeOK, Entries, Homes, Remembered, TokenNeedsVerification, RedeemedOnce, Used
  <2> QED BY <2>1, IssueRefusedStep, IssueStep, VerifyStep, RedeemStep, ProviderStep, ProxyRedeemStep, TickStep
      DEF Next
<1> QED BY DeviceInvInit, <1>1, PTL DEF Spec

-----------------------------------------------------------------------------
(* However codes are issued, verified, redeemed and pruned, the slots of    *)
(* device_codes in use hold entries and never more than fit.                *)
THEOREM DeviceTypes == Spec => []TypeOK
<1>1. DeviceInv => TypeOK BY DEF DeviceInv
<1> QED BY DeviceInvariant, <1>1, PTL

(* handle_auth_device_token makes a token only for a subject who verified   *)
(* the user code of that very device in the life of the pair.               *)
THEOREM TokensAreVerified == Spec => []TokenNeedsVerification
<1>1. DeviceInv => TokenNeedsVerification BY DEF DeviceInv
<1> QED BY DeviceInvariant, <1>1, PTL

(* No device code yields two tokens, though a provider that fails in        *)
(* between sends the device to the array.                                   *)
THEOREM CodesAreRedeemedOnce == Spec => []RedeemedOnce
<1>1. DeviceInv => RedeemedOnce BY DEF DeviceInv
<1> QED BY DeviceInvariant, <1>1, PTL

(* Pruning and the swap in the removal of another entry lose no pair of     *)
(* codes that still counts, and double none.                                *)
THEOREM CodesAreRemembered == Spec => []CodesRemembered
<1>1. DeviceInv => CodesRemembered
  <2> SUFFICES ASSUME DeviceInv, NEW d \in Device, InLife(d), ~Served(d)
               PROVE  Cardinality({i \in Used : codes[i].dev = d}) = 1
    BY DEF CodesRemembered, Served
  <2>1. PICK i \in Used : codes[i].dev = d BY DEF DeviceInv, Remembered
  <2>2. {j \in Used : codes[j].dev = d} = {i} BY <2>1 DEF DeviceInv, Entries
  <2> QED BY <2>2, FS_Singleton
<1> QED BY DeviceInvariant, <1>1, PTL
=============================================================================
