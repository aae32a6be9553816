---------------------------- MODULE TokensProofs ----------------------------
(* Proofs about modules Grants and Tokens, for every set of subjects,       *)
(* policies and concurrent requests: what the walk over the grants of a     *)
(* token decides (the law of module Algorithms), what a token may contain,  *)
(* and what it may be used for.                                             *)
EXTENDS Tokens, Algorithms, CompactionProofs, SequenceTheorems

(* One more round of the walk: f is the walk up to m. *)
WalkTo(f, m, grants, g) ==
  f = [n \in 0 .. m |-> IF n = 0 THEN NoMatch ELSE BetterMatch(g, f[n - 1], grants[n])]

(* The walk over the grants is defined: each round has its best match.      *)
LEMMA WalkDefined ==
  ASSUME NEW grants, NEW g, Len(grants) \in Nat
  PROVE  /\ Walk(grants, g)[0] = NoMatch
         /\ \A n \in 1 .. Len(grants) :
              Walk(grants, g)[n] = BetterMatch(g, Walk(grants, g)[n - 1], grants[n])
<1> DEFINE S == {m \in 0 .. Len(grants) : \E f : WalkTo(f, m, grants, g)}
<1>1. 0 \in S
  <2> DEFINE f == [n \in 0 .. 0 |-> NoMatch]
  <2>1. f = [n \in 0 .. 0 |-> IF n = 0 THEN NoMatch ELSE BetterMatch(g, f[n - 1], grants[n])]
    OBVIOUS
  <2> HIDE DEF f
  <2>2. WalkTo(f, 0, grants, g) BY <2>1 DEF WalkTo
  <2> QED BY <2>2
<1>2. ASSUME NEW m \in 1 .. Len(grants), m - 1 \in S PROVE m \in S
  <2>1. PICK f : WalkTo(f, m - 1, grants, g) BY <1>2
  <2>2. /\ m \in Nat /\ m - 1 \in Nat
        /\ \A n \in 0 .. m : n # m => n \in 0 .. m - 1
        /\ \A n \in 0 .. m : n # 0 => n - 1 \in 0 .. m - 1 /\ n - 1 # m
    OBVIOUS
  <2> DEFINE h == [n \in 0 .. m |-> IF n = m THEN BetterMatch(g, f[m - 1], grants[m]) ELSE f[n]]
             h2 == [n \in 0 .. m |-> IF n = 0 THEN NoMatch ELSE BetterMatch(g, h[n - 1], grants[n])]
  <2>3. ASSUME NEW n \in 0 .. m PROVE h[n] = h2[n]
    <3>1. n # 0 => h[n - 1] = f[n - 1] BY <2>2
    <3>2. CASE n = m
      <4>1. n # 0 /\ h[n] = BetterMatch(g, f[n - 1], grants[n]) BY <3>2
      <4> QED BY <3>1, <4>1
    <3>3. CASE n # m
      <4>1. n \in 0 .. m - 1 /\ h[n] = f[n] BY <2>2, <3>3
      <4>2. f[n] = IF n = 0 THEN NoMatch ELSE BetterMatch(g, f[n - 1], grants[n])
        BY <2>1, <4>1 DEF WalkTo
      <4> QED BY <3>1, <4>1, <4>2
    <3> QED BY <3>2, <3>3
  <2>4. h = h2 BY <2>3
  <2>5. WalkTo(h, m, grants, g)
    <3>1. h2 = [n \in 0 .. m |-> IF n = 0 THEN NoMatch ELSE BetterMatch(g, h[n - 1], grants[n])] OBVIOUS
    <3> HIDE DEF h, h2
    <3> QED BY <2>4, <3>1 DEF WalkTo
  <2> HIDE DEF h
  <2> QED BY <2>5
<1>3. S = 0 .. Len(grants)
  <2>1. S \in SUBSET (0 .. Len(grants)) OBVIOUS
  <2> HIDE DEF S
  <2> QED BY <1>1, <1>2, <2>1, EveryRound
<1>4. \E f : WalkTo(f, Len(grants), grants, g)
  <2>1. Len(grants) \in S BY <1>3
  <2> QED BY <2>1
<1>5. WalkTo(Walk(grants, g), Len(grants), grants, g) BY <1>4 DEF Walk, WalkTo
<1> DEFINE w == Walk(grants, g)
<1>6. w = [n \in 0 .. Len(grants) |-> IF n = 0 THEN NoMatch ELSE BetterMatch(g, w[n - 1], grants[n])]
  BY <1>5 DEF WalkTo
<1> HIDE DEF w
<1>7. w[0] = NoMatch
  <2>1. 0 \in 0 .. Len(grants) OBVIOUS
  <2> QED BY <1>6, <2>1
<1>8. ASSUME NEW n \in 1 .. Len(grants) PROVE w[n] = BetterMatch(g, w[n - 1], grants[n])
  <2>1. n \in 0 .. Len(grants) /\ n # 0 OBVIOUS
  <2> QED BY <1>6, <2>1
<1> QED BY <1>7, <1>8 DEF w

(* The permissions found come from a grant that covers the group, or from   *)
(* the star, or there are none.                                             *)
LEMMA BestIsGranted ==
  ASSUME NEW grants, NEW g, Len(grants) \in Nat, NEW op \in BestMatch(grants, g).ops
  PROVE  \E i \in 1 .. Len(grants) :
           op \in grants[i].ops /\ (grants[i].key = Star \/ Covers(grants[i].key, g))
<1> DEFINE w == Walk(grants, g)
           Source(n) == op \in w[n].ops =>
                          \E i \in 1 .. Len(grants) :
                            op \in grants[i].ops /\ (grants[i].key = Star \/ Covers(grants[i].key, g))
           S == {n \in 0 .. Len(grants) : Source(n)}
<1>1. w[0] = NoMatch /\ \A n \in 1 .. Len(grants) : w[n] = BetterMatch(g, w[n - 1], grants[n])
  BY WalkDefined
<1> HIDE DEF w
<1>2. 0 \in S BY <1>1 DEF NoMatch
<1>3. ASSUME NEW n \in 1 .. Len(grants), n - 1 \in S PROVE n \in S
  <2>1. w[n] = BetterMatch(g, w[n - 1], grants[n]) BY <1>1
  <2>2. CASE w[n] = w[n - 1] BY <1>3, <2>2
  <2>3. CASE w[n] # w[n - 1]
    <3>1. w[n].ops = grants[n].ops /\ (grants[n].key = Star \/ Covers(grants[n].key, g))
      BY <2>1, <2>3 DEF BetterMatch
    <3> QED BY <3>1
  <2> QED BY <2>2, <2>3
<1>4. S = 0 .. Len(grants)
  <2>1. S \in SUBSET (0 .. Len(grants)) OBVIOUS
  <2> HIDE DEF S
  <2> QED BY <1>2, <1>3, <2>1, EveryRound
<1>5. Source(Len(grants)) BY <1>4
<1>6. op \in w[Len(grants)].ops BY DEF BestMatch, w
<1> QED BY <1>5, <1>6

(* A key with at least one segment covers a group exactly if it is one of   *)
(* the beginnings of its name.                                              *)
LEMMA CoversPrefix ==
  ASSUME NEW g \in Group, NEW key, IsKey(key)
  PROVE  /\ Covers(key, g) => /\ Len(key) \in 1 .. Len(g)
                              /\ key = SubSeq(g, 1, Len(key))
         /\ \A n \in 1 .. Len(g) : key = SubSeq(g, 1, n) => Covers(key, g) /\ Len(key) = n
<1>1. g \in Seq(Range(g)) /\ Len(g) \in Nat /\ \A n \in 1 .. Len(g) : SubSeq(g, 1, n) # Star
  BY ClaimShapes
<1>2. ASSUME Covers(key, g) PROVE Len(key) \in 1 .. Len(g) /\ key = SubSeq(g, 1, Len(key))
  <2>1. key \in Seq(Range(key)) /\ Len(key) > 0 /\ Len(key) \in Nat BY <1>2 DEF Covers, IsKey
  <2>2. Len(key) <= Len(g) /\ SubSeq(key, 1, Len(key)) = SubSeq(g, 1, Len(key))
    BY <1>2 DEF Covers, IsPrefix
  <2>3. SubSeq(key, 1, Len(key)) = key BY <2>1, SubSeqFull
  <2> QED BY <1>1, <2>1, <2>2, <2>3
<1>3. ASSUME NEW n \in 1 .. Len(g), key = SubSeq(g, 1, n) PROVE Covers(key, g) /\ Len(key) = n
  <2>1. key # Star BY <1>1, <1>3
  <2>2. key \in Seq(Range(key)) BY <2>1 DEF IsKey
  <2>3. n \in Int /\ 1 \in Int /\ \A i \in 1 .. n : g[i] \in Range(g)
    <3>1. \A i \in 1 .. n : i \in 1 .. Len(g) BY <1>1
    <3> QED BY <1>1, <3>1, ElementOfSeq
  <2>4. Len(SubSeq(g, 1, n)) = IF 1 <= n THEN n - 1 + 1 ELSE 0
    BY ONLY <2>3, SubSeqProperties
  <2>5. Len(key) = n BY <1>1, <1>3, <2>3, <2>4
  <2>6. SubSeq(key, 1, Len(key)) = key BY <2>2, SubSeqFull
  <2>7. Len(key) <= Len(g) /\ SubSeq(key, 1, Len(key)) = SubSeq(g, 1, Len(key))
    BY <1>1, <1>3, <2>5, <2>6
  <2> QED BY <2>1, <2>5, <2>7 DEF Covers, IsPrefix
<1> QED BY <1>2, <1>3

(* What the walk has found after n of the grants: the longest key that      *)
(* covers the group; as long as there is none, the star's permissions.      *)
Longest(grants, g, n, b) ==
  /\ b.len \in Nat
  /\ \A i \in 1 .. n : Covers(grants[i].key, g) => Len(grants[i].key) <= b.len
  /\ b.len > 0 => \E i \in 1 .. n : /\ Covers(grants[i].key, g) /\ Len(grants[i].key) = b.len
                                    /\ b.ops = grants[i].ops
  /\ b.len = 0 => \/ \E i \in 1 .. n : grants[i].key = Star /\ b.ops = grants[i].ops
                  \/ b.ops = {} /\ \A i \in 1 .. n : grants[i].key # Star

LEMMA WalkFindsLongest ==
  ASSUME NEW g \in Group, NEW grants \in GrantList
  PROVE  Len(grants) \in Nat /\ Longest(grants, g, Len(grants), BestMatch(grants, g))
<1> DEFINE w == Walk(grants, g)
           N == Len(grants)
           S == {n \in 0 .. N : Longest(grants, g, n, w[n])}
<1>0. /\ grants \in Seq(Range(grants)) /\ N \in Nat /\ DOMAIN grants = 1 .. N
      /\ \A i \in 1 .. N : IsKey(grants[i].key)
  BY ClaimShapes
<1>1. w[0] = NoMatch /\ \A n \in 1 .. N : w[n] = BetterMatch(g, w[n - 1], grants[n])
  BY <1>0, WalkDefined
<1> HIDE DEF w, N
<1>2. 0 \in S
  <2>1. Longest(grants, g, 0, NoMatch) BY DEF Longest, NoMatch
  <2> QED BY <1>0, <1>1, <2>1
<1>3. ASSUME NEW n \in 1 .. N, n - 1 \in S PROVE n \in S
  <2> DEFINE b == w[n - 1]
             k == grants[n].key
  <2>1. /\ w[n] = BetterMatch(g, b, grants[n]) /\ Longest(grants, g, n - 1, b)
        /\ n \in Nat /\ n \in 1 .. n /\ n \in 0 .. N
        /\ \A i \in 1 .. n : i # n => i \in 1 .. n - 1
        /\ \A i \in 1 .. n - 1 : i \in 1 .. n
    BY <1>0, <1>1, <1>3
  <2>2. Covers(k, g) => Len(k) \in Nat /\ Len(k) > 0
    <3>1. IsKey(k) BY <1>0, <1>3
    <3> QED BY <3>1 DEF IsKey, Covers
  <2>3. b.len \in Nat BY <2>1 DEF Longest
  <2> HIDE DEF b
  <2> SUFFICES Longest(grants, g, n, w[n]) BY <2>1
  <2>4. CASE k = Star /\ b.len = 0
    <3>1. w[n] = [found |-> TRUE, ops |-> grants[n].ops, len |-> 0] BY <2>1, <2>4 DEF BetterMatch
    <3>2. w[n].len = 0 /\ w[n].ops = grants[n].ops BY <3>1
    <3>3. ~Covers(k, g) BY <2>4 DEF Covers
    <3>4. \A i \in 1 .. n : Covers(grants[i].key, g) => Len(grants[i].key) <= 0
      BY <2>1, <2>4, <3>3 DEF Longest
    <3> QED BY <2>1, <2>4, <3>2, <3>4 DEF Longest
  <2>5. CASE ~(k = Star /\ b.len = 0) /\ Covers(k, g) /\ Len(k) > b.len
    <3>1. w[n] = [found |-> TRUE, ops |-> grants[n].ops, len |-> Len(k)]
      BY <2>1, <2>5 DEF BetterMatch
    <3>2. w[n].len = Len(k) /\ w[n].ops = grants[n].ops BY <3>1
    <3>3. ASSUME NEW i \in 1 .. n, Covers(grants[i].key, g) PROVE Len(grants[i].key) <= Len(k)
      <4>1. CASE i = n BY <2>2, <2>5, <4>1
      <4>2. CASE i # n
        <5>1. i \in 1 .. N BY <1>0, <2>1
        <5>2. IsKey(grants[i].key) BY <1>0, <5>1
        <5>3. Len(grants[i].key) \in Nat BY <3>3, <5>2 DEF IsKey, Covers
        <5>4. Len(grants[i].key) <= b.len BY <2>1, <3>3, <4>2 DEF Longest
        <5> QED BY <2>2, <2>3, <2>5, <5>3, <5>4
      <4> QED BY <4>1, <4>2
    <3>4. Len(k) \in Nat /\ Len(k) > 0 BY <2>2, <2>5
    <3>5. \E i \in 1 .. n : /\ Covers(grants[i].key, g) /\ Len(grants[i].key) = w[n].len
                            /\ w[n].ops = grants[i].ops
      BY <2>1, <2>5, <3>2
    <3> QED BY <3>2, <3>3, <3>4, <3>5 DEF Longest
  <2>6. CASE ~(k = Star /\ b.len = 0) /\ ~(Covers(k, g) /\ Len(k) > b.len)
    <3>1. w[n] = b BY <2>1, <2>6 DEF BetterMatch
    <3>2. Covers(k, g) => Len(k) <= b.len BY <2>2, <2>3, <2>6
    <3>3. \A i \in 1 .. n : Covers(grants[i].key, g) => Len(grants[i].key) <= b.len
      BY <2>1, <3>2 DEF Longest
    <3>4. b.len > 0 => \E i \in 1 .. n : /\ Covers(grants[i].key, g) /\ Len(grants[i].key) = b.len
                                         /\ b.ops = grants[i].ops
      BY <2>1 DEF Longest
    <3>5. b.len = 0 => \/ \E i \in 1 .. n : grants[i].key = Star /\ b.ops = grants[i].ops
                       \/ b.ops = {} /\ \A i \in 1 .. n : grants[i].key # Star
      <4> SUFFICES ASSUME b.len = 0
                   PROVE  \/ \E i \in 1 .. n : grants[i].key = Star /\ b.ops = grants[i].ops
                          \/ b.ops = {} /\ \A i \in 1 .. n : grants[i].key # Star
        OBVIOUS
      <4>1. k # Star BY <2>6
      <4>2. \/ \E i \in 1 .. n - 1 : grants[i].key = Star /\ b.ops = grants[i].ops
            \/ b.ops = {} /\ \A i \in 1 .. n - 1 : grants[i].key # Star
        BY <2>1 DEF Longest
      <4> QED BY <2>1, <4>1, <4>2
    <3> QED BY <2>3, <3>1, <3>3, <3>4, <3>5 DEF Longest
  <2> QED BY <2>4, <2>5, <2>6
<1>4. S = 0 .. N
  <2>1. S \in SUBSET (0 .. N) OBVIOUS
  <2> HIDE DEF S
  <2> QED BY <1>0, <1>2, <1>3, <2>1, EveryRound
<1>5. Longest(grants, g, N, w[N])
  <2>1. N \in S BY <1>0, <1>4
  <2> QED BY <2>1
<1> QED BY <1>0, <1>5 DEF BestMatch, w, N

(* The walk decides as the question does without a walk: the longest key    *)
(* that covers the group, or the star.  No two keys of the same length      *)
(* cover a group, so that the order of the grants does not matter.          *)
LEMMA LongestDecides ==
  ASSUME NEW g \in Group, NEW gs \in GrantList, NEW op
  PROVE  LET cover == {gr \in Range(gs) : gr.key # Star /\ IsPrefix(gr.key, g)} IN
         op \in BestMatch(gs, g).ops <=>
           \/ \E gr \in cover : op \in gr.ops /\ \A x \in cover : Len(x.key) <= Len(gr.key)
           \/ cover = {} /\ \E gr \in Range(gs) : gr.key = Star /\ op \in gr.ops
<1> DEFINE cover == {gr \in Range(gs) : gr.key # Star /\ IsPrefix(gr.key, g)}
           b == BestMatch(gs, g)
           N == Len(gs)
<1>0. /\ N \in Nat /\ DOMAIN gs = 1 .. N
      /\ \A i \in 1 .. N : IsKey(gs[i].key)
      /\ \A i, j \in 1 .. N : gs[i].key = gs[j].key => i = j
  BY ClaimShapes
<1>1. Longest(gs, g, N, b) BY WalkFindsLongest
<1>2. Range(gs) = {gs[i] : i \in 1 .. N} BY <1>0 DEF Range
<1>3. cover = {gs[i] : i \in {j \in 1 .. N : Covers(gs[j].key, g)}} BY <1>2 DEF Covers
<1>4. \A i \in 1 .. N : Covers(gs[i].key, g) =>
        /\ Len(gs[i].key) \in Nat /\ Len(gs[i].key) >= 1
        /\ gs[i].key = SubSeq(g, 1, Len(gs[i].key))
  <2> SUFFICES ASSUME NEW i \in 1 .. N, Covers(gs[i].key, g)
               PROVE  /\ Len(gs[i].key) \in Nat /\ Len(gs[i].key) >= 1
                      /\ gs[i].key = SubSeq(g, 1, Len(gs[i].key))
    OBVIOUS
  <2>1. IsKey(gs[i].key) BY <1>0
  <2>2. Len(gs[i].key) \in 1 .. Len(g) /\ gs[i].key = SubSeq(g, 1, Len(gs[i].key))
    BY <2>1, CoversPrefix
  <2>3. Len(g) \in Nat BY ClaimShapes
  <2> QED BY <2>2, <2>3
<1>5. b.len \in Nat BY <1>1 DEF Longest
<1> HIDE DEF b, N, cover
<1>6. CASE b.len > 0
  <2>1. PICK i \in 1 .. N : Covers(gs[i].key, g) /\ Len(gs[i].key) = b.len /\ b.ops = gs[i].ops
    BY <1>1, <1>6 DEF Longest
  <2>2. gs[i] \in cover /\ cover # {} BY <1>3, <2>1
  <2>3. \A x \in cover : Len(x.key) <= Len(gs[i].key) BY <1>1, <1>3, <2>1 DEF Longest
  <2>4. ASSUME NEW gr \in cover, \A x \in cover : Len(x.key) <= Len(gr.key) PROVE gr = gs[i]
    <3>1. PICK j \in 1 .. N : Covers(gs[j].key, g) /\ gr = gs[j] BY <1>3
    <3>2. Len(gs[j].key) <= Len(gs[i].key) /\ Len(gs[i].key) <= Len(gs[j].key)
      BY <2>2, <2>3, <2>4, <3>1
    <3>3. Len(gs[j].key) = Len(gs[i].key) BY <1>4, <2>1, <3>1, <3>2
    <3>4. gs[j].key = gs[i].key BY <1>4, <2>1, <3>1, <3>3
    <3> QED BY <1>0, <3>1, <3>4
  <2>5. op \in b.ops <=> \E gr \in cover : op \in gr.ops /\ \A x \in cover : Len(x.key) <= Len(gr.key)
    BY <2>1, <2>2, <2>3, <2>4
  <2> QED BY <2>2, <2>5 DEF b, cover
<1>7. CASE b.len = 0
  <2>1. cover = {}
    <3> SUFFICES ASSUME NEW i \in 1 .. N, Covers(gs[i].key, g) PROVE FALSE BY <1>3
    <3>1. Len(gs[i].key) <= 0 BY <1>1, <1>7 DEF Longest
    <3> QED BY <1>4, <3>1
  <2>2. op \in b.ops <=> \E i \in 1 .. N : gs[i].key = Star /\ op \in gs[i].ops
    <3>1. CASE \E i \in 1 .. N : gs[i].key = Star /\ b.ops = gs[i].ops
      <4>1. PICK i \in 1 .. N : gs[i].key = Star /\ b.ops = gs[i].ops BY <3>1
      <4>2. \A j \in 1 .. N : gs[j].key = Star => j = i BY <1>0, <4>1
      <4> QED BY <4>1, <4>2
    <3>2. CASE b.ops = {} /\ \A i \in 1 .. N : gs[i].key # Star BY <3>2
    <3> QED BY <1>1, <1>7, <3>1, <3>2 DEF Longest
  <2>3. (\E gr \in Range(gs) : gr.key = Star /\ op \in gr.ops)
          <=> \E i \in 1 .. N : gs[i].key = Star /\ op \in gs[i].ops
    BY <1>2
  <2> QED BY <2>1, <2>2, <2>3 DEF b, cover
<1> QED BY <1>5, <1>6, <1>7

(* An exclusion is one of the group or of a group above it.                 *)
LEMMA ExclusionsCover ==
  ASSUME NEW g \in Group, NEW ex \in ExcludeList
  PROVE  Excluded(ex, g) <=> \E n \in 1 .. Len(g) : SubSeq(g, 1, n) \in Range(ex)
<1>1. ex # None /\ \A key \in Range(ex) : IsKey(key) BY ClaimShapes DEF Range
<1>2. ASSUME NEW key \in Range(ex), Covers(key, g)
      PROVE  \E n \in 1 .. Len(g) : SubSeq(g, 1, n) \in Range(ex)
  <2>1. Len(key) \in 1 .. Len(g) /\ key = SubSeq(g, 1, Len(key)) BY <1>1, <1>2, CoversPrefix
  <2> QED BY <2>1
<1>3. ASSUME NEW n \in 1 .. Len(g), SubSeq(g, 1, n) \in Range(ex)
      PROVE  \E key \in Range(ex) : Covers(key, g)
  <2>1. IsKey(SubSeq(g, 1, n)) BY <1>1, <1>3
  <2>2. Covers(SubSeq(g, 1, n), g) BY <2>1, CoversPrefix
  <2> QED BY <1>3, <2>2
<1> QED BY <1>1, <1>2, <1>3 DEF Excluded

(* cookbook_auth_check on the claims of a token, and the same claims sent   *)
(* in headers to a peer where they fit: both decide by the longest key that *)
(* covers the group and by the exclusions, in whatever order they are       *)
(* listed.                                                                  *)
THEOREM GrantsDecide == AskSpec => []GrantLaw
<1> DEFINE Asked ==
      input.ask = "grant" => /\ input.grants \in GrantList \cup {None}
                             /\ input.exclude \in ExcludeList \cup {None}
                             /\ input.group \in Group
<1>1. AskInit => Asked BY DEF AskInit, Nothing
<1>2. Asked /\ [AskNext]_askVars => Asked'
  BY DEF AskNext, AskOrder, AskRange, AskGrant, RunStatement, askVars
<1>3. Asked => GrantLaw
  <2> SUFFICES ASSUME Asked, input.ask = "grant" PROVE GrantLaw BY DEF GrantLaw
  <2> DEFINE gs == input.grants
             ex == input.exclude
             g == input.group
             op == input.op
             list == IF ex = None THEN <<>> ELSE ex
  <2>1. gs \in GrantList \cup {None} /\ ex \in ExcludeList \cup {None} /\ g \in Group OBVIOUS
  <2> HIDE DEF gs, ex, g, op
  <2>2. Excluded(ex, g) <=> \E n \in 1 .. Len(g) : SubSeq(g, 1, n) \in Range(list)
    <3>1. CASE ex = None
      <4>1. Range(<<>>) = {} BY DEF Range
      <4> QED BY <3>1, <4>1 DEF Excluded
    <3>2. CASE ex # None BY <2>1, <3>2, ExclusionsCover
    <3> QED BY <3>1, <3>2
  <2> HIDE DEF list
  <2>3. gs # None => (op \in BestMatch(gs, g).ops /\ ~Excluded(ex, g) <=> Allowed(gs, list, g, op))
    BY <2>1, <2>2, LongestDecides DEF Allowed
  <2>4. AuthCheck(gs, ex, g, op) <=> gs # None /\ Allowed(gs, list, g, op)
    BY <2>3 DEF AuthCheck
  <2>5. AuthCheck(gs, ex, g, op) = (gs # None /\ Allowed(gs, list, g, op))
    BY <2>4, Zenon DEF AuthCheck
  <2>6. ASSUME gs \notin {None, <<>>}, Fits(gs, ex), NEW h \in GrantHeaders(2, gs, ex)
        PROVE  CheckGridAuth(h, g, op) = AuthCheck(gs, ex, g, op)
    <3>1. h = [grants |-> Header(gs), exclude |-> Header(ex), whole |-> TRUE]
      BY <2>6 DEF GrantHeaders
    <3>2. h.grants = gs /\ h.exclude = Header(ex) BY <2>6, <3>1 DEF Header
    <3>3. Excluded(Header(ex), g) <=> Excluded(ex, g)
      <4>1. CASE ex = <<>>
        <5>1. Range(<<>>) = {} BY DEF Range
        <5> QED BY <4>1, <5>1 DEF Excluded, Header
      <4>2. CASE ex # <<>> BY <4>2 DEF Header
      <4> QED BY <4>1, <4>2
    <3>4. CheckGridAuth(h, g, op) <=> AuthCheck(gs, ex, g, op)
      BY <2>6, <3>2, <3>3 DEF CheckGridAuth, AuthCheck
    <3> QED BY <3>4, Zenon DEF CheckGridAuth, AuthCheck
  <2> QED BY <2>5, <2>6 DEF GrantLaw, gs, ex, g, op, list
<1> QED BY <1>1, <1>2, <1>3, PTL DEF AskSpec

-----------------------------------------------------------------------------
USE TokensAssumption

Credential == [pw : Password, groups : SUBSET GroupId, revoked : BOOLEAN]

CredTable == [Subject -> Credential \cup {None}]

PolicyTable == [Name -> PolicyText \cup {None}]

ByPassword == {"basic", "local", "ldap"}

RequestState ==
  [pc : {"idle", "lookup", "ldap", "policy", "team", "issue"},
   via : ByPassword \cup {"none", "open", "oidc"},
   sub : Subject \cup {None}, pw : Password \cup {None}, groups : SUBSET GroupId,
   found : Seq(PolicyText), todo : Seq(Name), trouble : {"none", "read"},
   lives : SUBSET Credential,
   texts : SUBSET (Name \X (PolicyText \cup {None}))]

-----------------------------------------------------------------------------
(* What a request under way has noted is at least what the tables hold. *)
Watches(q) ==
  q.pc # "idle" =>
    q.sub \in Subject /\ LiveIn(cred, q.sub) \subseteq q.lives /\ TextsIn(policy) \subseteq q.texts

(* Where the groups of a request or token with a password come from. *)
Earned(x) ==
  \/ x.groups = {}
  \/ \E row \in x.lives : row.pw = x.pw /\ row.groups = x.groups
  \/ x.via # "basic" /\ LdapUser[x.sub] # None /\ LdapUser[x.sub].pw = x.pw

Authenticated(q) ==
  /\ q.pc = "ldap" => q.via \in {"local", "ldap"}
  /\ (q.pc \in {"policy", "team", "issue"} /\ q.via \in ByPassword) => Earned(q)

(* The teams named by the policies of the subject seen during a request. *)
TeamsOf(x) == UNION {Range(p.teams) : p \in During(x, x.sub) \ {None}}

(* The first text found is the subject's own, unless there was none or it   *)
(* could not be read.                                                       *)
OwnFirst(q) ==
  \/ q.trouble # "none" /\ q.found = <<>>
  \/ None \in During(q, q.sub)
  \/ 1 \in DOMAIN q.found /\ q.found[1] \in During(q, q.sub)

(* The policies a request has read, and those it has still to read: the     *)
(* subject's own and those of teams it names.                               *)
Reading(q) ==
  /\ q.pc \in {"lookup", "ldap", "policy"} => q.found = <<>> /\ q.trouble = "none"
  /\ q.pc = "team" => q.trouble = "none" /\ q.todo # <<>> /\ Range(q.todo) \subseteq TeamsOf(q)
  /\ q.pc \in {"team", "issue"} =>
       /\ \A p \in Range(q.found) :
            p \in During(q, q.sub) \/ \E n \in TeamsOf(q) : p \in During(q, n)
       /\ OwnFirst(q)

RequestOK(q) == Watches(q) /\ Authenticated(q) /\ Reading(q)

Tables ==
  /\ cred \in CredTable
  /\ policy \in PolicyTable
  /\ keys \in [KeyId -> [group : GroupRow, revoked : BOOLEAN, by : tokens] \cup {None}]
  /\ req \in [Request -> RequestState]
  /\ changes \in 0 .. MaxAdmin

(* The inductive invariant.  A token never changes, so the properties of    *)
(* tokens are inductive once those of the requests are there.               *)
TokensInv ==
  /\ Tables
  /\ \A r \in Request : RequestOK(req[r])
  /\ GroupsAreEarned
  /\ ClaimsFollowPolicies

-----------------------------------------------------------------------------
LEMMA IdleRequest ==
  /\ Idle \in RequestState /\ Idle.pc = "idle" /\ Idle.found = <<>> /\ Idle.trouble = "none"
  /\ RequestOK(Idle)
<1>1. Idle \in RequestState /\ Idle.pc = "idle" /\ Idle.found = <<>> /\ Idle.trouble = "none"
  BY DEF Idle, RequestState
<1> QED BY <1>1 DEF RequestOK, Watches, Authenticated, Reading

LEMMA TokensInvInit == Init => TokensInv
<1> SUFFICES ASSUME Init PROVE TokensInv
  OBVIOUS
<1>1. Tables BY IdleRequest DEF Init, Tables, CredTable, PolicyTable
<1>2. \A r \in Request : RequestOK(req[r]) BY IdleRequest DEF Init
<1>3. GroupsAreEarned BY DEF Init, GroupsAreEarned
<1>4. ClaimsFollowPolicies BY DEF Init, ClaimsFollowPolicies
<1> QED BY <1>1, <1>2, <1>3, <1>4 DEF TokensInv

(* A step that changes the state of one request only. *)
LEMMA RequestStep ==
  ASSUME TokensInv, NEW r \in Request, NEW q \in RequestState, RequestOK(q), Set(r, q),
         UNCHANGED <<cred, policy, keys, tokens, changes>>
  PROVE  TokensInv'
<1>1. req' = [req EXCEPT ![r] = q] /\ req \in [Request -> RequestState]
  BY DEF Set, TokensInv, Tables
<1>2. Tables' BY <1>1 DEF TokensInv, Tables
<1>3. ASSUME NEW x \in RequestState, RequestOK(x) PROVE RequestOK(x)'
  <2>1. Watches(x)' BY <1>3 DEF RequestOK, Watches, LiveIn, TextsIn
  <2>2. Authenticated(x)' BY <1>3 DEF RequestOK, Authenticated, Earned
  <2>3. Reading(x)' BY <1>3 DEF RequestOK, Reading, OwnFirst, TeamsOf, During
  <2> QED BY <2>1, <2>2, <2>3 DEF RequestOK
<1>4. ASSUME NEW u \in Request PROVE RequestOK(req[u])'
  <2>1. req'[u] \in RequestState /\ RequestOK(req'[u]) BY <1>1 DEF TokensInv
  <2> QED BY <1>3, <2>1
<1>5. GroupsAreEarned' BY DEF TokensInv, GroupsAreEarned
<1>6. ClaimsFollowPolicies' BY DEF TokensInv, ClaimsFollowPolicies, Follows, During
<1> QED BY <1>2, <1>4, <1>5, <1>6 DEF TokensInv
(* A request that ends without a token. *)
LEMMA RefuseStep ==
  ASSUME TokensInv, NEW r \in Request, Set(r, Idle),
         UNCHANGED <<cred, policy, keys, tokens, changes>>
  PROVE  TokensInv'
BY IdleRequest, RequestStep

(* What is noted of the tables is of the right type. *)
LEMMA NotesTyped ==
  ASSUME NEW c \in CredTable, NEW p \in PolicyTable, NEW s \in Subject
  PROVE  /\ LiveIn(c, s) \in SUBSET Credential
         /\ TextsIn(p) \in SUBSET (Name \X (PolicyText \cup {None}))
<1>1. c[s] \in Credential \cup {None} BY DEF CredTable
<1>2. LiveIn(c, s) \in SUBSET Credential BY <1>1 DEF LiveIn
<1>3. \A n \in Name : p[n] \in PolicyText \cup {None} BY DEF PolicyTable
<1>4. TextsIn(p) \in SUBSET (Name \X (PolicyText \cup {None})) BY <1>3 DEF TextsIn
<1> QED BY <1>2, <1>4

(* More notes keep what a request relies on. *)
LEMMA NotesGrow ==
  ASSUME NEW q, NEW x, Authenticated(q), Reading(q),
         x.pc = q.pc, x.via = q.via, x.sub = q.sub, x.pw = q.pw, x.groups = q.groups,
         x.found = q.found, x.todo = q.todo, x.trouble = q.trouble,
         q.lives \subseteq x.lives, q.texts \subseteq x.texts
  PROVE  Authenticated(x) /\ Reading(x)
<1>1. Authenticated(x) BY DEF Authenticated, Earned
<1>2. \A n : During(q, n) \subseteq During(x, n) BY DEF During
<1>3. TeamsOf(q) \subseteq TeamsOf(x) BY <1>2 DEF TeamsOf
<1>4. Reading(x) BY <1>2, <1>3 DEF Reading, OwnFirst
<1> QED BY <1>1, <1>4

(* A change of the tables, made while requests are under way. *)
LEMMA ChangeStep ==
  ASSUME TokensInv, NEW c \in CredTable, NEW p \in PolicyTable, Change(c, p)
  PROVE  TokensInv'
<1>1. /\ cred' = c /\ policy' = p /\ UNCHANGED <<keys, tokens>>
      /\ changes' = changes + 1 /\ changes < MaxAdmin
  BY DEF Change
<1>2. ASSUME NEW r \in Request
      PROVE  req'[r] \in RequestState /\ RequestOK(req[r])'
  <2> DEFINE q == req[r]
  <2>1. q \in RequestState /\ RequestOK(q) BY DEF TokensInv, Tables
  <2>2. CASE q.pc = "idle"
    <3>1. req'[r] = q BY <2>2 DEF Change
    <3>2. req'[r].pc = "idle" BY <2>2, <3>1
    <3>3. Watches(req[r])' BY <3>2 DEF Watches
    <3>4. Authenticated(req[r])' BY <3>2 DEF Authenticated
    <3>5. Reading(req[r])' BY <3>2 DEF Reading
    <3> QED BY <2>1, <3>1, <3>3, <3>4, <3>5 DEF RequestOK
  <2>3. CASE q.pc # "idle"
    <3> DEFINE L == q.lives \cup LiveIn(c, q.sub)
               T == q.texts \cup TextsIn(p)
               x == [q EXCEPT !.lives = L, !.texts = T]
    <3>1. req'[r] = x BY <2>3 DEF Change
    <3>2. q.sub \in Subject BY <2>1, <2>3 DEF RequestOK, Watches
    <3>3. L \in SUBSET Credential /\ T \in SUBSET (Name \X (PolicyText \cup {None}))
      BY <2>1, <3>2, NotesTyped DEF RequestState
    <3> HIDE DEF L, T
    <3>4. /\ x \in RequestState /\ x.sub = q.sub
          /\ LiveIn(c, x.sub) \subseteq x.lives /\ TextsIn(p) \subseteq x.texts
          /\ Authenticated(x) /\ Reading(x)
      <4>1. /\ x \in RequestState /\ x.pc = q.pc /\ x.via = q.via /\ x.sub = q.sub /\ x.pw = q.pw
            /\ x.groups = q.groups /\ x.found = q.found /\ x.todo = q.todo
            /\ x.trouble = q.trouble /\ x.lives = L /\ x.texts = T
        BY <2>1, <3>3 DEF RequestState
      <4>2. Authenticated(q) /\ Reading(q) BY <2>1 DEF RequestOK
      <4> HIDE DEF x, q
      <4>3. Authenticated(x) /\ Reading(x) BY <4>1, <4>2, NotesGrow DEF L, T
      <4> QED BY <4>1, <4>3 DEF L, T
    <3> HIDE DEF x
    <3>5. Watches(req[r])' BY <1>1, <3>1, <3>2, <3>4 DEF Watches, LiveIn, TextsIn
    <3>6. Authenticated(req[r])' /\ Reading(req[r])' BY <3>1, <3>4
    <3> QED BY <3>1, <3>4, <3>5, <3>6 DEF RequestOK
  <2> QED BY <2>2, <2>3
<1>3. Tables'
  <2>1. req' \in [Request -> RequestState] BY <1>2 DEF Change
  <2>2. changes' \in 0 .. MaxAdmin BY <1>1 DEF TokensInv, Tables
  <2> QED BY <1>1, <2>1, <2>2 DEF TokensInv, Tables
<1>4. GroupsAreEarned' BY <1>1 DEF TokensInv, GroupsAreEarned
<1>5. ClaimsFollowPolicies' BY <1>1 DEF TokensInv, ClaimsFollowPolicies, Follows, During
<1> QED BY <1>2, <1>3, <1>4, <1>5 DEF TokensInv
(* The administrator's operations are changes from one table to another. *)
LEMMA AdminStep ==
  ASSUME TokensInv,
         \/ \E s \in Subject, pw \in Password, gs \in SUBSET GroupId : PutCredential(s, pw, gs)
         \/ \E s \in Subject : RevokeCredential(s) \/ DeleteCredential(s)
         \/ \E n \in Name, p \in PolicyText : PutPolicy(n, p)
         \/ \E n \in Name : DeletePolicy(n)
  PROVE  TokensInv'
<1>1. cred \in CredTable /\ policy \in PolicyTable BY DEF TokensInv, Tables
<1>2. ASSUME NEW s \in Subject, NEW pw \in Password, NEW gs \in SUBSET GroupId,
             PutCredential(s, pw, gs)
      PROVE  TokensInv'
  <2> DEFINE row == [pw |-> pw, groups |-> gs, revoked |-> FALSE]
             c == [cred EXCEPT ![s] = row]
  <2>1. row \in Credential BY DEF Credential
  <2>2. Change(c, policy) BY <1>2 DEF PutCredential
  <2>3. c \in CredTable BY <1>1, <2>1 DEF CredTable
  <2> HIDE DEF c
  <2> QED BY <1>1, <2>2, <2>3, ChangeStep
<1>3. ASSUME NEW s \in Subject, RevokeCredential(s) PROVE TokensInv'
  <2> DEFINE row == IF cred[s] = None THEN cred[s] ELSE [cred[s] EXCEPT !.revoked = TRUE]
             c == [cred EXCEPT ![s] = row]
  <2>1. row \in Credential \cup {None} BY <1>1 DEF CredTable, Credential
  <2>2. Change(c, policy) BY <1>3 DEF RevokeCredential
  <2> HIDE DEF row
  <2>3. c \in CredTable BY <1>1, <2>1 DEF CredTable
  <2> HIDE DEF c
  <2> QED BY <1>1, <2>2, <2>3, ChangeStep
<1>4. ASSUME NEW s \in Subject, DeleteCredential(s) PROVE TokensInv'
  <2> DEFINE c == [cred EXCEPT ![s] = None]
  <2>1. Change(c, policy) BY <1>4 DEF DeleteCredential
  <2>2. c \in CredTable BY <1>1 DEF CredTable
  <2> HIDE DEF c
  <2> QED BY <1>1, <2>1, <2>2, ChangeStep
<1>5. ASSUME NEW n \in Name, NEW p \in PolicyText \cup {None}, Change(cred, [policy EXCEPT ![n] = p])
      PROVE  TokensInv'
  <2>1. [policy EXCEPT ![n] = p] \in PolicyTable BY <1>1 DEF PolicyTable
  <2> QED BY <1>1, <1>5, <2>1, ChangeStep
<1>6. ASSUME NEW n \in Name, NEW p \in PolicyText, PutPolicy(n, p) PROVE TokensInv'
  BY <1>5, <1>6 DEF PutPolicy
<1>7. ASSUME NEW n \in Name, DeletePolicy(n) PROVE TokensInv'
  BY <1>5, <1>7 DEF DeletePolicy
<1> QED BY <1>2, <1>3, <1>4, <1>6, <1>7

(* A new request.  Without a password it goes straight to the policies. *)
LEMMA StartStep ==
  ASSUME TokensInv, NEW r \in Request, NEW s \in Subject, NEW pw \in Password \cup {None},
         NEW gs \in SUBSET GroupId, NEW pc, NEW via, Start(r, pc, via, s, pw, gs),
         \/ pc = "lookup" /\ via \in {"basic", "local"}
         \/ pc = "ldap" /\ via = "ldap"
         \/ pc = "policy" /\ via \in {"open", "oidc"}
  PROVE  TokensInv'
<1> DEFINE L == LiveIn(cred, s)
           T == TextsIn(policy)
           q == [Idle EXCEPT !.pc = pc, !.via = via, !.sub = s, !.pw = pw, !.groups = gs,
                             !.lives = L, !.texts = T]
<1>1. L \in SUBSET Credential /\ T \in SUBSET (Name \X (PolicyText \cup {None}))
  BY NotesTyped DEF TokensInv, Tables
<1>2. Set(r, q) /\ UNCHANGED <<cred, policy, keys, tokens, changes>> BY DEF Start
<1> HIDE DEF L, T
<1>3. /\ q \in RequestState /\ q.pc = pc /\ q.via = via /\ q.sub = s /\ q.found = <<>>
      /\ q.trouble = "none" /\ q.lives = L /\ q.texts = T
  <2>1. via \in ByPassword \cup {"none", "open", "oidc"} BY DEF ByPassword
  <2>2. pc \in {"lookup", "ldap", "policy"} OBVIOUS
  <2>3. q \in RequestState BY <1>1, <2>1, <2>2, IdleRequest, ZenonT(40) DEF RequestState
  <2>4. q.pc = pc /\ q.via = via /\ q.sub = s BY IdleRequest DEF RequestState
  <2>5. q.found = <<>> /\ q.trouble = "none" /\ q.lives = L /\ q.texts = T BY IdleRequest DEF RequestState
  <2> QED BY <2>3, <2>4, <2>5
<1> HIDE DEF q
<1>4. RequestOK(q)
  <2>1. Watches(q) BY <1>3 DEF Watches, L, T
  <2>2. Authenticated(q) BY <1>3 DEF Authenticated, ByPassword
  <2>3. Reading(q) BY <1>3 DEF Reading
  <2> QED BY <2>1, <2>2, <2>3 DEF RequestOK
<1> QED BY <1>2, <1>3, <1>4, RequestStep
(* Two updates of a request: its groups found, and another place to ask. *)
LEMMA VerifiedStep ==
  ASSUME TokensInv, NEW r \in Request, NEW gs \in SUBSET GroupId, req[r].pc \in {"lookup", "ldap"},
         Verified(r, gs), UNCHANGED <<cred, policy, keys, tokens, changes>>,
         req[r].via \in ByPassword =>
           \/ gs = {}
           \/ \E row \in req[r].lives : row.pw = req[r].pw /\ row.groups = gs
           \/ /\ req[r].via # "basic" /\ LdapUser[req[r].sub] # None
              /\ LdapUser[req[r].sub].pw = req[r].pw
  PROVE  TokensInv'
<1> DEFINE x == req[r]
           q == [x EXCEPT !.pc = "policy", !.groups = gs]
<1>1. x \in RequestState /\ RequestOK(x) BY DEF TokensInv, Tables
<1>2. Set(r, q) BY DEF Verified
<1>3. /\ q \in RequestState /\ q.pc = "policy" /\ q.via = x.via /\ q.sub = x.sub /\ q.pw = x.pw
      /\ q.groups = gs /\ q.found = x.found /\ q.trouble = x.trouble /\ q.lives = x.lives /\ q.texts = x.texts
  BY <1>1 DEF RequestState
<1> HIDE DEF q
<1>4. RequestOK(q)
  <2>1. Watches(q) BY <1>1, <1>3 DEF RequestOK, Watches
  <2>2. Authenticated(q) BY <1>1, <1>3 DEF Authenticated, Earned
  <2>3. Reading(q) BY <1>1, <1>3 DEF RequestOK, Reading
  <2> QED BY <2>1, <2>2, <2>3 DEF RequestOK
<1> QED BY <1>2, <1>3, <1>4, RequestStep

LEMMA AskElsewhere ==
  ASSUME TokensInv, NEW r \in Request, NEW pc \in {"lookup", "ldap"},
         req[r].pc \in {"lookup", "ldap"}, pc = "ldap" => req[r].via = "local",
         Set(r, [req[r] EXCEPT !.pc = pc]), UNCHANGED <<cred, policy, keys, tokens, changes>>
  PROVE  TokensInv'
<1> DEFINE x == req[r]
           q == [x EXCEPT !.pc = pc]
<1>1. x \in RequestState /\ RequestOK(x) BY DEF TokensInv, Tables
<1>2. /\ q \in RequestState /\ q.pc = pc /\ q.via = x.via /\ q.sub = x.sub
      /\ q.found = x.found /\ q.trouble = x.trouble /\ q.lives = x.lives /\ q.texts = x.texts
  BY <1>1 DEF RequestState
<1>3. Set(r, q) OBVIOUS
<1> HIDE DEF q
<1>4. RequestOK(q)
  <2>1. Watches(q) BY <1>1, <1>2 DEF RequestOK, Watches
  <2>2. Authenticated(q) BY <1>1, <1>2 DEF Authenticated
  <2>3. Reading(q) BY <1>1, <1>2 DEF RequestOK, Reading
  <2> QED BY <2>1, <2>2, <2>3 DEF RequestOK
<1> QED BY <1>2, <1>3, <1>4, RequestStep

(* The lookup of the credential: the row found is one the request noted. *)
LEMMA LookupStep ==
  ASSUME TokensInv, NEW r \in Request, Lookup(r)
  PROVE  TokensInv'
<1> DEFINE q == req[r]
<1>1. q \in RequestState /\ RequestOK(q) /\ q.pc = "lookup" BY DEF TokensInv, Tables, Lookup
<1>0. PICK rows \in {LookupCredential(q.sub), {}} :
        \/ \E row \in rows : row.pw = q.pw /\ Verified(r, row.groups)
        \/ Verified(r, {})
        \/ q.via = "local" /\ Set(r, [q EXCEPT !.pc = "ldap"])
        \/ Refuse(r)
  BY DEF Lookup
<1>2. rows \subseteq q.lives /\ rows \subseteq Credential
  BY <1>0, <1>1 DEF RequestOK, Watches, LookupCredential, RequestState
<1>3. UNCHANGED <<cred, policy, keys, tokens, changes>> BY DEF Lookup
<1>4. ASSUME NEW row \in rows, row.pw = q.pw, Verified(r, row.groups) PROVE TokensInv'
  <2>1. row \in q.lives /\ row.groups \in SUBSET GroupId BY <1>2 DEF Credential
  <2> QED BY <1>1, <1>3, <1>4, <2>1, VerifiedStep
<1>5. ASSUME Verified(r, {}) PROVE TokensInv'
  BY <1>1, <1>3, <1>5, VerifiedStep
<1>6. ASSUME q.via = "local", Set(r, [q EXCEPT !.pc = "ldap"]) PROVE TokensInv'
  BY <1>1, <1>3, <1>6, AskElsewhere
<1>7. ASSUME Refuse(r) PROVE TokensInv'
  BY <1>3, <1>7, RefuseStep DEF Refuse
<1> QED BY <1>0, <1>4, <1>5, <1>6, <1>7

(* The directory: it accepts the password or the request goes on. *)
LEMMA LdapStep ==
  ASSUME TokensInv, NEW r \in Request, Ldap(r)
  PROVE  TokensInv'
<1> DEFINE q == req[r]
<1>1. q \in RequestState /\ RequestOK(q) /\ q.pc = "ldap" /\ q.sub \in Subject
  BY DEF TokensInv, Tables, Ldap, RequestOK, Watches
<1>2. q.via \in {"local", "ldap"} /\ q.groups \in SUBSET GroupId
  BY <1>1 DEF RequestOK, Authenticated, RequestState
<1>3. UNCHANGED <<cred, policy, keys, tokens, changes>> BY DEF Ldap
<1>4. PICK found \in LdapBind(q.sub, q.pw) :
        IF found # None THEN Verified(r, IF found = {} THEN q.groups ELSE found)
        ELSE IF q.via = "ldap" THEN Set(r, [q EXCEPT !.pc = "lookup"])
        ELSE Refuse(r)
  BY DEF Ldap
<1>5. CASE found # None
  <2>1. /\ LdapUser[q.sub] # None /\ LdapUser[q.sub].pw = q.pw
        /\ found = LdapUser[q.sub].groups \/ found = {}
    BY <1>5 DEF LdapBind
  <2>2. found \in SUBSET GroupId BY <1>1, <2>1
  <2> DEFINE gs == IF found = {} THEN q.groups ELSE found
  <2>3. gs \in SUBSET GroupId /\ Verified(r, gs) BY <1>2, <1>4, <1>5, <2>2
  <2> HIDE DEF gs
  <2> QED BY <1>1, <1>2, <1>3, <2>1, <2>3, VerifiedStep
<1>6. CASE found = None /\ q.via = "ldap"
  <2>1. Set(r, [q EXCEPT !.pc = "lookup"]) BY <1>4, <1>6
  <2> QED BY <1>1, <1>3, <2>1, AskElsewhere
<1>7. CASE found = None /\ q.via # "ldap"
  BY <1>3, <1>4, <1>7, RefuseStep DEF Refuse
<1> QED BY <1>5, <1>6, <1>7
-----------------------------------------------------------------------------
(* The policies a request reads are among those it noted. *)
LEMMA NotedPolicy ==
  ASSUME TokensInv, NEW q, Watches(q), q.pc # "idle", NEW n \in Name
  PROVE  policy[n] \in During(q, n) /\ policy[n] \in PolicyText \cup {None}
<1>1. <<n, policy[n]>> \in q.texts BY DEF Watches, TextsIn
<1>2. policy[n] \in During(q, n) BY <1>1 DEF During
<1> QED BY <1>2 DEF TokensInv, Tables, PolicyTable

(* The subject's own policy: there is none, it is not read, or it is. *)
LEMMA LoadPolicyStep ==
  ASSUME TokensInv, NEW r \in Request, LoadPolicy(r)
  PROVE  TokensInv'
<1> DEFINE q == req[r]
           own == policy[q.sub]
<1>1. q \in RequestState /\ RequestOK(q) /\ q.pc = "policy"
  BY DEF TokensInv, Tables, LoadPolicy
<1>2. q.sub \in Subject /\ q.sub \in Name BY <1>1 DEF RequestOK, Watches, Name
<1>3. own \in During(q, q.sub) /\ own \in PolicyText \cup {None}
  BY <1>1, <1>2, NotedPolicy DEF RequestOK
<1>4. UNCHANGED <<cred, policy, keys, tokens, changes>> BY DEF LoadPolicy
<1>0. PICK p \in {own, None} :
        Set(r, IF p = None
               THEN [q EXCEPT !.pc = "issue", !.trouble = IF own = None THEN "none" ELSE "read"]
               ELSE [q EXCEPT !.pc = IF p.teams = <<>> THEN "issue" ELSE "team",
                              !.found = <<p>>, !.todo = p.teams])
  BY DEF LoadPolicy, PolicyGet
<1>5. CASE p = None
  <2> DEFINE tr == IF own = None THEN "none" ELSE "read"
             x == [q EXCEPT !.pc = "issue", !.trouble = tr]
  <2>1. Set(r, x) BY <1>0, <1>5
  <2>0. tr \in {"none", "read"} /\ (tr = "none" => None \in During(q, q.sub)) BY <1>3
  <2> HIDE DEF tr
  <2>2. /\ x \in RequestState /\ x.pc = "issue" /\ x.via = q.via /\ x.sub = q.sub /\ x.pw = q.pw
        /\ x.groups = q.groups /\ x.found = q.found /\ x.trouble = tr
        /\ x.lives = q.lives /\ x.texts = q.texts
    BY <1>1, <2>0 DEF RequestState
  <2> HIDE DEF x, own
  <2>3. RequestOK(x)
    <3>1. Watches(x) BY <1>1, <2>2 DEF RequestOK, Watches
    <3>2. Authenticated(x) BY <1>1, <2>2 DEF RequestOK, Authenticated, Earned
    <3>3. During(x, x.sub) = During(q, q.sub) BY <2>2 DEF During
    <3>4. Range(x.found) = {}
      <4>1. x.found = <<>> BY <1>1, <2>2 DEF RequestOK, Reading
      <4> QED BY <4>1 DEF Range
    <3>5. OwnFirst(x)
      <4>1. x.found = <<>> BY <1>1, <2>2 DEF RequestOK, Reading
      <4> QED BY <2>0, <2>2, <3>3, <4>1 DEF OwnFirst
    <3>6. Reading(x) BY <2>2, <3>4, <3>5 DEF Reading
    <3> QED BY <3>1, <3>2, <3>6 DEF RequestOK
  <2> QED BY <1>4, <2>1, <2>2, <2>3, RequestStep
<1>6. CASE p # None
  <2> DEFINE F == <<p>>
             todo == p.teams
             pc == IF todo = <<>> THEN "issue" ELSE "team"
             x == [q EXCEPT !.pc = pc, !.found = F, !.todo = todo]
  <2>1. Set(r, x) BY <1>0, <1>6
  <2>0. p = own /\ p \in During(q, q.sub) /\ p \in PolicyText BY <1>0, <1>3, <1>6
  <2>2. F \in Seq(PolicyText) /\ todo \in Seq(Name) /\ pc \in {"issue", "team"}
    BY <2>0
  <2>3. /\ 1 \in DOMAIN F /\ F[1] = p
        /\ \A y \in Range(F) : y = p
    BY DEF Range
  <2>4. pc = "team" => todo # <<>> OBVIOUS
  <2>5. Range(todo) \subseteq TeamsOf(q) BY <1>6, <2>0 DEF TeamsOf
  <2> HIDE DEF F, todo, pc, own
  <2>6. /\ x \in RequestState /\ x.pc = pc /\ x.via = q.via /\ x.sub = q.sub /\ x.pw = q.pw
        /\ x.groups = q.groups /\ x.found = F /\ x.todo = todo
        /\ x.trouble = q.trouble /\ x.lives = q.lives /\ x.texts = q.texts
    BY <1>1, <2>2 DEF RequestState
  <2> HIDE DEF x
  <2>7. RequestOK(x)
    <3>1. Watches(x) BY <1>1, <2>2, <2>6 DEF RequestOK, Watches
    <3>2. Authenticated(x) BY <1>1, <2>2, <2>6 DEF RequestOK, Authenticated, Earned
    <3>3. During(x, x.sub) = During(q, q.sub) /\ TeamsOf(x) = TeamsOf(q)
      BY <2>6 DEF During, TeamsOf
    <3>4. OwnFirst(x) BY <2>0, <2>3, <2>6, <3>3 DEF OwnFirst
    <3>5. x.trouble = "none" BY <1>1, <2>6 DEF RequestOK, Reading
    <3>6. Reading(x) BY <2>0, <2>2, <2>3, <2>4, <2>5, <2>6, <3>3, <3>4, <3>5 DEF Reading
    <3> QED BY <3>1, <3>2, <3>6 DEF RequestOK
  <2> QED BY <1>4, <2>1, <2>6, <2>7, RequestStep
<1> QED BY <1>5, <1>6

(* One more element. *)
LEMMA Appended ==
  ASSUME NEW S, NEW f \in Seq(S), NEW p \in S
  PROVE  /\ Append(f, p) \in Seq(S)
         /\ Range(Append(f, p)) = Range(f) \cup {p}
         /\ 1 \in DOMAIN f => 1 \in DOMAIN Append(f, p) /\ Append(f, p)[1] = f[1]
<1> DEFINE h == Append(f, p)
<1>1. /\ h \in Seq(S) /\ Len(f) \in Nat /\ DOMAIN f = 1 .. Len(f)
      /\ DOMAIN h = 1 .. Len(f) + 1
      /\ h[Len(f) + 1] = p /\ \A i \in 1 .. Len(f) : h[i] = f[i]
  OBVIOUS
<1> HIDE DEF h
<1>2. Len(f) + 1 \in DOMAIN h /\ \A i \in DOMAIN f : i \in DOMAIN h /\ h[i] = f[i] BY <1>1
<1>3. \A i \in DOMAIN h : i = Len(f) + 1 \/ i \in DOMAIN f BY <1>1
<1>4. Range(h) = Range(f) \cup {p} BY <1>1, <1>2, <1>3 DEF Range
<1>5. 1 \in DOMAIN f => 1 \in DOMAIN h /\ h[1] = f[1] BY <1>2
<1> QED BY <1>1, <1>4, <1>5 DEF h

(* The policy of the next team. *)
LEMMA LoadTeamStep ==
  ASSUME TokensInv, NEW r \in Request, LoadTeam(r)
  PROVE  TokensInv'
<1> DEFINE q == req[r]
           next == policy[Head(q.todo)]
<1>1. q \in RequestState /\ RequestOK(q) /\ q.pc = "team"
  BY DEF TokensInv, Tables, LoadTeam
<1>2. q.todo \in Seq(Name) /\ q.todo # <<>> /\ Range(q.todo) \subseteq TeamsOf(q)
  BY <1>1 DEF RequestOK, Reading, RequestState
<1>3. Head(q.todo) \in Name /\ Head(q.todo) \in TeamsOf(q) BY <1>2 DEF Range
<1>4. next \in During(q, Head(q.todo)) /\ next \in PolicyText \cup {None}
  BY <1>1, <1>3, NotedPolicy DEF RequestOK
<1>12. PICK p \in {next, None} :
         Set(r, [q EXCEPT !.pc = IF Len(q.todo) = 1 THEN "issue" ELSE "team",
                          !.found = IF p = None THEN @ ELSE Append(@, p),
                          !.todo = Tail(@)])
  BY DEF LoadTeam, PolicyGet
<1> DEFINE F == IF p = None THEN q.found ELSE Append(q.found, p)
           todo == Tail(q.todo)
           pc == IF Len(q.todo) = 1 THEN "issue" ELSE "team"
           x == [q EXCEPT !.pc = pc, !.found = F, !.todo = todo]
<1>5. UNCHANGED <<cred, policy, keys, tokens, changes>> /\ Set(r, x) BY <1>12 DEF LoadTeam
<1>6. pc = "team" => todo # <<>>
  <2>1. Len(q.todo) \in Nat /\ Len(q.todo) # 0 BY <1>2
  <2>2. Len(todo) = Len(q.todo) - 1 BY <1>2, <2>1
  <2>3. pc = "team" => Len(todo) # 0 BY <2>1, <2>2
  <2> HIDE DEF todo, pc
  <2> QED BY <2>3
<1>0. todo \in Seq(Name) /\ pc \in {"issue", "team"} BY <1>2
<1>7. Range(todo) \subseteq TeamsOf(q)
  <2>1. \A i \in DOMAIN todo : todo[i] = q.todo[i + 1] /\ i + 1 \in DOMAIN q.todo BY <1>2
  <2> QED BY <1>2, <2>1 DEF Range
<1>8. /\ F \in Seq(PolicyText)
      /\ 1 \in DOMAIN q.found => 1 \in DOMAIN F /\ F[1] = q.found[1]
      /\ \A y \in Range(F) : y \in Range(q.found) \/ y \in During(q, Head(q.todo))
  <2>1. q.found \in Seq(PolicyText) BY <1>1 DEF RequestState
  <2>2. CASE p = None BY <2>1, <2>2
  <2>3. CASE p # None
    <3>1. p \in PolicyText /\ p \in During(q, Head(q.todo)) BY <1>4, <1>12, <2>3
    <3>2. F = Append(q.found, p) BY <2>3
    <3> HIDE DEF F
    <3> QED BY <2>1, <3>1, <3>2, Appended
  <2> QED BY <2>2, <2>3
<1>9. \A y \in Range(F) : y \in Range(q.found) \/ \E n \in TeamsOf(q) : y \in During(q, n)
  BY <1>3, <1>8
<1> HIDE DEF F, todo, pc, next
<1>10. /\ x \in RequestState /\ x.pc = pc /\ x.via = q.via /\ x.sub = q.sub /\ x.pw = q.pw
       /\ x.groups = q.groups /\ x.found = F /\ x.todo = todo
       /\ x.trouble = q.trouble /\ x.lives = q.lives /\ x.texts = q.texts
  BY <1>0, <1>1, <1>8 DEF RequestState
<1> HIDE DEF x
<1>11. RequestOK(x)
  <2>1. Watches(x) BY <1>0, <1>1, <1>10 DEF RequestOK, Watches
  <2>2. Authenticated(x) BY <1>0, <1>1, <1>10 DEF RequestOK, Authenticated, Earned
  <2>3. (\A n : During(x, n) = During(q, n)) /\ TeamsOf(x) = TeamsOf(q)
    BY <1>10 DEF During, TeamsOf
  <2>4. Reading(x)
    <3>1. /\ \A y \in Range(q.found) :
               y \in During(q, q.sub) \/ \E n \in TeamsOf(q) : y \in During(q, n)
          /\ OwnFirst(q) /\ q.trouble = "none"
      BY <1>1 DEF RequestOK, Reading
    <3>2. \A y \in Range(F) : y \in During(q, q.sub) \/ \E n \in TeamsOf(q) : y \in During(q, n)
      BY <1>9, <3>1
    <3>3. OwnFirst(x) BY <1>8, <1>10, <2>3, <3>1 DEF OwnFirst
    <3> QED BY <1>0, <1>6, <1>7, <1>10, <2>3, <3>1, <3>2, <3>3 DEF Reading
  <2> QED BY <2>1, <2>2, <2>4 DEF RequestOK
<1> QED BY <1>5, <1>10, <1>11, RequestStep
-----------------------------------------------------------------------------
(* What the merge gives: every grant has the permissions of its key in the  *)
(* policies merged, and the exclusions are those the recipe names.          *)
LEMMA ResolvedClaims ==
  ASSUME NEW found, NEW claims \in Resolved(found), claims # None
  PROVE  LET in == Inputs(Range(found)) IN
         /\ \A gr \in Range(claims.grants) : gr.ops = MergeOps(in, gr.key)
         /\ Range(claims.exclude) = ExcludeKeys(in) \cap RecipeExclude(found)
<1> DEFINE in == Inputs(Range(found))
           K == Keys(in) \cap RecipeGrants(found)
           E == ExcludeKeys(in) \cap RecipeExclude(found)
<1>1. claims \in Merged(found) BY DEF Resolved
<1>2. claims \in Claims(in, K, E) BY <1>1 DEF Merged
<1> HIDE DEF in, K, E
<1> DEFINE G(ks) == [i \in DOMAIN ks |-> [key |-> ks[i], ops |-> MergeOps(in, ks[i])]]
<1>3. PICK ks \in Listings(K), es \in Listings(E) : claims = [grants |-> G(ks), exclude |-> es]
  BY <1>2 DEF Claims
<1>4. claims.grants = G(ks) /\ claims.exclude = es BY <1>3
<1>5. \A gr \in Range(G(ks)) : gr.ops = MergeOps(in, gr.key) BY DEF Range
<1>6. Range(es) = E BY DEF Listings
<1> QED BY <1>4, <1>5, <1>6 DEF in, E

(* The image of a finite set is finite. *)
LEMMA FiniteRange ==
  ASSUME NEW f, IsFiniteSet(DOMAIN f), f = [x \in DOMAIN f |-> f[x]]
  PROVE  IsFiniteSet(Range(f))
<1>1. f \in Surjection(DOMAIN f, Range(f)) BY DEF Surjection, Range
<1> QED BY <1>1, FS_Surjection

(* The recipe names every exclusion of the first text, if that has at most  *)
(* KeyMax: fewer are seen before each of them.                              *)
LEMMA OwnRecipe ==
  ASSUME NEW found \in Seq(PolicyText), 1 \in DOMAIN found, Len(found[1].exclude) <= KeyMax
  PROVE  Range(found[1].exclude) \subseteq RecipeExclude(found)
<1> DEFINE ex == found[1].exclude
           lists == [i \in Searched(found) |-> found[i].exclude]
<1>1. ex \in Seq(Range(ex)) BY ListAssumption
<1>2. DOMAIN ex = 1 .. Len(ex) /\ Len(ex) \in Nat BY <1>1
<1>3. 1 \in Searched(found) BY DEF Searched
<1>4. DOMAIN lists = Searched(found) /\ lists[1] = ex BY <1>3
<1> SUFFICES ASSUME NEW j \in DOMAIN ex PROVE ex[j] \in Recipe(lists)
  BY DEF RecipeExclude, Range
<1> HIDE DEF ex, lists
<1> DEFINE h == [b \in 1 .. j - 1 |-> ex[b]]
<1>5. j \in Nat /\ j >= 1 /\ j <= KeyMax /\ KeyMax \in Nat BY <1>2 DEF ex
<1>6. Before(lists, 1, j) = Range(h)
  <2>1. 1 .. 1 - 1 = {} OBVIOUS
  <2>2. Range(h) = {ex[b] : b \in 1 .. j - 1} BY DEF Range
  <2>3. UNION {Range(lists[a]) : a \in 1 .. 1 - 1} = {} BY <2>1
  <2>4. {lists[1][b] : b \in 1 .. j - 1} = {ex[b] : b \in 1 .. j - 1} BY <1>4
  <2> HIDE DEF h
  <2> DEFINE A == UNION {Range(lists[a]) : a \in 1 .. 1 - 1}
             B == {lists[1][b] : b \in 1 .. j - 1}
  <2>5. Before(lists, 1, j) = A \cup B BY DEF Before
  <2>6. A = {} /\ B = Range(h) BY <2>2, <2>3, <2>4
  <2> HIDE DEF A, B
  <2> QED BY <2>5, <2>6
<1>7. Cardinality(Range(h)) < KeyMax
  <2>1. h \in Surjection(1 .. j - 1, Range(h)) BY DEF Surjection, Range
  <2> DEFINE c == Cardinality(1 .. j - 1)
  <2>2. 1 \in Int /\ j - 1 \in Int BY <1>5
  <2>3. IsFiniteSet(1 .. j - 1) /\ c = IF 1 > j - 1 THEN 0 ELSE (j - 1) - 1 + 1
    BY ONLY <2>2, FS_Interval
  <2>4. c <= j - 1 BY <1>5, <2>3
  <2>5. IsFiniteSet(Range(h)) /\ Cardinality(Range(h)) <= c BY <2>1, <2>3, FS_Surjection
  <2>6. Cardinality(Range(h)) \in Nat /\ c \in Nat BY <2>3, <2>5, FS_CardinalityType
  <2> DEFINE d == Cardinality(Range(h))
  <2> HIDE DEF h, c, d
  <2>7. d <= c /\ d \in Nat BY <2>5, <2>6 DEF d
  <2>8. d < KeyMax BY ONLY <1>5, <2>4, <2>6, <2>7
  <2> QED BY <2>8 DEF d
<1>8. Cardinality(Before(lists, 1, j)) < KeyMax BY <1>6, <1>7
<1> HIDE DEF h
<1> QED BY <1>3, <1>4, <1>8 DEF Recipe

(* More policies, more permissions. *)
LEMMA MergeGrows ==
  ASSUME NEW P, NEW Q, P \subseteq Q, NEW key
  PROVE  MergeOps(P, key) \subseteq MergeOps(Q, key)
BY DEF MergeOps

(* The token made for a request: it has what the request knew. *)
KnowsAs(tok, q) ==
  /\ tok.groups = q.groups /\ tok.via = q.via /\ tok.sub = q.sub /\ tok.pw = q.pw
  /\ tok.lives = q.lives /\ tok.texts = q.texts

LEMMA TokenFields ==
  ASSUME NEW q, NEW trouble, NEW claims
  PROVE  /\ KnowsAs(JwtCreate(q, trouble), q) /\ JwtCreate(q, trouble).version = 1
         /\ JwtCreate(q, trouble).trouble = trouble
         /\ KnowsAs(JwtCreateV2(q, claims), q) /\ JwtCreateV2(q, claims).version = 2
         /\ JwtCreateV2(q, claims).grants = claims.grants
         /\ JwtCreateV2(q, claims).exclude = claims.exclude
<1>1. /\ KnowsAs(JwtCreate(q, trouble), q) /\ JwtCreate(q, trouble).version = 1
      /\ JwtCreate(q, trouble).trouble = trouble
  BY DEF JwtCreate, KnowsAs
<1>2. KnowsAs(JwtCreateV2(q, claims), q) BY DEF JwtCreate, JwtCreateV2, KnowsAs
<1>3. /\ JwtCreateV2(q, claims).version = 2
      /\ JwtCreateV2(q, claims).grants = claims.grants
      /\ JwtCreateV2(q, claims).exclude = claims.exclude
  BY DEF JwtCreate, JwtCreateV2
<1> QED BY <1>1, <1>2, <1>3

LEMMA IssueStep ==
  ASSUME TokensInv, NEW r \in Request, Issue(r)
  PROVE  TokensInv'
<1> DEFINE q == req[r]
<1>1. q \in RequestState /\ RequestOK(q) /\ q.pc = "issue"
  BY DEF TokensInv, Tables, Issue
<1>2. PICK claims \in Resolved(q.found) :
        tokens' = tokens \cup {IF claims = None THEN JwtCreate(q, Unmerged(q))
                               ELSE JwtCreateV2(q, claims)}
  BY DEF Issue
<1> DEFINE tok == IF claims = None THEN JwtCreate(q, Unmerged(q)) ELSE JwtCreateV2(q, claims)
<1>0. tok = IF claims = None THEN JwtCreate(q, Unmerged(q)) ELSE JwtCreateV2(q, claims) OBVIOUS
<1>3. tokens' = tokens \cup {tok} BY <1>2
<1> HIDE DEF tok
<1>4. /\ KnowsAs(tok, q)
      /\ claims = None => tok.version = 1 /\ tok.trouble = Unmerged(q)
      /\ claims # None => tok.version = 2 /\ tok.grants = claims.grants /\ tok.exclude = claims.exclude
  BY <1>0, TokenFields
<1>5. Set(r, Idle) /\ UNCHANGED <<cred, policy, keys, changes>> BY DEF Issue
<1>6. q.found \in Seq(PolicyText) /\ Range(q.found) \subseteq PolicyText
  <2>1. q.found \in Seq(PolicyText) BY <1>1 DEF RequestState
  <2> QED BY <2>1 DEF Range
<1>7. Tables'
  <2>1. req' \in [Request -> RequestState] BY <1>5, IdleRequest DEF Set, TokensInv, Tables
  <2>2. [group : GroupRow, revoked : BOOLEAN, by : tokens] \subseteq
          [group : GroupRow, revoked : BOOLEAN, by : tokens']
    BY <1>3
  <2>3. keys' \in [KeyId -> [group : GroupRow, revoked : BOOLEAN, by : tokens'] \cup {None}]
    BY <1>5, <2>2 DEF TokensInv, Tables
  <2> QED BY <1>5, <2>1, <2>3 DEF TokensInv, Tables
<1>8. ASSUME NEW u \in Request PROVE RequestOK(req[u])'
  <2>1. req'[u] = req[u] \/ req'[u] = Idle BY <1>5 DEF Set, TokensInv, Tables
  <2>2. RequestOK(req'[u]) BY <2>1, IdleRequest DEF TokensInv
  <2>3. Watches(req[u])' BY <1>5, <2>2 DEF RequestOK, Watches, LiveIn, TextsIn
  <2> QED BY <2>2, <2>3 DEF RequestOK
<1>9. GroupsAreEarned'
  <2>1. tok.via \in ByPassword => Earned(tok)
    BY <1>1, <1>4 DEF RequestOK, Authenticated, Earned, KnowsAs
  <2> QED BY <1>3, <2>1 DEF TokensInv, GroupsAreEarned, Earned, ByPassword
<1>10. ClaimsFollowPolicies'
  <2> DEFINE own == During(tok, tok.sub)
             teams == UNION {Range(p.teams) : p \in own \ {None}}
             read == {p \in (own \cup UNION {During(tok, n) : n \in teams}) \ {None} : p.sections}
  <2>1. (\A n : During(tok, n) = During(q, n)) /\ teams = TeamsOf(q)
    BY <1>4 DEF During, TeamsOf, KnowsAs
  <2>2. /\ \A p \in Range(q.found) : p \in own \/ \E n \in teams : p \in During(tok, n)
        /\ \/ q.trouble # "none" /\ q.found = <<>>
           \/ None \in own
           \/ 1 \in DOMAIN q.found /\ q.found[1] \in own
    BY <1>1, <1>4, <2>1 DEF RequestOK, Reading, OwnFirst, KnowsAs
  <2> HIDE DEF own, teams
  <2>3. Inputs(Range(q.found)) \subseteq read BY <1>6, <2>2 DEF Inputs
  <2> HIDE DEF read
  <2>4. tok.version = 2 => \A gr \in Range(tok.grants) : gr.ops \subseteq MergeOps(read, gr.key)
    <3> SUFFICES ASSUME tok.version = 2, NEW gr \in Range(tok.grants)
                 PROVE  gr.ops \subseteq MergeOps(read, gr.key)
      OBVIOUS
    <3>1. claims # None BY <1>4
    <3>2. gr.ops = MergeOps(Inputs(Range(q.found)), gr.key) BY <1>2, <1>4, <3>1, ResolvedClaims
    <3> QED BY <2>3, <3>2, MergeGrows
  <2>5. ASSUME NEW p \in PolicyText, own = {p}, p.sections
        PROVE  IF tok.version = 1 THEN tok.trouble # "none"
               ELSE Len(p.exclude) <= KeyMax => Range(p.exclude) \subseteq Range(tok.exclude)
    <3>1. CASE claims = None
      <4>1. Unmerged(q) # "none"
        <5>1. CASE Inputs(Range(q.found)) # {} BY <5>1 DEF Unmerged
        <5>2. CASE Inputs(Range(q.found)) = {} /\ q.trouble # "none" BY <5>2 DEF Unmerged
        <5>3. CASE Inputs(Range(q.found)) = {} /\ q.trouble = "none"
          <6>1. 1 \in DOMAIN q.found /\ q.found[1] = p BY <2>2, <2>5, <5>3
          <6>2. p \in Range(q.found) BY <6>1 DEF Range
          <6> QED BY <2>5, <5>3, <6>2 DEF Inputs
        <5> QED BY <5>1, <5>2, <5>3
      <4> QED BY <1>4, <3>1, <4>1
    <3>2. CASE claims # None
      <4> SUFFICES ASSUME Len(p.exclude) <= KeyMax
                   PROVE  Range(p.exclude) \subseteq Range(tok.exclude)
        BY <1>4, <3>2
      <4>0. 1 \in DOMAIN q.found /\ q.found[1] = p
        <5>1. q.found # <<>>
          <6> SUFFICES ASSUME q.found = <<>> PROVE claims = None BY <3>2
          <6>1. Inputs(Range(q.found)) = {} BY DEF Inputs, Range
          <6> QED BY <1>2, <6>1 DEF Resolved
        <5> QED BY <2>2, <2>5, <5>1
      <4>1. p \in Inputs(Range(q.found)) BY <2>5, <4>0 DEF Inputs, Range
      <4>2. Range(p.exclude) \subseteq RecipeExclude(q.found) BY <1>6, <4>0, OwnRecipe
      <4>3. Range(p.exclude) \subseteq ExcludeKeys(Inputs(Range(q.found))) BY <4>1 DEF ExcludeKeys
      <4>4. Range(claims.exclude) = ExcludeKeys(Inputs(Range(q.found))) \cap RecipeExclude(q.found)
        BY <1>2, <3>2, ResolvedClaims
      <4> QED BY <1>4, <3>2, <4>2, <4>3, <4>4
    <3> QED BY <3>1, <3>2
  <2>6. Follows(tok) BY <2>4, <2>5 DEF Follows, own, teams, read
  <2> QED BY <1>3, <2>6 DEF TokensInv, ClaimsFollowPolicies
<1> QED BY <1>7, <1>8, <1>9, <1>10 DEF TokensInv
(* A key is registered once, for a token there is, and revoked. *)
LEMMA KeyStep ==
  ASSUME TokensInv, NEW k \in KeyId,
         RevokeKey(k) \/ \E tok \in tokens, g \in GroupId : RegisterKey(tok, k, g)
  PROVE  TokensInv'
<1> DEFINE Row == [group : GroupRow, revoked : BOOLEAN, by : tokens]
<1>1. keys \in [KeyId -> Row \cup {None}] BY DEF TokensInv, Tables
<1>2. UNCHANGED <<cred, policy, req, tokens, changes>> BY DEF RevokeKey, RegisterKey
<1>3. keys' \in [KeyId -> Row \cup {None}]
  <2>1. CASE RevokeKey(k)
    <3>1. keys[k] \in Row BY <1>1, <2>1 DEF RevokeKey
    <3>2. [keys[k] EXCEPT !.revoked = TRUE] \in Row BY <3>1
    <3> HIDE DEF Row
    <3>3. keys' = [keys EXCEPT ![k] = [keys[k] EXCEPT !.revoked = TRUE]] BY <2>1 DEF RevokeKey
    <3> QED BY <1>1, <3>2, <3>3
  <2>2. ASSUME NEW tok \in tokens, NEW g \in GroupId, RegisterKey(tok, k, g)
        PROVE  keys' \in [KeyId -> Row \cup {None}]
    <3>1. [group |-> g, revoked |-> FALSE, by |-> tok] \in Row BY <2>2 DEF RegisterKey
    <3> HIDE DEF Row
    <3> QED BY <1>1, <2>2, <3>1 DEF RegisterKey
  <2> QED BY <2>1, <2>2
<1>4. Tables' BY <1>2, <1>3 DEF TokensInv, Tables
<1>5. ASSUME NEW u \in Request PROVE RequestOK(req[u])'
  <2>1. RequestOK(req[u]) BY DEF TokensInv
  <2>2. Watches(req[u])' BY <1>2, <2>1 DEF RequestOK, Watches, LiveIn, TextsIn
  <2> QED BY <1>2, <2>1, <2>2 DEF RequestOK
<1>6. GroupsAreEarned' BY <1>2 DEF TokensInv, GroupsAreEarned
<1>7. ClaimsFollowPolicies' BY <1>2 DEF TokensInv, ClaimsFollowPolicies, Follows, During
<1> QED BY <1>4, <1>5, <1>6, <1>7 DEF TokensInv

-----------------------------------------------------------------------------
LEMMA TokensInvStep == TokensInv /\ [Next]_vars => TokensInv'
<1> SUFFICES ASSUME TokensInv, [Next]_vars PROVE TokensInv'
  OBVIOUS
<1>1. CASE \/ \E s \in Subject, pw \in Password, gs \in SUBSET GroupId :
                gs # {} /\ PutCredential(s, pw, gs)
           \/ \E s \in Subject : RevokeCredential(s) \/ DeleteCredential(s)
           \/ \E n \in Name, p \in PolicyText : PutPolicy(n, p)
           \/ \E n \in Name : DeletePolicy(n)
  BY <1>1, AdminStep
<1>2. ASSUME NEW r \in Request, NEW s \in Subject, NEW pw \in Password, BasicRequest(r, s, pw)
      PROVE  TokensInv'
  <2>1. {} \in SUBSET GroupId /\ Start(r, "lookup", "basic", s, pw, {}) BY <1>2 DEF BasicRequest
  <2> QED BY <2>1, StartStep
<1>3. ASSUME NEW r \in Request, NEW s \in Subject, NEW gs \in SUBSET GroupId,
             OpenRequest(r, s, gs) \/ OidcRequest(r, s, gs)
      PROVE  TokensInv'
  <2>1. Start(r, "policy", "open", s, None, gs) \/ Start(r, "policy", "oidc", s, None, gs)
    BY <1>3 DEF OpenRequest, OidcRequest
  <2> QED BY <2>1, StartStep
<1>4. ASSUME NEW r \in Request, NEW s \in Subject, NEW gs \in SUBSET GroupId,
             NEW pw \in Password, NEW m, BodyRequest(r, s, pw, gs, m)
      PROVE  TokensInv'
  <2>1. Start(r, "ldap", "ldap", s, pw, gs) \/ Start(r, "lookup", "local", s, pw, gs)
    BY <1>4 DEF BodyRequest
  <2> QED BY <2>1, StartStep
<1>5. ASSUME NEW r \in Request, Lookup(r) \/ Ldap(r) PROVE TokensInv'
  BY <1>5, LookupStep, LdapStep
<1>6. ASSUME NEW r \in Request, LoadPolicy(r) \/ LoadTeam(r) PROVE TokensInv'
  BY <1>6, LoadPolicyStep, LoadTeamStep
<1>7. ASSUME NEW r \in Request, Issue(r) \/ IssueFails(r) PROVE TokensInv'
  BY <1>7, IssueStep, RefuseStep DEF IssueFails
<1>8. ASSUME NEW k \in KeyId,
             RevokeKey(k) \/ \E tok \in tokens, g \in GroupId : RegisterKey(tok, k, g)
      PROVE  TokensInv'
  BY <1>8, KeyStep
<1>9. CASE UNCHANGED vars
  <2> USE <1>9 DEF vars
  <2>1. Tables' BY DEF TokensInv, Tables
  <2>2. ASSUME NEW u \in Request PROVE RequestOK(req[u])'
    <3>1. RequestOK(req[u]) BY DEF TokensInv
    <3>2. Watches(req[u])' BY <3>1 DEF RequestOK, Watches, LiveIn, TextsIn
    <3> QED BY <3>1, <3>2 DEF RequestOK
  <2>3. GroupsAreEarned' BY DEF TokensInv, GroupsAreEarned
  <2>4. ClaimsFollowPolicies' BY DEF TokensInv, ClaimsFollowPolicies, Follows, During
  <2> QED BY <2>1, <2>2, <2>3, <2>4 DEF TokensInv
<1> QED BY <1>1, <1>2, <1>3, <1>4, <1>5, <1>6, <1>7, <1>8, <1>9 DEF Next

LEMMA TokensInvariant == Spec => []TokensInv
BY TokensInvInit, TokensInvStep, PTL DEF Spec

(* The tables and the requests under way keep their types. *)
THEOREM TokensTypes == Spec => []TypeOK
<1>1. TokensInv => TypeOK
  <2> SUFFICES ASSUME TokensInv PROVE TypeOK
    OBVIOUS
  <2>1. ASSUME NEW k \in KeyId
        PROVE  keys[k] = None \/ (keys[k].group \in GroupRow /\ keys[k].by \in tokens)
    BY DEF TokensInv, Tables
  <2>2. ASSUME NEW r \in Request
        PROVE  /\ req[r].pc \in {"idle", "lookup", "ldap", "policy", "team", "issue"}
               /\ req[r].pc = "team" => req[r].todo # <<>> /\ Range(req[r].todo) \subseteq Name
               /\ req[r].found \in Seq(PolicyText) /\ req[r].trouble \in {"none", "read"}
    <3>1. req[r] \in RequestState /\ Reading(req[r]) BY DEF TokensInv, Tables, RequestOK
    <3>2. req[r].todo \in Seq(Name) BY <3>1 DEF RequestState
    <3>3. Range(req[r].todo) \subseteq Name BY <3>2 DEF Range
    <3> QED BY <3>1, <3>3 DEF RequestState, Reading
  <2>3. cred \in CredTable /\ policy \in PolicyTable /\ changes \in 0 .. MaxAdmin
    BY DEF TokensInv, Tables
  <2> QED BY <2>1, <2>2, <2>3 DEF TypeOK, CredTable, Credential, PolicyTable
<1> QED BY <1>1, TokensInvariant, PTL

(* POST /auth/token with a password gives the groups of a credential with   *)
(* that password that was not revoked at some time during the request, or   *)
(* the password is the directory's: however many requests and changes of    *)
(* credentials interleave.                                                  *)
THEOREM GroupsNeedAPassword == Spec => []GroupsAreEarned
<1>1. TokensInv => GroupsAreEarned BY DEF TokensInv
<1> QED BY <1>1, TokensInvariant, PTL

(* cookbook_policy_resolve, reading one policy after another while they     *)
(* change, puts no permission into a token that no policy gave meanwhile,   *)
(* and drops no exclusion of a policy that nobody touched, unless reading   *)
(* it or the merge fails: then the token is of version 1.                   *)
THEOREM TokensFollowPolicies == Spec => []ClaimsFollowPolicies
<1>1. TokensInv => ClaimsFollowPolicies BY DEF TokensInv
<1> QED BY <1>1, TokensInvariant, PTL

(* Only POST /keys and a revocation write the table of keys, and only the   *)
(* issue of a token makes one.                                              *)
LEMMA Writers ==
  ASSUME [Next]_vars
  PROVE  \/ UNCHANGED <<keys, tokens>>
         \/ \E r \in Request : Issue(r)
         \/ \E tok \in tokens, k \in KeyId, g \in GroupId : RegisterKey(tok, k, g)
         \/ \E k \in KeyId : RevokeKey(k)
<1>1. ASSUME NEW c, NEW p, Change(c, p) PROVE UNCHANGED <<keys, tokens>> BY <1>1 DEF Change
<1>2. CASE \/ \E s \in Subject, pw \in Password, gs \in SUBSET GroupId :
                gs # {} /\ PutCredential(s, pw, gs)
           \/ \E s \in Subject : RevokeCredential(s) \/ DeleteCredential(s)
           \/ \E n \in Name, p \in PolicyText : PutPolicy(n, p)
           \/ \E n \in Name : DeletePolicy(n)
  BY <1>1, <1>2 DEF PutCredential, RevokeCredential, DeleteCredential, PutPolicy, DeletePolicy
<1>3. ASSUME NEW r \in Request, NEW s, NEW pw, NEW gs, NEW m,
             \/ BasicRequest(r, s, pw) \/ OpenRequest(r, s, gs) \/ OidcRequest(r, s, gs)
             \/ BodyRequest(r, s, pw, gs, m)
      PROVE  UNCHANGED <<keys, tokens>>
  BY <1>3 DEF BasicRequest, OpenRequest, OidcRequest, BodyRequest, Start
<1>4. ASSUME NEW r \in Request, Lookup(r) \/ Ldap(r) \/ LoadPolicy(r) \/ LoadTeam(r) \/ IssueFails(r)
      PROVE  UNCHANGED <<keys, tokens>>
  BY <1>4 DEF Lookup, Ldap, LoadPolicy, LoadTeam, IssueFails
<1>5. CASE UNCHANGED vars BY <1>5 DEF vars
<1> QED BY <1>2, <1>3, <1>4, <1>5 DEF Next

(* POST /keys cannot bring back a publisher's key that was revoked: no step *)
(* of any handler changes its row.                                          *)
THEOREM RevokedKeysStay == Spec => KeyStaysRevoked
<1> DEFINE A == \A k \in KeyId : keys[k] # None /\ keys[k].revoked => keys'[k] = keys[k]
<1>1. TokensInv /\ [Next]_vars => A
  <2> SUFFICES ASSUME TokensInv, [Next]_vars, NEW k \in KeyId, keys[k] # None, keys[k].revoked
               PROVE  keys'[k] = keys[k]
    OBVIOUS
  <2>1. keys \in [KeyId -> [group : GroupRow, revoked : BOOLEAN, by : tokens] \cup {None}]
    BY DEF TokensInv, Tables
  <2>2. ASSUME NEW j \in KeyId, RevokeKey(j) PROVE keys'[k] = keys[k]
    <3>1. keys' = [keys EXCEPT ![j] = [keys[j] EXCEPT !.revoked = TRUE]] BY <2>2 DEF RevokeKey
    <3>2. keys[k] \in [group : GroupRow, revoked : BOOLEAN, by : tokens] BY <2>1
    <3>3. [keys[k] EXCEPT !.revoked = TRUE] = keys[k] BY <3>2
    <3> QED BY <2>1, <3>1, <3>3
  <2>3. ASSUME NEW tok \in tokens, NEW j \in KeyId, NEW g \in GroupId, RegisterKey(tok, j, g)
        PROVE  keys'[k] = keys[k]
    BY <2>1, <2>3 DEF RegisterKey
  <2>4. CASE UNCHANGED keys BY <2>4
  <2> QED BY <2>2, <2>3, <2>4, Writers DEF Issue
<1> QED BY <1>1, TokensInvariant, PTL DEF Spec, KeyStaysRevoked
-----------------------------------------------------------------------------
(* The use of a token.  Its claims are lists, and a key is there by leave   *)
(* of the token that registered it.                                         *)
TokenShape(tok) ==
  \/ tok.version = 1
  \/ /\ tok.version = 2
     /\ Len(tok.grants) \in Nat /\ DOMAIN tok.grants = 1 .. Len(tok.grants)
     /\ tok.exclude # None /\ Len(tok.exclude) \in Nat

KeysInv ==
  /\ \A tok \in tokens : TokenShape(tok)
  /\ \A k \in KeyId : keys[k] # None => Authorises(keys[k].by, keys[k].group, "c")

(* So are the keys of finitely many policies. *)
LEMMA FiniteKeys ==
  ASSUME NEW P \in SUBSET PolicyText, IsFiniteSet(P)
  PROVE  IsFiniteSet(Keys(P))
<1>1. ASSUME NEW p \in P PROVE IsFiniteSet({gr.key : gr \in Range(p.grants)})
  <2> DEFINE f == [i \in DOMAIN p.grants |-> p.grants[i].key]
  <2>1. p.grants \in Seq(Range(p.grants)) BY ListAssumption
  <2>2. DOMAIN p.grants = 1 .. Len(p.grants) /\ Len(p.grants) \in Int /\ 1 \in Int
    BY <2>1, LenProperties
  <2>3. IsFiniteSet(1 .. Len(p.grants)) BY ONLY FS_Interval, <2>2
  <2>4. IsFiniteSet(Range(f)) BY <2>2, <2>3, FiniteRange
  <2>5. Range(f) = {gr.key : gr \in Range(p.grants)} BY DEF Range
  <2> QED BY <2>4, <2>5
<1> DEFINE h == [p \in P |-> {gr.key : gr \in Range(p.grants)}]
<1>2. IsFiniteSet(Range(h)) BY FiniteRange
<1>3. \A T \in Range(h) : IsFiniteSet(T) BY <1>1 DEF Range
<1>4. Keys(P) = UNION Range(h) BY DEF Keys, Range
<1> HIDE DEF h
<1> QED BY <1>2, <1>3, <1>4, FS_UNION

(* And their exclusions. *)
LEMMA FiniteExclusions ==
  ASSUME NEW P \in SUBSET PolicyText, IsFiniteSet(P)
  PROVE  IsFiniteSet(ExcludeKeys(P))
<1>1. ASSUME NEW p \in P PROVE IsFiniteSet(Range(p.exclude))
  <2>1. p.exclude \in Seq(Range(p.exclude)) BY ListAssumption
  <2>2. DOMAIN p.exclude = 1 .. Len(p.exclude) /\ Len(p.exclude) \in Int /\ 1 \in Int
    BY <2>1, LenProperties
  <2>3. IsFiniteSet(1 .. Len(p.exclude)) BY ONLY FS_Interval, <2>2
  <2>4. p.exclude = [i \in DOMAIN p.exclude |-> p.exclude[i]] BY <2>1
  <2> QED BY <2>2, <2>3, <2>4, FiniteRange
<1> DEFINE h == [p \in P |-> Range(p.exclude)]
<1>2. IsFiniteSet(Range(h)) BY FiniteRange
<1>3. \A T \in Range(h) : IsFiniteSet(T) BY <1>1 DEF Range
<1>4. ExcludeKeys(P) = UNION Range(h) BY DEF ExcludeKeys, Range
<1> HIDE DEF h
<1> QED BY <1>2, <1>3, <1>4, FS_UNION

(* The claims of a token are lists. *)
LEMMA ClaimsAreLists ==
  ASSUME NEW found \in Seq(PolicyText), NEW claims \in Resolved(found), claims # None
  PROVE  /\ Len(claims.grants) \in Nat /\ DOMAIN claims.grants = 1 .. Len(claims.grants)
         /\ claims.exclude # None /\ Len(claims.exclude) \in Nat
<1> DEFINE in == Inputs(Range(found))
           K == Keys(in) \cap RecipeGrants(found)
           E == ExcludeKeys(in) \cap RecipeExclude(found)
           n == Cardinality(K)
           m == Cardinality(E)
<1>1. Range(found) \in SUBSET PolicyText /\ IsFiniteSet(Range(found))
  <2>1. /\ DOMAIN found = 1 .. Len(found) /\ Len(found) \in Int /\ 1 \in Int
        /\ found = [i \in DOMAIN found |-> found[i]]
    OBVIOUS
  <2>2. IsFiniteSet(1 .. Len(found)) BY ONLY FS_Interval, <2>1
  <2>3. IsFiniteSet(Range(found)) BY <2>1, <2>2, FiniteRange
  <2>4. Range(found) \subseteq PolicyText BY DEF Range
  <2> QED BY <2>3, <2>4
<1>2. in \in SUBSET PolicyText /\ IsFiniteSet(in)
  <2>1. in \subseteq Range(found) BY DEF Inputs
  <2> QED BY <1>1, <2>1, FS_Subset
<1>3. IsFiniteSet(K) /\ IsFiniteSet(E)
  <2>1. IsFiniteSet(Keys(in)) /\ IsFiniteSet(ExcludeKeys(in))
    BY <1>2, FiniteKeys, FiniteExclusions
  <2> QED BY <2>1, FS_Intersection
<1>4. n \in Nat /\ m \in Nat BY <1>3, FS_CardinalityType
<1> DEFINE G(ks) == [i \in DOMAIN ks |-> [key |-> ks[i], ops |-> MergeOps(in, ks[i])]]
<1>0. E \in SUBSET ExcludeKeys(PolicyText) BY <1>2 DEF ExcludeKeys
<1>12. claims \in Claims(in, K, E)
  <2>1. claims \in Merged(found) BY DEF Resolved
  <2> QED BY <2>1 DEF Merged
<1> HIDE DEF in, K, E
<1>5. PICK ks \in Listings(K), es \in Listings(E) : claims = [grants |-> G(ks), exclude |-> es]
  BY <1>12 DEF Claims
<1>6. claims.grants = G(ks) /\ DOMAIN ks = 1 .. n BY <1>5 DEF Listings
<1>9. claims.exclude = es /\ es \in [1 .. m -> E] BY <1>5 DEF Listings
<1>11. es # None BY <1>0, <1>5, ClaimsAssumption
<1> HIDE DEF n, m
<1>10. Len(claims.exclude) = m BY <1>4, <1>9
<1>7. claims.grants = [i \in 1 .. n |-> [key |-> ks[i], ops |-> MergeOps(in, ks[i])]] BY <1>6
<1>8. Len(claims.grants) = n /\ DOMAIN claims.grants = 1 .. n BY <1>4, <1>7
<1> QED BY <1>4, <1>8, <1>9, <1>10, <1>11

(* Every step keeps the shapes, and no step takes a permission back that a  *)
(* key was registered with: tokens do not change.                           *)
LEMMA KeysInvStep == TokensInv /\ KeysInv /\ [Next]_vars => KeysInv'
<1> SUFFICES ASSUME TokensInv, KeysInv, [Next]_vars PROVE KeysInv' OBVIOUS
<1>2. keys \in [KeyId -> [group : GroupRow, revoked : BOOLEAN, by : tokens] \cup {None}]
  BY DEF TokensInv, Tables
<1>3. \A tok \in tokens' : TokenShape(tok)
  <2>1. ASSUME NEW r \in Request, Issue(r) PROVE \A tok \in tokens' : TokenShape(tok)
    <3> DEFINE q == req[r]
    <3>1. q \in RequestState /\ q.found \in Seq(PolicyText) BY DEF TokensInv, Tables, RequestState
    <3>2. PICK claims \in Resolved(q.found) :
            tokens' = tokens \cup {IF claims = None THEN JwtCreate(q, Unmerged(q))
                               ELSE JwtCreateV2(q, claims)}
      BY <2>1 DEF Issue
    <3>3. CASE claims = None
      <4>1. TokenShape(JwtCreate(q, Unmerged(q))) BY TokenFields DEF TokenShape
      <4> QED BY <3>2, <3>3, <4>1 DEF KeysInv
    <3>4. CASE claims # None
      <4>0. /\ Len(claims.grants) \in Nat /\ DOMAIN claims.grants = 1 .. Len(claims.grants)
            /\ claims.exclude # None /\ Len(claims.exclude) \in Nat
        BY <3>1, <3>2, <3>4, ClaimsAreLists
      <4>1. TokenShape(JwtCreateV2(q, claims)) BY <4>0, TokenFields DEF TokenShape
      <4> QED BY <3>2, <3>4, <4>1 DEF KeysInv
    <3> QED BY <3>3, <3>4
  <2>2. CASE UNCHANGED tokens BY <2>2 DEF KeysInv
  <2> QED BY <2>1, <2>2, Writers DEF RegisterKey, RevokeKey
<1>4. ASSUME NEW k \in KeyId, keys'[k] # None PROVE Authorises(keys'[k].by, keys'[k].group, "c")
  <2>1. ASSUME NEW j \in KeyId, RevokeKey(j) PROVE Authorises(keys'[k].by, keys'[k].group, "c")
    <3>1. keys' = [keys EXCEPT ![j] = [keys[j] EXCEPT !.revoked = TRUE]] /\ keys[j] # None
      BY <2>1 DEF RevokeKey
    <3>2. keys[k] # None BY <1>2, <1>4, <3>1
    <3>3. keys[k] \in [group : GroupRow, revoked : BOOLEAN, by : tokens] BY <1>2, <3>2
    <3>4. keys'[k].by = keys[k].by /\ keys'[k].group = keys[k].group
      <4>1. CASE k = j
        <5>1. keys'[k] = [keys[k] EXCEPT !.revoked = TRUE] BY <1>2, <3>1, <4>1
        <5> QED BY <3>3, <5>1
      <4>2. CASE k # j BY <1>2, <3>1, <4>2
      <4> QED BY <4>1, <4>2
    <3> QED BY <3>2, <3>4 DEF KeysInv
  <2>2. ASSUME NEW tok \in tokens, NEW j \in KeyId, NEW g \in GroupId, RegisterKey(tok, j, g)
        PROVE  Authorises(keys'[k].by, keys'[k].group, "c")
    <3>1. /\ Authorises(tok, g, "c")
          /\ keys' = [keys EXCEPT ![j] = [group |-> g, revoked |-> FALSE, by |-> tok]]
      BY <2>2 DEF RegisterKey
    <3>2. CASE k = j
      <4>1. keys'[k].by = tok /\ keys'[k].group = g BY <1>2, <3>1, <3>2
      <4> QED BY <3>1, <4>1
    <3>3. CASE k # j
      <4>1. keys'[k] = keys[k] BY <1>2, <3>1, <3>3
      <4> QED BY <1>4, <4>1 DEF KeysInv
    <3> QED BY <3>2, <3>3
  <2>3. CASE UNCHANGED keys BY <1>4, <2>3 DEF KeysInv
  <2> QED BY <2>1, <2>2, <2>3, Writers DEF Issue
<1>5. \A k \in KeyId : keys'[k] # None => Authorises(keys[k].by, keys[k].group, "c")'
  BY <1>4 DEF Authorises, Readable, AuthCheck
<1> QED BY <1>3, <1>5 DEF KeysInv

(* A permission in a token was given by a policy, so a key registered with  *)
(* it has a policy behind it; an exclusion in force throughout is among the *)
(* token's, and the verifier has looked at it.                              *)
LEMMA KeysInvSuffices == TokensInv /\ KeysInv => KeysFollowGrants
<1> SUFFICES ASSUME TokensInv, KeysInv, NEW k \in KeyId, keys[k] # None
             PROVE  LET tok == keys[k].by
                        g == keys[k].group
                    IN  IF tok.version = 1 THEN g \in tok.groups
                        ELSE /\ \E t \in tok.texts :
                                  /\ t[2] # None
                                  /\ \E gr \in Range(t[2].grants) :
                                       "c" \in gr.ops /\ (gr.key = Star \/ IsPrefix(gr.key, g))
                             /\ \A p \in PolicyText :
                                  During(tok, tok.sub) = {p} /\ p.sections /\
                                  Len(p.exclude) <= KeyMax /\
                                  Len(tok.grants) + Len(tok.exclude) <= MaxPayload =>
                                    ~\E e \in Range(p.exclude) : e # Star /\ IsPrefix(e, g)
  BY DEF KeysFollowGrants
<1> DEFINE tok == keys[k].by
           g == keys[k].group
<1>1. tok \in tokens BY DEF TokensInv, Tables
<1>2. TokenShape(tok) /\ Follows(tok) /\ Authorises(tok, g, "c")
  BY <1>1 DEF KeysInv, TokensInv, ClaimsFollowPolicies
<1> HIDE DEF tok, g
<1>3. CASE tok.version = 1
  <2>1. g \in tok.groups BY <1>2, <1>3 DEF Authorises
  <2> QED BY <1>3, <2>1 DEF tok, g
<1>4. CASE tok.version # 1
  <2>1. /\ tok.version = 2 /\ Len(tok.grants) \in Nat /\ DOMAIN tok.grants = 1 .. Len(tok.grants)
        /\ tok.exclude # None /\ Len(tok.exclude) \in Nat
    BY <1>2, <1>4 DEF TokenShape
  <2>2. /\ Readable(tok).grants = IF Len(tok.grants) > MaxPayload THEN None ELSE tok.grants
        /\ Readable(tok).exclude =
             IF Len(tok.grants) + Len(tok.exclude) > MaxPayload THEN None ELSE tok.exclude
    BY <2>1 DEF Readable
  <2>3. AuthCheck(Readable(tok).grants, Readable(tok).exclude, g, "c") BY <1>2, <2>1 DEF Authorises
  <2>4. /\ Readable(tok).grants = tok.grants /\ "c" \in BestMatch(tok.grants, g).ops
        /\ ~Excluded(Readable(tok).exclude, g)
    BY <2>2, <2>3 DEF AuthCheck
  <2>5. PICK i \in 1 .. Len(tok.grants) :
          /\ "c" \in tok.grants[i].ops
          /\ tok.grants[i].key = Star \/ Covers(tok.grants[i].key, g)
    BY <2>1, <2>4, BestIsGranted
  <2> DEFINE own == During(tok, tok.sub)
             teams == UNION {Range(p.teams) : p \in own \ {None}}
             read == {p \in (own \cup UNION {During(tok, n) : n \in teams}) \ {None} : p.sections}
  <2>6. tok.grants[i] \in Range(tok.grants) BY <2>1 DEF Range
  <2>7. "c" \in MergeOps(read, tok.grants[i].key) BY <1>2, <2>1, <2>5, <2>6 DEF Follows
  <2>8. \A p \in read : p # None /\ \E n : p \in During(tok, n) OBVIOUS
  <2>9. \A p \in PolicyText :
          own = {p} /\ p.sections /\ Len(p.exclude) <= KeyMax =>
            Range(p.exclude) \subseteq Range(tok.exclude)
    BY <1>2, <1>4 DEF Follows
  <2> HIDE DEF read
  <2>10a. PICK p \in read : \E gr \in Range(p.grants) : gr.key = tok.grants[i].key /\ "c" \in gr.ops
    BY <2>7 DEF MergeOps
  <2>10. PICK gr \in Range(p.grants) : gr.key = tok.grants[i].key /\ "c" \in gr.ops
    BY <2>10a
  <2>11. gr.key = Star \/ IsPrefix(gr.key, g) BY <2>5, <2>10 DEF Covers
  <2>12. PICK t \in tok.texts : t[2] = p /\ p # None BY <2>8 DEF During
  <2>13. ASSUME NEW x \in PolicyText, own = {x}, x.sections, Len(x.exclude) <= KeyMax,
                Len(tok.grants) + Len(tok.exclude) <= MaxPayload,
                NEW e \in Range(x.exclude), e # Star, IsPrefix(e, g)
         PROVE  FALSE
    <3>1. e \in Range(tok.exclude) BY <2>9, <2>13
    <3>0. MaxPayload \in Nat BY TokensAssumption
    <3>2. Readable(tok).exclude = tok.exclude
      <4> DEFINE i1 == Len(tok.grants)
                 i2 == Len(tok.exclude)
      <4>1. /\ i1 \in Nat /\ i2 \in Nat /\ i1 + i2 <= MaxPayload
            /\ Readable(tok).exclude = IF i1 + i2 > MaxPayload THEN None ELSE tok.exclude
        BY <2>1, <2>2, <2>13
      <4> HIDE DEF i1, i2
      <4> QED BY ONLY <3>0, <4>1
    <3> QED BY <2>1, <2>4, <2>13, <3>1, <3>2 DEF Excluded, Covers
  <2>14. \E y \in tok.texts : /\ y[2] # None
                              /\ \E h \in Range(y[2].grants) :
                                   "c" \in h.ops /\ (h.key = Star \/ IsPrefix(h.key, g))
    BY <2>10, <2>11, <2>12
  <2> QED BY <1>4, <2>13, <2>14 DEF tok, g, own
<1> QED BY <1>3, <1>4

(* The whole way from POST /policies to POST /keys: however administrators  *)
(* change policies while tokens are issued and used, a publisher's key is   *)
(* there only for a group that a policy read for its token grants and that  *)
(* no policy in force throughout excludes.                                  *)
THEOREM KeysNeedAPolicy == Spec => []KeysFollowGrants
<1>1. Init => KeysInv BY DEF Init, KeysInv
<1> QED BY <1>1, KeysInvStep, KeysInvSuffices, TokensInvariant, PTL DEF Spec
=============================================================================
