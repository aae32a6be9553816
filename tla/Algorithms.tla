----------------------------- MODULE Algorithms -----------------------------
(***************************************************************************)
(* The pure algorithms of the registry against reference definitions: each *)
(* behaviour takes one input (versions, a range, a permission question) or *)
(* runs statements on the key-value backend.                               *)
(***************************************************************************)
EXTENDS SemVer, Grants, KvTable

CONSTANTS VersionText, \* texts of versions compared with each other
          RangeText,   \* texts of ranges
          Candidate,   \* texts of versions tried against a range
          GrantList, ExcludeList, Group  \* claims and groups of a question

(* Keys are groups with at least one segment, or Star; a token, whose       *)
(* claims come from a merge, lists none of them twice.                      *)
IsKey(key) == key = Star \/ (key \in Seq(Range(key)) /\ Len(key) > 0)

ASSUME ClaimShapes ==
  /\ None \notin GrantList /\ None \notin ExcludeList
  /\ \A g \in Group : g \in Seq(Range(g)) /\ \A n \in 1 .. Len(g) : SubSeq(g, 1, n) # Star
  /\ \A gs \in GrantList :
       /\ gs \in Seq(Range(gs)) /\ \A i \in DOMAIN gs : IsKey(gs[i].key)
       /\ \A i, j \in DOMAIN gs : gs[i].key = gs[j].key => i = j
  /\ \A ex \in ExcludeList : ex \in Seq(Range(ex)) /\ \A i \in DOMAIN ex : IsKey(ex[i])

(* Texts of versions and ranges: no number that an int cannot hold, nor one *)
(* whose successor it cannot; identifiers as SemVer has them, but for dots  *)
(* in a row or at the end.                                                  *)
Identifier == [kind : {"num", "word"}, val : Nat] \cup {Empty}

TextOf(Nums) == [nums : Nums, pre : Seq(Identifier), clean : {TRUE}]

OnlyTrailingDot(pre) == \A i \in DOMAIN pre : pre[i] = Empty => i = Len(pre) /\ i > 1

ASSUME TextShapes ==
  /\ VersionText \subseteq TextOf([1 .. 3 -> 0 .. IntLimit - 1])
  /\ Candidate \subseteq TextOf([1 .. 3 -> 0 .. IntLimit - 1])
  /\ \A t \in Candidate : OnlyTrailingDot(t.pre)
  /\ \A r \in RangeText :
       /\ r.form \in {"^", "~"} => r.from \in TextOf([1 .. 3 -> 0 .. IntLimit - 2])
       /\ r.form = "star" => /\ \E n \in 1 .. 2 : r.from \in TextOf([1 .. n -> 0 .. IntLimit - 2])
                             /\ r.from.pre = <<>>
       /\ r.form = "exact" => /\ r.from \in TextOf(Seq(0 .. IntLimit - 1 \cup {Junk}))
                              /\ OnlyTrailingDot(r.from.pre)

VARIABLE input

askVars == <<input, store, table, lost, strayed, status, stmts>>

Nothing == [ask |-> "nothing"]

AskInit == input = Nothing /\ KvInit

AskOrder ==
  /\ input = Nothing /\ stmts = 0
  /\ \E a, b, c \in VersionText : input' = [ask |-> "order", a |-> a, b |-> b, c |-> c]
  /\ UNCHANGED kvVars

AskRange ==
  /\ input = Nothing /\ stmts = 0
  /\ \E r \in RangeText, v \in Candidate : input' = [ask |-> "range", range |-> r, v |-> v]
  /\ UNCHANGED kvVars

AskGrant ==
  /\ input = Nothing /\ stmts = 0
  /\ \E gs \in GrantList \cup {None}, ex \in ExcludeList \cup {None}, g \in Group, op \in Ops :
       input' = [ask |-> "grant", grants |-> gs, exclude |-> ex, group |-> g, op |-> op]
  /\ UNCHANGED kvVars

RunStatement ==
  /\ input = Nothing
  /\ KvNext
  /\ UNCHANGED input

AskNext == AskOrder \/ AskRange \/ AskGrant \/ RunStatement

AskSpec == AskInit /\ [][AskNext]_askVars

-----------------------------------------------------------------------------
(* SemVer 2.0, section 11, for well-formed versions. *)
IdBelow(a, b) ==
  \/ a.kind = "num" /\ b.kind = "word"
  \/ a.kind = b.kind /\ a.val < b.val

(* s comes before t: they differ first at i, where s is lower or has ended. *)
FirstBelow(s, t, Below(_, _)) ==
  \E i \in 1 .. Len(t) :
    /\ i - 1 <= Len(s)
    /\ \A j \in 1 .. i - 1 : s[j] = t[j]
    /\ i > Len(s) \/ Below(s[i], t[i])

Precedes(x, y) ==
  \/ FirstBelow(x.nums, y.nums, LAMBDA m, n : m < n)
  \/ /\ x.nums = y.nums
     /\ x.pre # <<>>
     /\ y.pre = <<>> \/ FirstBelow(x.pre, y.pre, IdBelow)

WellFormed(text) == Empty \notin Range(text.pre)

(* cookbook_semver.h:20, "Compare two versions per SemVer 2.0 precedence":  *)
(* on well-formed versions whose numbers fit an int the comparison is the   *)
(* precedence of the standard, and with empty identifiers it still is one   *)
(* consistent order, so that sorting and ranges do not depend on which      *)
(* version is compared with which.                                          *)
PrecedenceLaw ==
  input.ask = "order" =>
    LET a == Parse(input.a)
        b == Parse(input.b)
        c == Parse(input.c)
    IN  /\ WellFormed(input.a) /\ WellFormed(input.b) =>
             /\ Compare(a, b) < 0 <=> Precedes(input.a, input.b)
             /\ Compare(a, b) = 0 <=> input.a = input.b
        /\ Compare(a, b) <= 0 <=> Compare(b, a) >= 0
        /\ Compare(a, b) <= 0 /\ Compare(b, c) <= 0 => Compare(a, c) <= 0
        /\ Compare(a, b) = 0 => (Compare(a, c) < 0 <=> Compare(b, c) < 0)

(* The first version above a range, as the comments of range_satisfies say. *)
Top(r) ==
  LET n == r.from.nums IN
  CASE r.form = "~" -> <<n[1], n[2] + 1, 0>>
    [] r.form = "star" /\ Len(n) = 1 -> <<n[1] + 1, 0, 0>>
    [] r.form = "star" /\ Len(n) > 1 -> <<n[1], n[2] + 1, 0>>
    [] r.form = "^" /\ n[1] # 0 -> <<n[1] + 1, 0, 0>>
    [] r.form = "^" /\ n[1] = 0 /\ n[2] # 0 -> <<0, n[2] + 1, 0>>
    [] r.form = "^" /\ n[1] = 0 /\ n[2] = 0 -> <<0, 0, n[3] + 1>>

Bottom(r) == IF r.form = "star" THEN SubSeq(r.from.nums \o <<0, 0>>, 1, 3) ELSE r.from.nums

Interval(r) ==
  [form |-> "bounded", open |-> "[", close |-> ")",
   from |-> [nums |-> Bottom(r), pre |-> r.from.pre, clean |-> TRUE],
   to   |-> [nums |-> Top(r), pre |-> <<>>, clean |-> TRUE]]

(* cookbook_semver.c:209, "^1.3.0 means >=1.3.0, <2.0.0" (~ and wildcards   *)
(* alike): for releases each shorthand is the bounded range it stands       *)
(* for; a pre-release matches ^ and ~ only within that range and only for   *)
(* the version the range names, and a wildcard never.                       *)
RangeLaw ==
  input.ask = "range" =>
    LET r == input.range
        v == Parse(input.v)
        sat == Satisfies(RangeParse(r), v)
        within == Satisfies(RangeParse(Interval(r)), v)
    IN  /\ r.form \in {"^", "~", "star"} /\ ~IsPre(v) => sat = within
        /\ r.form \in {"^", "~"} /\ IsPre(v) =>
             sat = (within /\ input.v.nums = r.from.nums)
        /\ r.form \in {"star", "*"} /\ IsPre(v) => ~sat
        /\ r.form = "exact" => sat = (input.v.nums = r.from.nums /\
                                      Compared(input.v.pre) = Compared(r.from.pre))

(* The question decided without walking: the grants that cover the group,   *)
(* of these the longest key; Star if there is none.                         *)
Allowed(grants, exclude, g, op) ==
  LET cover == {gr \in Range(grants) : gr.key # Star /\ IsPrefix(gr.key, g)} IN
  /\ \/ \E gr \in cover : op \in gr.ops /\ \A x \in cover : Len(x.key) <= Len(gr.key)
     \/ cover = {} /\ \E gr \in Range(grants) : gr.key = Star /\ op \in gr.ops
  /\ ~\E n \in 1 .. Len(g) : SubSeq(g, 1, n) \in Range(exclude)

(* docs/capabilities.md: the longest matching grant decides, an exclusion   *)
(* of the group or of one above it overrides it, whatever the order in      *)
(* which a token lists them; and a peer that is sent the claims in headers  *)
(* decides as the registry does, as long as they fit into the buffer of     *)
(* build_grid_grant_headers, and unless there is no grant to send at all,   *)
(* which a peer takes for open access.                                      *)
GrantLaw ==
  input.ask = "grant" =>
    LET gs == input.grants
        ex == input.exclude
        ok == AuthCheck(gs, ex, input.group, input.op)
    IN  /\ ok = (gs # None /\ Allowed(gs, IF ex = None THEN <<>> ELSE ex, input.group, input.op))
        /\ gs \notin {None, <<>>} /\ Fits(gs, ex) =>
             \A h \in GrantHeaders(2, gs, ex) : CheckGridAuth(h, input.group, input.op) = ok
==============================================================================
