---------------------------- MODULE MCAlgorithms ----------------------------
(* Instances of Algorithms: texts with every kind of identifier, numbers up *)
(* to the largest int of four bits, grants and exclusions in every order.   *)
EXTENDS Algorithms

CONSTANTS k1, k2, key, sha256, dsha256, blank, mixed, com, acme, lib

Text(nums, pre) == [nums |-> nums, pre |-> pre, clean |-> TRUE]

Pres == {<<>>, <<Num(0)>>, <<Num(2)>>, <<Word(1)>>, <<Word(2)>>, <<Word(1), Num(1)>>,
         <<Word(1), Word(1)>>, <<Word(1), Empty>>, <<Word(1), Empty, Num(1)>>}

SomeVersions == {Text(<<1, 0, 0>>, p) : p \in Pres}
                \cup {Text(n, <<>>) : n \in {<<0, 7, 7>>, <<1, 0, 7>>, <<1, 7, 0>>, <<7, 0, 0>>}}
                \cup {Text(<<1, 0, 7>>, <<Num(2)>>)}

SomeCandidates == {Text(<<x, y, z>>, p) : x, y, z \in 0 .. 2, p \in {<<>>, <<Num(0)>>, <<Word(1)>>}}

RangeOf(form, nums, pre) ==
  [form |-> form, from |-> Text(nums, pre), to |-> Text(<<2, 0, 0>>, <<>>),
   open |-> "(", close |-> "]"]

SomeRanges ==
  {RangeOf(f, <<x, y, z>>, p) : f \in {"^", "~", "exact"}, x, y, z \in 0 .. 1,
                                p \in {<<>>, <<Num(1)>>}}
  \cup {RangeOf("star", n, <<>>) : n \in {<<1>>, <<0>>, <<1, 2>>, <<0, 1>>}}
  \cup {RangeOf("*", <<>>, <<>>), RangeOf("exact", <<1, Junk, 0>>, <<>>)}

Keys3 == {Star, <<com>>, <<com, acme>>}

SomeGrants ==
  LET gr(k, o) == [key |-> k, ops |-> o]
      opsets == {{}, {"r"}, {"r", "c"}}
  IN  {<<>>} \cup {<<gr(k, o)>> : k \in Keys3, o \in opsets}
      \cup {<<gr(p[1], p[2]), gr(q[1], q[2])>> :
              p \in Keys3 \X opsets, q \in Keys3 \X opsets}
      \cup {<<gr(s[1], {"r"}), gr(s[2], {"c"}), gr(s[3], {"w", "d"})>> :
              s \in {t \in Keys3 \X Keys3 \X Keys3 : Cardinality(Range(t)) = 3}}

DistinctGrants == {gs \in SomeGrants : Cardinality({gs[i].key : i \in DOMAIN gs}) = Len(gs)}

SomeExcludes == {<<>>, <<<<com, acme>>>>, <<<<com, lib>>, <<com, acme>>>>, <<<<com, acme, lib>>>>,
                 <<Star>>}

SomeGroups == {<<com>>, <<com, acme>>, <<com, acme, lib>>, <<acme, com>>}

Columns == <<key, sha256, dsha256>>
ColumnSuffixes == {<<sha256, dsha256>>}
TextsInside == {<<mixed, dsha256>>, <<mixed, sha256>>, <<k2, sha256>>}
==============================================================================
