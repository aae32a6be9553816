------------------------------- MODULE MCGrid -------------------------------
(* Three registries.  East has a key and asks west and south, south first;  *)
(* west has a key, is asked over TLS, wants signatures and knows east's;    *)
(* south has no key and lists east and itself.                              *)
EXTENDS Grid, TLC

CONSTANTS c1, c2, east, west, south, lib, com, acme, other

PeerOf(mode, priority, pk) == [mode |-> mode, priority |-> priority, pk |-> pk]

GroupsOfPaths == [p \in Path |-> <<com, acme>>]

(* Version 1; reads all but com.other; reads all but com.acme. *)
T1 == [version |-> 1, grants |-> None, exclude |-> None]
T2 == [version |-> 2, exclude |-> <<<<com, other>>>>,
       grants |-> <<[key |-> <<com, other>>, ops |-> {"c"}], [key |-> <<com>>, ops |-> {"r"}]>>]
T3 == [version |-> 2, exclude |-> <<<<com, acme>>>>, grants |-> <<[key |-> Star, ops |-> {"r"}]>>]

(* One grant more than a header over TLS holds; more than the buffer does. *)
T4 == [T2 EXCEPT !.exclude = None, !.grants = <<[key |-> Star, ops |-> {"c"}]>> \o @]
T5 == [T4 EXCEPT !.grants = <<[key |-> <<acme>>, ops |-> {}]>> \o @]

Q(c, r, kind, query, via, t) ==
  [from |-> c, at |-> r, kind |-> kind, query |-> query, via |-> via, token |-> t,
   accept |-> TRUE]

Odd(q) == [q EXCEPT !.accept = FALSE]

Questions ==
  {Q(c1, east, "artifact", "", FALSE, T2), Q(c1, east, "artifact", "", FALSE, T3),
   Q(c1, east, "artifact", "", TRUE, T2), Q(c1, east, "artifact", "", FALSE, None),
   Q(c1, east, "artifact", "", FALSE, T5), Q(c1, east, "resolve", "", FALSE, T4),
   Q(c1, east, "resolve", "yanked", FALSE, T2), Q(c1, east, "manifest", "grid", FALSE, T3),
   Odd(Q(c2, west, "artifact", "", FALSE, T1)), Q(c2, west, "resolve", "", FALSE, T1),
   Q(c2, west, "manifest", "coords", FALSE, T3),
   Q(c2, south, "artifact", "", FALSE, None), Odd(Q(c2, south, "resolve", "", FALSE, None)),
   Q(c2, south, "manifest", "grid", FALSE, None)}

E(r, id, row) == [at |-> r, id |-> id, row |-> row]

Edits == {E(west, east, None), E(west, east, PeerOf("p", 1, None)), E(east, south, None),
          E(east, west, PeerOf("r", 1, west)), E(south, west, PeerOf("p", 3, None))}

Tables ==
  [r \in Registry |->
     CASE r = east -> (east :> None @@ west :> PeerOf("p", 2, None) @@ south :> PeerOf("p", 1, None))
       [] r = west -> (east :> PeerOf("p", 2, east) @@ west :> None @@ south :> None)
       [] r = south -> (east :> PeerOf("r", 1, east) @@ west :> None @@ south :> PeerOf("p", 1, None))]

Holdings == [r \in Registry |-> [p \in Path |-> IF r = west THEN "published" ELSE "absent"]]
=============================================================================
