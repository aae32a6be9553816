------------------------------ MODULE MCPublish ------------------------------
(* Instances of Publish: which body says what, in small universes. *)
EXTENDS Publish, TLC

CONSTANTS c1, c2, g1, b1, b2, bare, bad, w1, w2

OneGroup == [c \in Coord |-> g1]

(* b1 names c1, b2 names c2; bare has no coordinate fields, any other is not *)
(* a descriptor.                                                            *)
NamesApart ==
  [b \in Body |-> CASE b = b1 -> c1 [] b = b2 -> c2 [] b = bare -> "fieldless" [] OTHER -> "unparsable"]

WorkerSymmetry == Permutations(Worker)
==============================================================================
