---------------------------- MODULE MCRevocation ----------------------------
(* Instances of Revocation: three tokens, one expiring before the others. *)
EXTENDS Revocation, TLC

CONSTANTS j1, j2, j3

Expiry == [t \in Token |-> IF t = j1 THEN 1 ELSE 3]

(* The threads are alike, and so are the tokens that expire together. *)
Alike == Permutations(Thread) \cup Permutations({j2, j3})
==============================================================================
