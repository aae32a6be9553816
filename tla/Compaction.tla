----------------------------- MODULE Compaction -----------------------------
(***************************************************************************)
(* The loop that several parts of the server run over their arrays: the    *)
(* elements to keep are copied to the front, in order, and the count       *)
(* becomes how many they are.  It is written with positions, and not with  *)
(* SelectSeq, so that facts about it can be proved.                        *)
(***************************************************************************)
EXTENDS Naturals, Sequences, FiniteSets

(* How many positions of K are not past i. *)
Rank(K, i) == Cardinality({j \in K : j <= i})

(* The n-th position of K. *)
Nth(K, n) == CHOOSE i \in K : Rank(K, i) = n

(* for (i = 0; i < count; i++) if (keep i) entries[wr++] = entries[i]; *)
Compact(seq, K) == [n \in 1 .. Cardinality(K) |-> seq[Nth(K, n)]]
=============================================================================
