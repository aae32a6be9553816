----------------------------- MODULE MCConnPool -----------------------------
(* Instances of ConnPool; descriptors, peers and threads are alike. *)
EXTENDS ConnPool, TLC

Symmetry == Permutations(Sock) \cup Permutations(Peer) \cup Permutations(Thread)
=============================================================================
