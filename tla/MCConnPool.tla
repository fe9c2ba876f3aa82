----------------------------- MODULE MCConnPool -----------------------------
(* Two threads, three connections, ids that share a bucket, a stripe or       *)
(* neither.  Threads and addresses are interchangeable.                       *)
EXTENDS ConnPool, TLC

Symmetry == Permutations(Threads) \cup Permutations(Objs)

=============================================================================
