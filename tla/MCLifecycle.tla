---------------------------- MODULE MCLifecycle ----------------------------
EXTENDS Lifecycle, TLC

(* People, threads and links are interchangeable. *)
Interchangeable == Permutations(People) \cup Permutations(Threads) \cup Permutations(Links)
=============================================================================
