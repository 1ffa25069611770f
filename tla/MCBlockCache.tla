---------------------------- MODULE MCBlockCache ----------------------------
(* Buffers for blocks 1 to 3 in buckets of their own.                        *)
EXTENDS BlockCache, TLC

\* The clients are interchangeable.
ClientSymmetry == Permutations(Clients)
=============================================================================
