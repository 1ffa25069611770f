----------------------------- MODULE MCZoneMap -----------------------------
(* Files of one direct zone, one single indirect block with two zones and a  *)
(* double indirect block with two more of them.                              *)
EXTENDS ZoneMap, TLC

Chunk(p, n) == [pos |-> p, len |-> n]

\* The second half of the direct block, and a block of each kind of the others.
Near == {Chunk(1, 1), Chunk(3, 1), Chunk(6, 1), Chunk(10, 1)}

Symmetry == Permutations(Files) \cup Permutations(Zones)
=============================================================================
