---------------------------- MODULE MCInodeCache ----------------------------
(* Inodes of one device or of two.                                           *)
EXTENDS InodeCache, TLC

OneDevice == {<<0, 1>>, <<0, 2>>}
TwoDevices == {<<0, 1>>, <<0, 2>>, <<1, 1>>}

\* The clients are interchangeable.
ClientSymmetry == Permutations(Clients)
=============================================================================
