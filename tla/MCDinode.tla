------------------------------ MODULE MCDinode ------------------------------
(* A directory of up to two blocks of two entries, in any state: IsEmpty,     *)
(* Lookup, LookupGet and updates that move an entry between the blocks.       *)
EXTENDS Dinode

Entry(n, i) == [name |-> n, inum |-> i]

SomeEntries == {Entry(".", 1), Entry("a", 2), Entry("b", 3)}

SomeCalls ==
  {[op |-> "lookup", name |-> "a"], [op |-> "lookupGet", name |-> "a"], [op |-> "isEmpty"],
   [op |-> "link", name |-> "a", inum |-> 2], [op |-> "unlink", name |-> "a"],
   [op |-> "unlink", name |-> "b"], [op |-> "lock"], [op |-> "unlock"], [op |-> "close"]}
=============================================================================
