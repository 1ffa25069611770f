----------------------------- MODULE OpenInodes -----------------------------
(***************************************************************************)
(* What an inode cache promises its callers (the InodeCache interface of    *)
(* minixfs/common/interfaces.go): an inode exists as long as it has a name  *)
(* or a user, and its number is free again as soon as it has neither.       *)
(***************************************************************************)
CONSTANTS Clients, Ids

VARIABLES refs,      \* refs[c]: the inodes that client c uses
          linked,    \* the inodes that have a name
          free       \* the numbers that are not allocated

vars == <<refs, linked, free>>

Init ==
  /\ refs = [c \in Clients |-> {}]
  /\ linked \in SUBSET Ids
  /\ free = Ids \ linked

Used(i) == \E c \in Clients : i \in refs[c]
Use(c, i) == refs' = [refs EXCEPT ![c] = @ \cup {i}]

Alloc(i) == i \in free /\ free' = free \ {i} /\ UNCHANGED <<refs, linked>>

Create(c, i) ==
  /\ i \notin free \cup linked /\ ~Used(i)
  /\ Use(c, i) /\ UNCHANGED <<linked, free>>

Open(c, i) ==
  /\ i \in linked \ refs[c]
  /\ Use(c, i) /\ UNCHANGED <<linked, free>>

Link(c, i) ==
  /\ i \in refs[c] \ linked
  /\ linked' = linked \cup {i} /\ UNCHANGED <<refs, free>>

Unlink(c, i) ==
  /\ i \in refs[c] \cap linked
  /\ linked' = linked \ {i} /\ UNCHANGED <<refs, free>>

Close(c, i) ==
  /\ i \in refs[c]
  /\ refs' = [refs EXCEPT ![c] = @ \ {i}]
  /\ free' = {j \in free \cup {i} : j \in free \/ (i \notin linked /\ ~Used(i)')}
  /\ UNCHANGED linked

Next == \E i \in Ids :
          \/ Alloc(i)
          \/ \E c \in Clients : \/ Create(c, i) \/ Open(c, i) \/ Close(c, i)
                               \/ Link(c, i) \/ Unlink(c, i)

Spec == Init /\ [][Next]_vars
=============================================================================
