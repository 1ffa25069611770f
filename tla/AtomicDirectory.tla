--------------------------- MODULE AtomicDirectory ---------------------------
(***************************************************************************)
(* What an open directory promises (the Dinode interface of                 *)
(* minixfs/common/interfaces.go): clients search and change it              *)
(* concurrently, and each call takes effect at one point between its start  *)
(* and its return.  Link adds an entry, whether or not there is one of that *)
(* name; Unlink removes one.                                                *)
(***************************************************************************)
EXTENDS Naturals

CONSTANTS Clients,
          Entries,     \* the entries [name, inum] that can be made
          Dots,        \* the names . and ..
          MaxSlots

VARIABLES entries,     \* entries[e]: how often the directory has e
          stage,       \* stage[c]: "idle", "asked" or "answered"
          ask,         \* ask[c]: the call c makes
          answer       \* answer[c]: what it returned

vars == <<entries, stage, ask, answer>>

NoCall == [op |-> "none"]
NoAnswer == [ok |-> FALSE, inum |-> 0]
Yes == [ok |-> TRUE, inum |-> 0]

Named(name) == {e \in Entries : e.name = name /\ entries[e] > 0}

Init ==
  /\ entries \in [Entries -> 0 .. MaxSlots]
  /\ stage = [c \in Clients |-> "idle"]
  /\ ask = [c \in Clients |-> NoCall]
  /\ answer = [c \in Clients |-> NoAnswer]

Names == {e.name : e \in Entries}
AllCalls == {[op |-> op, name |-> n] : op \in {"lookup", "lookupGet", "unlink"}, n \in Names}
    \cup {[op |-> "link", name |-> e.name, inum |-> e.inum] : e \in Entries}
    \cup {[op |-> "isEmpty"]}

Ask(c, r) ==
  /\ stage[c] = "idle"
  /\ stage' = [stage EXCEPT ![c] = "asked"]
  /\ ask' = [ask EXCEPT ![c] = r]
  /\ UNCHANGED <<entries, answer>>

Answer(c, op, a) ==
  /\ stage[c] = "asked" /\ ask[c].op = op
  /\ stage' = [stage EXCEPT ![c] = "answered"]
  /\ answer' = [answer EXCEPT ![c] = a]
  /\ UNCHANGED ask

Found(c, op) == \E e \in Named(ask[c].name) : Answer(c, op, [ok |-> TRUE, inum |-> e.inum])
Missing(c, op) == Named(ask[c].name) = {} /\ Answer(c, op, NoAnswer)

Lookup(c) == ask[c].op = "lookup" /\ (Found(c, "lookup") \/ Missing(c, "lookup")) /\ UNCHANGED entries

\* The inode cache may be full, or the inode unreadable.
LookupGet(c) ==
  /\ ask[c].op = "lookupGet"
  /\ Found(c, "lookupGet") \/ Answer(c, "lookupGet", NoAnswer)
  /\ UNCHANGED entries

IsEmpty(c) ==
  /\ Answer(c, "isEmpty", [ok |-> \A e \in Entries : entries[e] > 0 => e.name \in Dots, inum |-> 0])
  /\ UNCHANGED entries

\* The disk may be full.
Link(c) ==
  /\ ask[c].op = "link"
  /\ \/ /\ entries' = [entries EXCEPT ![[name |-> ask[c].name, inum |-> ask[c].inum]] = @ + 1]
        /\ Answer(c, "link", Yes)
     \/ Answer(c, "link", NoAnswer) /\ UNCHANGED entries

Unlink(c) ==
  /\ ask[c].op = "unlink"
  /\ \/ \E e \in Named(ask[c].name) :
          entries' = [entries EXCEPT ![e] = @ - 1] /\ Answer(c, "unlink", Yes)
     \/ Missing(c, "unlink") /\ UNCHANGED entries

Return(c) ==
  /\ stage[c] = "answered"
  /\ stage' = [stage EXCEPT ![c] = "idle"]
  /\ ask' = [ask EXCEPT ![c] = NoCall]
  /\ answer' = [answer EXCEPT ![c] = NoAnswer]
  /\ UNCHANGED entries

Next == \E c \in Clients :
          \/ \E r \in AllCalls : Ask(c, r)
          \/ Lookup(c) \/ LookupGet(c) \/ IsEmpty(c) \/ Link(c) \/ Unlink(c) \/ Return(c)

Spec == Init /\ [][Next]_vars
=============================================================================
