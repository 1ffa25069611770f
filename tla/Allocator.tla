----------------------------- MODULE Allocator -----------------------------
(***************************************************************************)
(* What a bitmap server promises its callers (the Bitmap interface of       *)
(* minixfs/common/interfaces.go): AllocInode and AllocZone return a number  *)
(* that is free, FreeInode and FreeZone make a number available again, and  *)
(* every call takes effect at one point between its start and its return.   *)
(***************************************************************************)
EXTENDS Integers

CONSTANTS Clients,
          Kinds,     \* what is allocated: inodes and zones
          Numbers    \* Numbers[kind]: the numbers there are of that kind

VARIABLES held,      \* <<kind, number>> pairs that callers hold
          taken,     \* <<kind, number>> pairs that are not available
          stage,     \* stage[c]: "idle", "asked" or "answered"
          ask,       \* ask[c]: the call c makes
          answer     \* answer[c]: what it returned

vars == <<held, taken, stage, ask, answer>>

NoCall == [op |-> "none", kind |-> 0, num |-> 0]
NoAnswer == [ok |-> FALSE, num |-> 0]
Pairs(kind) == {<<kind, n>> : n \in Numbers[kind]}

\* A free of a number that is not in range, or Close, has no effect ("Pass").
Calls == {[op |-> "Pass", kind |-> 0, num |-> 0]}
    \cup {[op |-> "Alloc", kind |-> k, num |-> 0] : k \in Kinds}
    \cup UNION {{[op |-> "Free", kind |-> k, num |-> n] : n \in Numbers[k]} : k \in Kinds}

Init ==
  /\ held \in SUBSET UNION {Pairs(k) : k \in Kinds}
  /\ taken = held
  /\ stage = [c \in Clients |-> "idle"]
  /\ ask = [c \in Clients |-> NoCall]
  /\ answer = [c \in Clients |-> NoAnswer]

Ask(c, r) ==
  /\ stage[c] = "idle"
  /\ IF r.op = "Free"
     THEN <<r.kind, r.num>> \in held /\ held' = held \ {<<r.kind, r.num>>}
     ELSE UNCHANGED held
  /\ stage' = [stage EXCEPT ![c] = "asked"]
  /\ ask' = [ask EXCEPT ![c] = r]
  /\ UNCHANGED <<taken, answer>>

Answer(c, op, a) ==
  /\ stage[c] = "asked" /\ ask[c].op = op
  /\ stage' = [stage EXCEPT ![c] = "answered"]
  /\ answer' = [answer EXCEPT ![c] = a]
  /\ UNCHANGED <<held, ask>>

Allocate(c, n) ==
  /\ <<ask[c].kind, n>> \in Pairs(ask[c].kind) \ taken
  /\ taken' = taken \cup {<<ask[c].kind, n>>}
  /\ Answer(c, "Alloc", [ok |-> TRUE, num |-> n])

Refuse(c) ==
  /\ Pairs(ask[c].kind) \subseteq taken
  /\ UNCHANGED taken
  /\ Answer(c, "Alloc", NoAnswer)

Release(c) ==
  /\ taken' = taken \ {<<ask[c].kind, ask[c].num>>}
  /\ Answer(c, "Free", [ok |-> TRUE, num |-> 0])

Pass(c) == UNCHANGED taken /\ Answer(c, "Pass", [ok |-> TRUE, num |-> 0])

Return(c) ==
  /\ stage[c] = "answered"
  /\ held' = IF ask[c].op = "Alloc" /\ answer[c].ok
             THEN held \cup {<<ask[c].kind, answer[c].num>>} ELSE held
  /\ stage' = [stage EXCEPT ![c] = "idle"]
  /\ ask' = [ask EXCEPT ![c] = NoCall]
  /\ answer' = [answer EXCEPT ![c] = NoAnswer]
  /\ UNCHANGED taken

Effect(c) == \/ \E n \in Numbers[ask[c].kind] : Allocate(c, n)
             \/ Refuse(c) \/ Release(c) \/ Pass(c)

Next == \E c \in Clients : (\E r \in Calls : Ask(c, r)) \/ Effect(c) \/ Return(c)

Spec == Init /\ [][Next]_vars
=============================================================================
