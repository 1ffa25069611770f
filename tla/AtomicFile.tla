----------------------------- MODULE AtomicFile -----------------------------
(***************************************************************************)
(* What an open file promises (the Finode interface of                      *)
(* minixfs/common/interfaces.go): clients read and write it concurrently,   *)
(* and each Read and Write takes effect at one point between its call and   *)
(* its return.  A Read returns the bytes the file has in the span asked     *)
(* for; a Write stores the number of bytes it returns and no other.         *)
(***************************************************************************)
EXTENDS Integers

CONSTANTS Clients, MaxSize, Values

VARIABLES size,
          bytes,    \* the contents: a function on 0 .. size - 1
          stage,    \* stage[c]: "idle", "asked" or "answered"
          ask,      \* ask[c]: the call c makes
          answer    \* answer[c]: what it returned

vars == <<size, bytes, stage, ask, answer>>

NoCall == [op |-> "none", pos |-> 0, len |-> 0]
NoAnswer == [ok |-> FALSE, n |-> 0, data |-> <<>>]

\* The number of bytes the file has in a span.
Available(pos, len) == IF pos + len <= size THEN len
                       ELSE IF pos <= size THEN size - pos ELSE 0

Init ==
  /\ size \in 0 .. MaxSize
  /\ bytes \in [0 .. size - 1 -> Values]
  /\ stage = [c \in Clients |-> "idle"]
  /\ ask = [c \in Clients |-> NoCall]
  /\ answer = [c \in Clients |-> NoAnswer]

Ask(c, r) ==
  /\ stage[c] = "idle"
  /\ r.op \in {"read", "write"}
  /\ stage' = [stage EXCEPT ![c] = "asked"]
  /\ ask' = [ask EXCEPT ![c] = r]
  /\ UNCHANGED <<size, bytes, answer>>

Answer(c, op, a) ==
  /\ stage[c] = "asked" /\ ask[c].op = op
  /\ stage' = [stage EXCEPT ![c] = "answered"]
  /\ answer' = [answer EXCEPT ![c] = a]
  /\ UNCHANGED ask

Read(c) ==
  LET n == Available(ask[c].pos, ask[c].len)
  IN  /\ Answer(c, "read", [ok |-> TRUE, n |-> n,
                            data |-> [i \in 0 .. n - 1 |-> bytes[ask[c].pos + i]]])
      /\ UNCHANGED <<size, bytes>>

\* All n = len bytes are written, or fewer and the call fails.
Write(c, n) ==
  LET end == ask[c].pos + n IN
  /\ ask[c].op = "write" /\ n <= ask[c].len
  /\ size' = IF n > 0 /\ end > size THEN end ELSE size
  /\ bytes' = [i \in 0 .. size' - 1 |->
                 IF i >= ask[c].pos /\ i < end THEN ask[c].val ELSE bytes[i]]
  /\ Answer(c, "write", [ok |-> n = ask[c].len, n |-> n, data |-> <<>>])

Return(c) ==
  /\ stage[c] = "answered"
  /\ stage' = [stage EXCEPT ![c] = "idle"]
  /\ ask' = [ask EXCEPT ![c] = NoCall]
  /\ answer' = [answer EXCEPT ![c] = NoAnswer]
  /\ UNCHANGED <<size, bytes>>

AllSpans == [pos : 0 .. MaxSize, len : 0 .. MaxSize + 1]
Calls == {[op |-> "read", pos |-> s.pos, len |-> s.len] : s \in AllSpans}
    \cup {[op |-> "write", pos |-> s.pos, len |-> s.len, val |-> v] : s \in AllSpans, v \in Values}

Next == \E c \in Clients :
          (\E r \in Calls : Ask(c, r)) \/ Read(c) \/ (\E n \in 0 .. MaxSize : Write(c, n)) \/ Return(c)

Spec == Init /\ [][Next]_vars
=============================================================================
