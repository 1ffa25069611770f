------------------------------ MODULE LRUPool ------------------------------
(***************************************************************************)
(* What a block cache with least-recently-used replacement promises         *)
(* (TestLRUOrder of minixfs/bcache/cache_test.go): a block stays in its     *)
(* buffer until the buffer is the free one that was given back first, and   *)
(* no block is in two buffers.                                              *)
(***************************************************************************)
EXTENDS Sequences, FiniteSets, Integers

CONSTANTS Buffers, Blocks, None

VARIABLES order,     \* the free buffers, the next one to be taken first
          content    \* content[s]: the block of buffer s, or None

vars == <<order, content>>

Orders(S) == {q \in [1 .. Cardinality(S) -> S] : \A i, j \in DOMAIN q : q[i] = q[j] => i = j}

Init == order \in Orders(Buffers) /\ content = [s \in Buffers |-> None]

Take(b) ==
  /\ order # <<>>
  /\ \A s \in Buffers : content[s] # b
  /\ content' = [content EXCEPT ![Head(order)] = b]
  /\ order' = Tail(order)

\* A buffer that is not free is given back, to be taken last or (ONE_SHOT) next.
Give(s) ==
  /\ \A i \in DOMAIN order : order[i] # s
  /\ order' \in {Append(order, s), <<s>> \o order}
  /\ UNCHANGED content

\* Blocks are invalidated.
Forget(bs) ==
  /\ content' = [s \in Buffers |-> IF content[s] \in bs THEN None ELSE content[s]]
  /\ UNCHANGED order

Next == \/ \E b \in Blocks : Take(b)
        \/ \E s \in Buffers : Give(s)
        \/ \E bs \in SUBSET Blocks : Forget(bs)

Spec == Init /\ [][Next]_vars
=============================================================================
