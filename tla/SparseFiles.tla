---------------------------- MODULE SparseFiles ----------------------------
(***************************************************************************)
(* What the files of a device promise, whatever zones hold them: a file is  *)
(* the bytes that were written to it, with zeroes where none were, and no   *)
(* file changes another.                                                    *)
(***************************************************************************)
EXTENDS Integers

CONSTANTS Files, MaxSize, Values,
          Blocksize      \* the length of the longest write

VARIABLE bytes     \* bytes[f]: the bytes of f, from 0 on

Empty == [i \in 0 .. -1 |-> 0]
Size(b) == CHOOSE n \in 0 .. MaxSize : DOMAIN b = 0 .. n - 1
Larger(m, n) == IF m < n THEN n ELSE m
Extended(b, n) == [i \in 0 .. Larger(Size(b), n) - 1 |-> IF i \in DOMAIN b THEN b[i] ELSE 0]

Init == bytes = [f \in Files |-> Empty]

Write(f, pos, len, v) ==
  bytes' = [bytes EXCEPT ![f] =
              [i \in DOMAIN Extended(@, pos + len) |->
                 IF i \in pos .. (pos + len) - 1 THEN v ELSE Extended(@, pos + len)[i]]]

\* A write that finds no zone writes nothing, but the file may reach up to it.
FailedWrite(f, pos) == bytes' = [bytes EXCEPT ![f] = Extended(@, pos)]

Remove(f) == bytes' = [bytes EXCEPT ![f] = Empty]

\* (Steps that change nothing are left to stuttering.)
Next ==
  /\ bytes' # bytes
  /\ \E f \in Files :
       \/ \E pos \in 0 .. MaxSize, len \in 1 .. Blocksize, v \in Values :
            pos + len <= MaxSize /\ Write(f, pos, len, v)
       \/ \E pos \in 0 .. MaxSize : FailedWrite(f, pos)
       \/ Remove(f)

Spec == Init /\ [][Next]_bytes
=============================================================================
