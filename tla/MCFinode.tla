------------------------------ MODULE MCFinode ------------------------------
(* A file of up to three bytes in blocks of two: spans that start inside a   *)
(* block, cross into the next one, append, and pass the limit.               *)
EXTENDS Finode

Span(p, n) == [pos |-> p, len |-> n]

MixedSpans == {Span(1, 2), Span(3, 1)}

\* One call inside the file that may also have to append.
OneSpan == {Span(1, 2)}
=============================================================================
