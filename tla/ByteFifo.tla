------------------------------- MODULE ByteFifo -------------------------------
(***************************************************************************)
(* What a growable byte buffer promises: bytes come out in the order they  *)
(* went in, each once, and only a discard or a reset loses any.            *)
(***************************************************************************)
EXTENDS Integers, Sequences

CONSTANT NumBytes  \* byte values: the bytes written are 1, 2, ... NumBytes, 1, ...

VARIABLES
  content,  \* the buffered bytes, the oldest first
  next,     \* the bytes written so far, modulo NumBytes
  out,      \* the bytes the last operation handed out
  op        \* the kind of the last operation

vars == <<content, next, out, op>>

Init == content = <<>> /\ next = 0 /\ out = <<>> /\ op = "none"

Upto(n) == SubSeq(content, 1, n)
From(n) == SubSeq(content, n + 1, Len(content))

Fresh(n) == [i \in 1..n |-> 1 + ((next + i - 1) % NumBytes)]

\* The next n bytes are written, n given by how much longer the content gets.
Put ==
  LET n == Len(content') - Len(content)
  IN  /\ n >= 0 /\ content' = content \o Fresh(n) /\ next' = (next + n) % NumBytes
      /\ op' = "put" /\ out' = <<>>

Take(n) == op' = "take" /\ out' = Upto(n) /\ content' = From(n) /\ UNCHANGED next

Drop(n) == op' = "drop" /\ out' = <<>> /\ content' = From(n) /\ UNCHANGED next

Next == Put \/ \E n \in 0..Len(content) : Take(n) \/ Drop(n)

Spec == Init /\ [][Next]_vars
=============================================================================
