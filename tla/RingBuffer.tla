------------------------------ MODULE RingBuffer ------------------------------
(***************************************************************************)
(* The growable ring buffer (pkg/buffer/ring, type Buffer), used by one    *)
(* goroutine at a time.  Sizes are scaled down: MinRead, DefaultBufferSize *)
(* and bufferGrowThreshold are constants.  Byte values are numbered in the *)
(* order in which they are written, modulo NumBytes.                       *)
(***************************************************************************)
EXTENDS Integers, Sequences

CONSTANTS
  MinRead, DefaultBufferSize, GrowThreshold,
  MaxSize,    \* bound: no operation lets the buffer grow beyond it
  MaxChunk,   \* bound: bytes of one Write or Read
  MaxStream,  \* bound: bytes one Reader holds
  NumBytes,   \* byte values; more than MaxSize, so that any mix-up is seen
  AwkwardIO   \* FALSE: a Reader holds something and fills the slice it is offered
              \* (bytes.Reader), and a Writer accepts something.  TRUE: they use all
              \* the freedom of io.Reader and io.Writer

ASSUME RingAssumption ==
  /\ MinRead \in Nat \ {0} /\ DefaultBufferSize \in Nat \ {0}
  /\ GrowThreshold \in Nat /\ GrowThreshold >= 4
  /\ MaxSize \in Nat /\ MaxChunk \in Nat /\ MaxStream \in Nat
  /\ NumBytes \in Nat /\ NumBytes > MaxSize /\ AwkwardIO \in BOOLEAN

VARIABLES
  rb,    \* the Buffer: [buf, size, r, w, isEmpty]
  next,  \* the next byte value to be written
  out,   \* the bytes the last operation handed out
  op,    \* the kind of the last operation
  left,  \* bytes the Reader of ReadFrom still holds
  phase, \* which Read of its loop ReadFrom has to make next, "idle" outside ReadFrom
  panic  \* an index was out of range

vars == <<rb, next, out, op, left, phase, panic>>

Byte == 0..NumBytes   \* 0: the bytes of a fresh slice
Fresh(n) == [i \in 1..n |-> 1 + ((next + i - 1) % NumBytes)]
Lesser(a, b) == IF a < b THEN a ELSE b

-----------------------------------------------------------------------------
(* The methods of Buffer as functions on its record.                       *)

\* copy(b.buf[at:], p)
Copy(b, at, p) ==
  [b EXCEPT !.buf = [i \in DOMAIN @ |-> IF i \in at .. (at + Len(p) - 1)
                                        THEN p[i - at + 1] ELSE @[i]]]
Slice(b, from, n) == [i \in 1..n |-> b.buf[from + i - 1]]

Make(n) == [i \in 0 .. (n - 1) |-> 0]

CeilToPowerOfTwo(n) ==
  LET double[m \in 1 .. (2 * n)] == IF m >= n THEN m ELSE double[2 * m]
  IN  IF n <= 0 THEN 0 ELSE double[1]

\* The bound leaves room for a buffer as New makes it.
ASSUME BoundAssumption == \A n \in 0..DefaultBufferSize : CeilToPowerOfTwo(n) <= MaxSize

New(n) == LET size == CeilToPowerOfTwo(n)
          IN  [buf |-> Make(size), size |-> size, r |-> 0, w |-> 0, isEmpty |-> TRUE]

Reset(b) == [b EXCEPT !.r = 0, !.w = 0, !.isEmpty = TRUE]

Buffered(b) ==
  IF b.r = b.w THEN (IF b.isEmpty THEN 0 ELSE b.size)
  ELSE IF b.w > b.r THEN b.w - b.r ELSE b.size - b.r + b.w

\* Mutant: a ring that wraps keeps one byte between w and r.
AvailableKeepsGap(b) ==
  IF b.r = b.w THEN (IF b.isEmpty THEN b.size ELSE 0)
  ELSE IF b.w < b.r THEN b.r - b.w - 1 ELSE b.size - b.w + b.r

Available(b) ==
  IF b.r = b.w THEN (IF b.isEmpty THEN b.size ELSE 0)
  ELSE IF b.w < b.r THEN b.r - b.w ELSE b.size - b.w + b.r

\* Bytes, and the two parts of peekAll put together.
Contents(b) ==
  IF b.isEmpty THEN <<>>
  ELSE IF b.w > b.r THEN Slice(b, b.r, b.w - b.r)
  ELSE Slice(b, b.r, b.size - b.r) \o Slice(b, 0, b.w)

\* The two parts of Peek put together.
Peek(b, n) ==
  IF b.isEmpty \/ n <= 0 THEN Contents(b)
  ELSE IF b.w > b.r THEN Slice(b, b.r, Lesser(n, b.w - b.r))
  ELSE LET m == Lesser(n, b.size - b.r + b.w)
       IN  IF b.r + m <= b.size THEN Slice(b, b.r, m)
           ELSE Slice(b, b.r, b.size - b.r) \o Slice(b, 0, m - (b.size - b.r))

\* rb.r moves on by n; an emptied buffer starts from 0 again.
Advance(b, n) ==
  LET moved == [b EXCEPT !.r = IF b.w > b.r THEN @ + n ELSE (@ + n) % b.size]
  IN  IF moved.r = moved.w THEN Reset(moved) ELSE moved

\* grow: its new capacity ...
GrownSize(b, newCap) ==
  LET quarter[n \in 1 .. (2 * (b.size + newCap))] ==
        IF n >= newCap THEN n ELSE quarter[n + n \div 4]
  IN  IF b.size = 0
      THEN (IF newCap <= DefaultBufferSize THEN DefaultBufferSize
                                           ELSE CeilToPowerOfTwo(newCap))
      ELSE IF newCap > 2 * b.size THEN newCap
      ELSE IF b.size < GrowThreshold THEN 2 * b.size
      ELSE quarter[b.size]

\* ... and the buffer it leaves; w is not wrapped.
Grow(b, newCap) ==
  LET size == GrownSize(b, newCap)
      old  == Contents(b)
  IN  Copy([buf |-> Make(size), size |-> size, r |-> 0, w |-> Len(old),
            isEmpty |-> old = <<>>], 0, old)

\* The part of Write after grow.
Store(b, p) ==
  LET n == Len(p)
      c1 == b.size - b.w
      w == IF b.w >= b.r /\ c1 < n THEN n - c1 ELSE b.w + n
      filled == IF b.w >= b.r /\ c1 < n
                THEN Copy(Copy(b, b.w, SubSeq(p, 1, c1)), 0, SubSeq(p, c1 + 1, n))
                ELSE Copy(b, b.w, p)
  IN  [filled EXCEPT !.w = IF w = b.size THEN 0 ELSE w, !.isEmpty = FALSE]

\* Mutant: grow is asked for the missing bytes only.
RoomForMissing(b, n) ==
  IF n > Available(b) THEN Grow(b, n - Available(b)) ELSE b

RoomFor(b, n) ==
  IF n > Available(b) THEN Grow(b, b.size + n - Available(b)) ELSE b

-----------------------------------------------------------------------------
(* The operations.                                                         *)

Init ==
  /\ \E n \in 0..DefaultBufferSize : rb = New(n)
  /\ next = 0 /\ out = <<>> /\ op = "none" /\ left = 0 /\ phase = "idle" /\ panic = FALSE

Result(kind, bytes) == op' = kind /\ out' = bytes
Wrote(n) == next' = (next + n) % NumBytes /\ Result("put", <<>>)
Took(bytes) == Result("take", bytes) /\ UNCHANGED next

Write(n) ==
  /\ phase = "idle"
  /\ rb' = Store(RoomFor(rb, n), Fresh(n)) /\ rb'.size <= MaxSize
  /\ Wrote(n) /\ UNCHANGED <<left, phase, panic>>

\* Mutant: w is not wrapped at the end of the slice.
WriteByteNoWrap ==
  /\ phase = "idle"
  /\ LET b == IF Available(rb) < 1 THEN Grow(rb, 1) ELSE rb
     IN  IF b.w >= b.size
         THEN panic' = TRUE /\ UNCHANGED <<rb, next, out, op>>
         ELSE /\ rb' = [Copy(b, b.w, Fresh(1)) EXCEPT !.w = @ + 1, !.isEmpty = FALSE]
              /\ rb'.size <= MaxSize /\ Wrote(1) /\ UNCHANGED panic
  /\ UNCHANGED <<left, phase>>

\* grow(1) makes no room in a full buffer of GrowThreshold bytes or more, and then
\* rb.buf[rb.w] is out of range.
WriteByte ==
  /\ phase = "idle"
  /\ LET b == IF Available(rb) < 1 THEN Grow(rb, 1) ELSE rb
     IN  IF b.w >= b.size
         THEN panic' = TRUE /\ UNCHANGED <<rb, next, out, op>>
         ELSE rb' = Store(b, Fresh(1)) /\ rb'.size <= MaxSize /\ Wrote(1) /\ UNCHANGED panic
  /\ UNCHANGED <<left, phase>>

\* Read with a slice of n > 0 bytes; an empty buffer answers ErrIsEmpty.
Read(n) ==
  /\ phase = "idle" /\ ~rb.isEmpty
  /\ LET m == Lesser(n, Buffered(rb))
     IN  Took(Peek(rb, m)) /\ rb' = Advance(rb, m)
  /\ UNCHANGED <<left, phase, panic>>

ReadByte ==
  /\ phase = "idle" /\ ~rb.isEmpty
  /\ Took(<<rb.buf[rb.r]>>)
  /\ LET r == IF rb.r + 1 = rb.size THEN 0 ELSE rb.r + 1
     IN  rb' = IF r = rb.w THEN Reset(rb) ELSE [rb EXCEPT !.r = r]
  /\ UNCHANGED <<left, phase, panic>>

Discard(n) ==
  /\ phase = "idle" /\ n > 0
  /\ rb' = IF n < Buffered(rb) THEN [rb EXCEPT !.r = (@ + n) % rb.size] ELSE Reset(rb)
  /\ Result("drop", <<>>) /\ UNCHANGED <<next, left, phase, panic>>

ResetOp ==
  /\ phase = "idle" /\ rb' = Reset(rb)
  /\ Result("drop", <<>>) /\ UNCHANGED <<next, left, phase, panic>>

\* WriteTo: the Writer accepts m bytes.  When the content wraps, the part behind the
\* end of the slice is offered by a second Write, after the first has taken all of its.
WriteTo(m) ==
  /\ phase = "idle" /\ ~rb.isEmpty
  /\ m \in 0..Buffered(rb) /\ (m > 0 \/ AwkwardIO)
  /\ Took(SubSeq(Contents(rb), 1, m))
  /\ LET wraps == rb.w <= rb.r /\ rb.w # 0
     IN  rb' = IF wraps /\ m < rb.size - rb.r THEN [rb EXCEPT !.r = @ + m]
               ELSE Advance(rb, m)
  /\ UNCHANGED <<left, phase, panic>>

-----------------------------------------------------------------------------
(* ReadFrom: a loop over calls of the Reader.                              *)

MakeRoom(b) == IF Available(b) < MinRead THEN Grow(b, Buffered(b) + MinRead) ELSE b

ReadFrom(n) ==
  /\ phase = "idle" /\ (n > 0 \/ AwkwardIO)
  /\ rb' = MakeRoom(rb) /\ rb'.size <= MaxSize
  /\ phase' = "first" /\ left' = n
  /\ Result("put", <<>>) /\ UNCHANGED <<next, panic>>

\* The Reader puts m bytes into a slice of the given length; done: it returns io.EOF.
Gives(m, room, done) ==
  /\ m <= Lesser(left, room) /\ (done => m = left)
  /\ ~AwkwardIO => m = Lesser(left, room) /\ (done <=> left = 0)
  /\ left' = left - m
Filled(b, at, m) == [Copy(b, at, Fresh(m)) EXCEPT !.w = (@ + m) % b.size]

\* The Read into rb.buf[rb.w:], or into rb.buf[rb.w:rb.r].
ReadFirst(m, done) ==
  /\ phase = "first"
  /\ Gives(m, IF rb.w >= rb.r THEN rb.size - rb.w ELSE rb.r - rb.w, done)
  /\ LET b == [Filled(rb, rb.w, m) EXCEPT !.isEmpty = FALSE]
     IN  IF done THEN rb' = b /\ phase' = "idle"
         ELSE IF rb.w >= rb.r THEN rb' = b /\ phase' = "second"
         ELSE rb' = MakeRoom(b) /\ rb'.size <= MaxSize /\ phase' = "first"
  /\ Wrote(m) /\ UNCHANGED panic

\* The Read into rb.buf[:rb.r] that follows the one into rb.buf[rb.w:], however many
\* bytes that one got.
ReadSecond(m, done) ==
  /\ phase = "second" /\ Gives(m, rb.r, done)
  /\ LET b == Filled(rb, 0, m)
     IN  IF done THEN rb' = b /\ phase' = "idle"
         ELSE rb' = MakeRoom(b) /\ rb'.size <= MaxSize /\ phase' = "first"
  /\ Wrote(m) /\ UNCHANGED panic

Next ==
  /\ ~panic
  /\ \/ \E n \in 1..MaxChunk : Write(n) \/ Read(n)
     \/ WriteByte \/ ReadByte \/ ResetOp
     \/ \E n \in 1..MaxSize : Discard(n)
     \/ \E m \in 0..MaxSize : WriteTo(m)
     \/ \E n \in 0..MaxStream : ReadFrom(n)
     \/ \E m \in 0..MaxStream, done \in BOOLEAN : ReadFirst(m, done) \/ ReadSecond(m, done)

Spec == Init /\ [][Next]_vars

-----------------------------------------------------------------------------
(* Properties.                                                             *)

\* Kinds of values; the indices lie in the slice.
TypeOK ==
  /\ rb.size \in 0..MaxSize /\ DOMAIN rb.buf = 0 .. (rb.size - 1)
  /\ \A i \in DOMAIN rb.buf : rb.buf[i] \in Byte
  /\ rb.r \in 0..rb.size /\ rb.w \in 0..rb.size /\ rb.isEmpty \in BOOLEAN
  /\ rb.size > 0 => rb.r < rb.size /\ rb.w < rb.size
  /\ next \in 0..NumBytes /\ out \in Seq(Byte) /\ op \in {"none", "put", "take", "drop"}
  /\ left \in 0..MaxStream /\ phase \in {"idle", "first", "second"} /\ panic \in BOOLEAN

\* The buffer is a first-in first-out queue of bytes under every mix of its operations,
\* through wrapping and growing: Bytes() is the content, Write, WriteByte and ReadFrom
\* append to it, Read, ReadByte and WriteTo hand out a prefix.
Fifo == INSTANCE ByteFifo WITH content <- Contents(rb)
ImplementsFifo == Fifo!Spec

\* The queries, each with a case split of its own on r, w and isEmpty, agree with one
\* another and with Bytes, and Peek shows the prefix that Read would hand out.
QueriesAgree ==
  /\ Buffered(rb) = Len(Contents(rb)) /\ Buffered(rb) + Available(rb) = rb.size
  /\ \A n \in 1..MaxSize : Peek(rb, n) = SubSeq(Contents(rb), 1, Lesser(n, Buffered(rb)))

\* "WriteByte writes a single byte into the buffer" (ring_buffer.go:247), also into a full
\* one: it makes room first, and never runs out of the slice.
ByteIsWritten == ~panic

\* "ReadFrom reads from r continuously and writes into the buffer" (ring_buffer.go:337):
\* afterwards the buffer holds the bytes that were written last, in order.
HoldsWhatWasWritten ==
  LET n == Len(Contents(rb))
  IN  phase = "idle" => \A i \in 1..n : Contents(rb)[i] = 1 + ((next - n + i - 1) % NumBytes)

\* "WriteTo writes all readable data to w" (ring_buffer.go:389): the bytes that w does
\* not accept stay readable.
UnwrittenStays ==
  [][ op' = "take" => out' \o Contents(rb') = Contents(rb) ]_vars
=============================================================================
