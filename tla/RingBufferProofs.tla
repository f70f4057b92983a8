---------------------------- MODULE RingBufferProofs ----------------------------
(***************************************************************************)
(* Theorems about RingBuffer, for any sizes.  The loops of                 *)
(* CeilToPowerOfTwo and grow are recursive functions: that they have a     *)
(* value, and that it is large enough, is shown by an induction stated     *)
(* with sets.                                                              *)
(***************************************************************************)
EXTENDS RingBuffer, SeqLemmas, FiniteSetTheorems

-----------------------------------------------------------------------------
(* Induction, and loops that climb to a bound.                             *)

\* Otherwise n + 1 would map the elements of A below some m \notin A into fewer.
LEMMA Induction ==
  ASSUME NEW A \in SUBSET Nat, 0 \in A, \A n \in A : n + 1 \in A
  PROVE  A = Nat
<1> SUFFICES ASSUME NEW m \in Nat, m \notin A PROVE FALSE
  OBVIOUS
<1> DEFINE B == {n \in A : n < m}
           s == [n \in B |-> n + 1]
<1>1. B \subseteq 0..m /\ 0 \in B
  <2>1. 0 < m
    <3>1. m # 0
      OBVIOUS
    <3> QED BY <3>1
  <2>2. ASSUME NEW n \in B PROVE n \in 0..m
    <3>1. n \in Nat /\ n < m
      OBVIOUS
    <3> QED BY <3>1
  <2>3. B \subseteq 0..m
    <3> HIDE DEF B
    <3> QED BY <2>2
  <2> QED BY <2>1, <2>3
<1>2. ASSUME NEW n \in B PROVE n + 1 \in B \ {0}
  <2>1. n \in Nat /\ n < m /\ n + 1 \in A
    OBVIOUS
  <2>2. n + 1 # m
    BY <2>1
  <2> QED BY <2>1, <2>2
<1>3. s \in [B -> B \ {0}]
  BY <1>2
<1>4. \A x, y \in B : s[x] = s[y] => x = y
  OBVIOUS
<1> HIDE DEF B, s
<1>5. IsFiniteSet(B)
  <2>1. IsFiniteSet(0..m)
    BY FS_Interval
  <2> QED BY <1>1, <2>1, FS_Subset
<1>6. IsFiniteSet(B \ {0}) /\ Cardinality(B \ {0}) < Cardinality(B)
  <2>1. Cardinality(B) \in Nat
    BY <1>5, FS_CardinalityType
  <2>2. /\ IsFiniteSet(B \ {0})
        /\ Cardinality(B \ {0}) = IF 0 \in B THEN Cardinality(B) - 1 ELSE Cardinality(B)
    BY ONLY <1>5, FS_RemoveElement
  <2>3. Cardinality(B \ {0}) = Cardinality(B) - 1
    BY <1>1, <2>2
  <2>4. \A k \in Nat : k - 1 < k
    OBVIOUS
  <2> QED BY <2>1, <2>2, <2>3, <2>4
<1> QED BY <1>3, <1>4, <1>5, <1>6, FS_PigeonHole

\* g is the loop  for n < c { n = s[n] }  on 1..N.
Loop(g, N, c, s) == g = [n \in 1..N |-> IF n >= c THEN n ELSE g[s[n]]]

\* Such a loop has a value wherever it starts: the last of the numbers it passes.
LEMMA LoopExists ==
  ASSUME NEW N \in Nat, NEW c \in Nat, NEW s, \A n \in 1..N : n < c => s[n] \in 1..N
  PROVE  \E g : Loop(g, N, c, s)
<1> DEFINE Closed(S) == \A x \in S : x < c => s[x] \in S
           Ends(n) == {m \in 1..N : m >= c /\ \A S \in SUBSET (1..N) :
                                                 (n \in S /\ Closed(S)) => m \in S}
           g == [n \in 1..N |-> CHOOSE m : m \in Ends(n)]
<1>1. ASSUME NEW n \in 1..N, n >= c PROVE g[n] = n
  <2>1. n \in Ends(n)
    BY <1>1
  <2>2. ASSUME NEW m \in Ends(n) PROVE m = n
    <3>1. {n} \in SUBSET (1..N) /\ n \in {n} /\ Closed({n})
      BY <1>1
    <3> QED BY <3>1
  <2>3. Ends(n) = {n}
    <3> HIDE DEF Ends
    <3> QED BY <2>1, <2>2
  <2> HIDE DEF Ends
  <2> QED BY <2>3
<1>2. ASSUME NEW n \in 1..N, ~(n >= c) PROVE g[n] = g[s[n]]
  <2>1. n < c /\ s[n] \in 1..N
    BY <1>2
  <2>2. Ends(n) \subseteq Ends(s[n])
    <3> SUFFICES ASSUME NEW m \in Ends(n), NEW S \in SUBSET (1..N), s[n] \in S, Closed(S)
                 PROVE  m \in S
      OBVIOUS
    <3>1. Closed(S \cup {n}) /\ S \cup {n} \in SUBSET (1..N)
      OBVIOUS
    <3>2. m \in S \cup {n}
      BY <3>1
    <3>3. m # n
      BY <2>1
    <3> QED BY <3>2, <3>3
  <2>3. Ends(s[n]) \subseteq Ends(n)
    BY <2>1
  <2>4. Ends(s[n]) = Ends(n)
    <3> HIDE DEF Ends
    <3> QED BY <2>2, <2>3
  <2> HIDE DEF Ends
  <2> QED BY <2>1, <2>4
<1>3. g = [n \in 1..N |-> IF n >= c THEN n ELSE g[s[n]]]
  <2>1. g = [n \in 1..N |-> g[n]]
    OBVIOUS
  <2> HIDE DEF g
  <2> QED BY <1>1, <1>2, <2>1
<1> HIDE DEF g
<1> QED BY <1>3 DEF Loop

\* Where every round moves up, it ends at c or beyond.
LEMMA LoopClimbs ==
  ASSUME NEW N \in Nat, NEW c \in Nat, NEW s, NEW g, Loop(g, N, c, s), c <= N,
         NEW low \in Nat \ {0}, \A n \in low..N : n < c => s[n] \in low..N /\ s[n] > n
  PROVE  \A n \in low..N : g[n] \in low..N /\ g[n] >= c
<1> DEFINE Good(n) == g[n] \in low..N /\ g[n] >= c
           A == {k \in Nat : \A n \in low..N : n + k >= N => Good(n)}
<1>1. \A n \in low..N : /\ n >= c => g[n] = n
                        /\ n < c => g[n] = g[s[n]]
  BY DEF Loop
<1>2. 0 \in A
  BY <1>1
<1>3. ASSUME NEW k \in A PROVE k + 1 \in A
  <2> SUFFICES ASSUME NEW n \in low..N, n + (k + 1) >= N PROVE Good(n)
    OBVIOUS
  <2>1. CASE n >= c
    BY <1>1, <2>1
  <2>2. CASE n < c
    <3>1. s[n] \in low..N /\ s[n] > n
      BY <2>2
    <3>2. s[n] + k >= N
      BY <3>1
    <3>3. Good(s[n])
      BY <3>1, <3>2
    <3> QED BY <1>1, <2>2, <3>3
  <2> QED BY <2>1, <2>2
<1>4. A = Nat
  <2>1. A \in SUBSET Nat
    OBVIOUS
  <2> HIDE DEF A
  <2> QED BY <1>2, <1>3, <2>1, Induction
<1>5. N \in A
  BY <1>4
<1> QED BY <1>5

-----------------------------------------------------------------------------
(* The sizes.                                                              *)

\* CeilToPowerOfTwo makes room for n bytes, and at most twice that.
LEMMA PowerIsEnough ==
  ASSUME NEW n \in Nat \ {0}
  PROVE  CeilToPowerOfTwo(n) \in n .. (2 * n)
<1> DEFINE N == 2 * n
           s == [m \in 1..N |-> 2 * m]
           body(g) == [m \in 1 .. (2 * n) |-> IF m >= n THEN m ELSE g[2 * m]]
           double == CHOOSE g : g = body(g)
<1>1. N \in Nat /\ n <= N /\ \A m \in 1..N : m < n => s[m] \in 1..N /\ s[m] > m
  OBVIOUS
<1>2. PICK f : Loop(f, N, n, s)
  <2> HIDE DEF N, s
  <2> QED BY <1>1, LoopExists
<1>3. ASSUME NEW g PROVE Loop(g, N, n, s) <=> g = body(g)
  <2>1. body(g) = [m \in 1..N |-> IF m >= n THEN m ELSE g[s[m]]]
    OBVIOUS
  <2> HIDE DEF body
  <2> QED BY <2>1 DEF Loop
<1>4. double = body(double)
  <2> HIDE DEF body
  <2>1. f = body(f)
    BY <1>2, <1>3
  <2> QED BY <2>1
<1>5. Loop(double, N, n, s)
  <2> HIDE DEF body, double
  <2> QED BY <1>3, <1>4
<1>6. double[1] \in 1..N /\ double[1] >= n
  <2> HIDE DEF double, s, N
  <2>1. \A m \in 1..N : double[m] \in 1..N /\ double[m] >= n
    BY <1>1, <1>5, LoopClimbs
  <2> QED BY <1>1, <2>1 DEF N
<1>7. CeilToPowerOfTwo(n) = IF n <= 0 THEN 0 ELSE double[1]
  BY DEF CeilToPowerOfTwo
<1> HIDE DEF double
<1> QED BY <1>6, <1>7

\* grow gives at least what it is asked for and never shrinks the slice.
LEMMA GrowsEnough ==
  ASSUME NEW b, b.size \in Nat, NEW newCap \in Nat \ {0}
  PROVE  /\ GrownSize(b, newCap) \in Nat
         /\ GrownSize(b, newCap) >= newCap /\ GrownSize(b, newCap) >= b.size
         /\ b.size < GrowThreshold => GrownSize(b, newCap) > b.size
<1> DEFINE N == 2 * (b.size + newCap)
           s == [n \in 1..N |-> n + n \div 4]
           body(g) == [n \in 1 .. (2 * (b.size + newCap)) |->
                         IF n >= newCap THEN n ELSE g[n + n \div 4]]
           quarter == CHOOSE g : g = body(g)
<1>1. GrownSize(b, newCap) =
        IF b.size = 0
        THEN (IF newCap <= DefaultBufferSize THEN DefaultBufferSize
                                             ELSE CeilToPowerOfTwo(newCap))
        ELSE IF newCap > 2 * b.size THEN newCap
        ELSE IF b.size < GrowThreshold THEN 2 * b.size
        ELSE quarter[b.size]
  BY DEF GrownSize
<1>2. CASE b.size = 0
  <2> HIDE DEF quarter
  <2> QED BY <1>1, <1>2, PowerIsEnough, RingAssumption
<1>3. CASE b.size # 0 /\ (newCap > 2 * b.size \/ b.size < GrowThreshold)
  <2> HIDE DEF quarter
  <2> QED BY <1>1, <1>3, RingAssumption
<1>4. CASE b.size # 0 /\ newCap <= 2 * b.size /\ b.size >= GrowThreshold
  <2>1. N \in Nat /\ newCap <= N /\ \A n \in 1..N : n < newCap => s[n] \in 1..N
    OBVIOUS
  <2>2. b.size \in Nat \ {0} /\ b.size >= 4
    BY <1>4, RingAssumption
  <2>3. \A n \in (b.size)..N : n < newCap => s[n] \in (b.size)..N /\ s[n] > n
    BY <2>1, <2>2
  <2>4. PICK f : Loop(f, N, newCap, s)
    <3> HIDE DEF N, s
    <3> QED BY <2>1, LoopExists
  <2>5. ASSUME NEW g PROVE Loop(g, N, newCap, s) <=> g = body(g)
    <3>1. body(g) = [n \in 1..N |-> IF n >= newCap THEN n ELSE g[s[n]]]
      OBVIOUS
    <3> HIDE DEF body
    <3> QED BY <3>1 DEF Loop
  <2>6. quarter = body(quarter)
    <3> HIDE DEF body
    <3>1. f = body(f)
      BY <2>4, <2>5
    <3> QED BY <3>1
  <2>7. Loop(quarter, N, newCap, s)
    <3> HIDE DEF body, quarter
    <3> QED BY <2>5, <2>6
  <2>8. quarter[b.size] \in (b.size)..N /\ quarter[b.size] >= newCap
    <3> HIDE DEF quarter, s, N
    <3>1. \A n \in (b.size)..N : quarter[n] \in (b.size)..N /\ quarter[n] >= newCap
      BY <2>1, <2>2, <2>3, <2>7, LoopClimbs
    <3>2. b.size \in (b.size)..N
      BY <2>2 DEF N
    <3> QED BY <3>1, <3>2
  <2> HIDE DEF quarter
  <2> QED BY <1>1, <1>4, <2>2, <2>8
<1>5. b.size # 0 => newCap > 2 * b.size \/ b.size < GrowThreshold
                    \/ (newCap <= 2 * b.size /\ b.size >= GrowThreshold)
  BY RingAssumption
<1> HIDE DEF quarter
<1> QED BY <1>2, <1>3, <1>4, <1>5

-----------------------------------------------------------------------------
(* The buffer as a record, and its content byte by byte.                   *)

Buffers ==
  [buf : UNION {[0 .. (n - 1) -> Byte] : n \in Nat}, size : Nat, r : Nat, w : Nat,
   isEmpty : BOOLEAN]

Sound(b) == b \in Buffers /\ b.buf \in [0 .. (b.size - 1) -> Byte]

WellFormed(b) ==
  /\ Sound(b)
  /\ b.r \in 0..b.size /\ b.w \in 0..b.size
  /\ b.size > 0 => b.r < b.size /\ b.w < b.size
  /\ b.isEmpty => b.r = 0 /\ b.w = 0
  /\ ~b.isEmpty => b.size > 0

\* Where the j-th byte after the start of the slice is.
Wrap(b, j) == IF j < b.size THEN j ELSE j - b.size

\* Indices move by % b.size, and never by more than one turn.
LEMMA ModWraps ==
  ASSUME NEW size \in Nat, NEW j \in Nat, j < 2 * size
  PROVE  j % size = IF j < size THEN j ELSE j - size
<1>1. CASE j < size
  BY <1>1, SMT
<1>2. CASE j >= size
  BY <1>2, SMT
<1> QED BY <1>1, <1>2

\* Two sequences of bytes are equal when they are equal byte by byte.
LEMMA SameBytes ==
  ASSUME NEW s \in Seq(Byte), NEW t \in Seq(Byte), Len(s) = Len(t),
         \A i \in 1..Len(s) : s[i] = t[i]
  PROVE  s = t
BY SeqEqual

\* A sequence given byte by byte.
LEMMA IsBytes ==
  ASSUME NEW n \in Nat, NEW s, s = [i \in 1..n |-> s[i]], \A i \in 1..n : s[i] \in Byte
  PROVE  s \in Seq(Byte) /\ Len(s) = n
<1>1. s \in [1..n -> Byte]
  OBVIOUS
<1> QED BY <1>1, SMT

\* A piece of the slice, byte by byte.
LEMMA SliceIs ==
  ASSUME NEW b, WellFormed(b), NEW from \in Nat, NEW n \in Nat, from + n <= b.size
  PROVE  /\ Slice(b, from, n) \in Seq(Byte) /\ Len(Slice(b, from, n)) = n
         /\ \A i \in 1..n : Slice(b, from, n)[i] = b.buf[from + i - 1]
<1> DEFINE s == Slice(b, from, n)
<1>1. s = [i \in 1..n |-> s[i]] /\ \A i \in 1..n : s[i] = b.buf[from + i - 1]
  BY DEF Slice
<1>2. b.size \in Nat /\ b.buf \in [0 .. (b.size - 1) -> Byte]
  BY DEF WellFormed, Sound, Buffers
<1>3. ASSUME NEW i \in 1..n PROVE s[i] \in Byte
  <2>1. from + i - 1 \in 0 .. (b.size - 1)
    BY <1>2
  <2> HIDE DEF s
  <2> QED BY <1>1, <1>2, <2>1
<1> HIDE DEF s
<1>4. s \in Seq(Byte) /\ Len(s) = n
  BY <1>1, <1>3, IsBytes
<1> QED BY <1>1, <1>4 DEF s

SliceOf(s, b, from, n) ==
  s \in Seq(Byte) /\ Len(s) = n /\ \A i \in 1..n : s[i] = b.buf[from + i - 1]

\* The same fact under one name.
LEMMA SliceHolds ==
  ASSUME NEW b, WellFormed(b), NEW from \in Nat, NEW n \in Nat, from + n <= b.size
  PROVE  SliceOf(Slice(b, from, n), b, from, n)
<1>1. /\ Slice(b, from, n) \in Seq(Byte) /\ Len(Slice(b, from, n)) = n
      /\ \A i \in 1..n : Slice(b, from, n)[i] = b.buf[from + i - 1]
  BY SliceIs
<1> QED BY <1>1 DEF SliceOf

\* Two pieces put together.
LEMMA Joined ==
  ASSUME NEW s \in Seq(Byte), NEW t \in Seq(Byte)
  PROVE  /\ s \o t \in Seq(Byte) /\ Len(s \o t) = Len(s) + Len(t)
         /\ \A i \in 1 .. (Len(s) + Len(t)) :
              (s \o t)[i] = IF i <= Len(s) THEN s[i] ELSE t[i - Len(s)]
BY ConcatProperties

\* Buffered and Available divide the slice between them.
LEMMA BufferedIs ==
  ASSUME NEW b, WellFormed(b)
  PROVE  /\ Buffered(b) \in 0..b.size /\ Available(b) \in 0..b.size
         /\ Buffered(b) + Available(b) = b.size
         /\ Buffered(b) = 0 <=> b.isEmpty
         /\ b.isEmpty \/ b.w = Wrap(b, b.r + Buffered(b))
<1>1. /\ b.size \in Nat /\ b.r \in 0..b.size /\ b.w \in 0..b.size /\ b.isEmpty \in BOOLEAN
      /\ b.size > 0 => b.r < b.size /\ b.w < b.size
      /\ b.isEmpty => b.r = 0 /\ b.w = 0
      /\ ~b.isEmpty => b.size > 0
  BY DEF WellFormed, Sound, Buffers
<1>2. CASE b.isEmpty
  BY <1>1, <1>2 DEF Buffered, Available
<1>3. CASE ~b.isEmpty
  BY <1>1, <1>3 DEF Buffered, Available, Wrap
<1> QED BY <1>2, <1>3

\* The content, byte by byte.
LEMMA ContentsIs ==
  ASSUME NEW b, WellFormed(b)
  PROVE  /\ Contents(b) \in Seq(Byte) /\ Len(Contents(b)) = Buffered(b)
         /\ \A i \in 1..Buffered(b) : Contents(b)[i] = b.buf[Wrap(b, b.r + i - 1)]
<1>1. b.size \in Nat /\ b.r \in 0..b.size /\ b.w \in 0..b.size
  BY DEF WellFormed, Sound, Buffers
<1>2. CASE b.isEmpty
  <2>1. Contents(b) = <<>> /\ Buffered(b) = 0
    BY <1>2, BufferedIs DEF Contents
  <2> QED BY <2>1
<1>3. CASE ~b.isEmpty /\ b.w > b.r
  <2>1. Contents(b) = Slice(b, b.r, b.w - b.r) /\ Buffered(b) = b.w - b.r
    BY <1>1, <1>3 DEF Contents, Buffered
  <2>2. b.w - b.r \in Nat /\ b.r \in Nat /\ b.r + (b.w - b.r) <= b.size
    BY <1>1, <1>3
  <2>4. /\ Slice(b, b.r, b.w - b.r) \in Seq(Byte) /\ Len(Slice(b, b.r, b.w - b.r)) = b.w - b.r
        /\ \A i \in 1 .. (b.w - b.r) : Slice(b, b.r, b.w - b.r)[i] = b.buf[b.r + i - 1]
    BY ONLY <2>2, SliceIs, WellFormed(b)
  <2>3. \A i \in 1..Buffered(b) : Wrap(b, b.r + i - 1) = b.r + i - 1
    BY <1>1, <1>3, <2>1 DEF Wrap
  <2> QED BY <2>1, <2>3, <2>4
<1>4. CASE ~b.isEmpty /\ ~(b.w > b.r)
  <2> DEFINE s == Slice(b, b.r, b.size - b.r)
             t == Slice(b, 0, b.w)
  <2>1. Contents(b) = s \o t /\ Buffered(b) = (b.size - b.r) + b.w
    BY <1>1, <1>4 DEF Contents, Buffered
  <2>2. b.size - b.r \in Nat /\ b.r \in Nat /\ b.w \in Nat
    BY <1>1
  <2>3. /\ s \in Seq(Byte) /\ Len(s) = b.size - b.r
        /\ \A i \in 1 .. (b.size - b.r) : s[i] = b.buf[b.r + i - 1]
    <3>1. b.r + (b.size - b.r) <= b.size
      BY <1>1
    <3> QED BY ONLY <2>2, <3>1, SliceIs, WellFormed(b)
  <2>4. /\ t \in Seq(Byte) /\ Len(t) = b.w
        /\ \A i \in 1 .. b.w : t[i] = b.buf[0 + i - 1]
    <3>1. 0 + b.w <= b.size /\ 0 \in Nat
      BY <1>1
    <3> QED BY ONLY <2>2, <3>1, SliceIs, WellFormed(b)
  <2> HIDE DEF s, t
  <2>5. /\ s \o t \in Seq(Byte) /\ Len(s \o t) = (b.size - b.r) + b.w
        /\ \A i \in 1 .. ((b.size - b.r) + b.w) :
             (s \o t)[i] = IF i <= b.size - b.r THEN s[i] ELSE t[i - (b.size - b.r)]
    <3>1. /\ s \o t \in Seq(Byte) /\ Len(s \o t) = Len(s) + Len(t)
          /\ \A i \in 1 .. (Len(s) + Len(t)) :
               (s \o t)[i] = IF i <= Len(s) THEN s[i] ELSE t[i - Len(s)]
      BY ONLY <2>3, <2>4, Joined
    <3> QED BY <2>3, <2>4, <3>1
  <2>6. ASSUME NEW i \in 1..Buffered(b) PROVE (s \o t)[i] = b.buf[Wrap(b, b.r + i - 1)]
    <3>1. CASE i <= b.size - b.r
      <4>1. (s \o t)[i] = b.buf[b.r + i - 1]
        BY <1>1, <2>1, <2>3, <2>5, <3>1
      <4>2. Wrap(b, b.r + i - 1) = b.r + i - 1
        BY <1>1, <2>1, <3>1 DEF Wrap
      <4> QED BY <4>1, <4>2
    <3>2. CASE ~(i <= b.size - b.r)
      <4>1. i - (b.size - b.r) \in 1..b.w
        BY <1>1, <2>1, <3>2
      <4>2. (s \o t)[i] = t[i - (b.size - b.r)]
        BY <1>1, <2>1, <2>5, <3>2
      <4>4. t[i - (b.size - b.r)] = b.buf[0 + (i - (b.size - b.r)) - 1]
        BY ONLY <2>4, <4>1
      <4>3. Wrap(b, b.r + i - 1) = 0 + (i - (b.size - b.r)) - 1
        BY <1>1, <2>1, <3>2 DEF Wrap
      <4> QED BY <4>2, <4>3, <4>4
    <3> QED BY <3>1, <3>2
  <2> QED BY <2>1, <2>5, <2>6
<1> QED BY <1>2, <1>3, <1>4
\* The indices of a buffer.
LEMMA Indices ==
  ASSUME NEW b, WellFormed(b)
  PROVE  /\ b.size \in Nat /\ b.r \in 0..b.size /\ b.w \in 0..b.size /\ b.isEmpty \in BOOLEAN
         /\ b.size > 0 => b.r < b.size /\ b.w < b.size
         /\ b.isEmpty => b.r = 0 /\ b.w = 0
         /\ ~b.isEmpty => b.size > 0
         /\ b.buf \in [0 .. (b.size - 1) -> Byte]
BY DEF WellFormed, Sound, Buffers

\* How many bytes lie between the two indices of a buffer that holds any.
LEMMA BufferedFrom ==
  ASSUME NEW b, WellFormed(b), ~b.isEmpty, NEW n \in 1 .. b.size, b.w = Wrap(b, b.r + n)
  PROVE  Buffered(b) = n
BY Indices DEF Buffered, Wrap

\* An index that has wrapped lies in the slice.
LEMMA WrapType ==
  ASSUME NEW b, WellFormed(b), b.size > 0, NEW j \in Nat, j < 2 * b.size
  PROVE  Wrap(b, j) \in 0 .. (b.size - 1)
BY Indices DEF Wrap

\* Going on from an index that has wrapped.
LEMMA WrapTwice ==
  ASSUME NEW b, WellFormed(b), b.size > 0, NEW n \in 0..b.size, NEW j \in Nat, n + j < b.size
  PROVE  Wrap(b, Wrap(b, b.r + n) + j) = Wrap(b, b.r + n + j)
BY Indices DEF Wrap

\* The bytes p are put behind the content.
LEMMA Appended ==
  ASSUME NEW b, WellFormed(b), NEW c, WellFormed(c), c.size = b.size, c.r = b.r, ~c.isEmpty,
         NEW p \in Seq(Byte), Len(p) <= Available(b), Buffered(b) + Len(p) > 0,
         c.w = Wrap(b, b.w + Len(p)),
         \A j \in 1..Len(p) : c.buf[Wrap(b, b.w + j - 1)] = p[j],
         \A k \in 1..Buffered(b) : c.buf[Wrap(b, b.r + k - 1)] = b.buf[Wrap(b, b.r + k - 1)]
  PROVE  Contents(c) = Contents(b) \o p
<1> DEFINE B == Buffered(b)
           n == Len(p)
<1>1. B \in Nat /\ n \in Nat /\ B + n <= b.size /\ B + n > 0 /\ b.size \in Nat /\ b.size > 0
  BY BufferedIs, Indices
<1>2. b.w = Wrap(b, b.r + B)
  <2>1. CASE b.isEmpty
    <3>1. b.r = 0 /\ b.w = 0 /\ B = 0
      BY <2>1, BufferedIs, Indices
    <3> QED BY <1>1, <3>1 DEF Wrap
  <2>2. CASE ~b.isEmpty
    BY <2>2, BufferedIs
  <2> QED BY <2>1, <2>2
<1>3. Buffered(c) = B + n
  <2>1. c.w = Wrap(c, c.r + (B + n))
    <3>1. b.r \in Nat /\ b.r < b.size /\ c.r = b.r /\ c.size = b.size
      BY <1>1, Indices
    <3>2. b.w = IF b.r + B < b.size THEN b.r + B ELSE (b.r + B) - b.size
      BY ONLY <1>2 DEF Wrap
    <3>3. c.w = IF b.w + n < b.size THEN b.w + n ELSE (b.w + n) - b.size
      BY DEF Wrap
    <3> HIDE DEF B, n
    <3>4. c.w = IF b.r + (B + n) < b.size THEN b.r + (B + n) ELSE (b.r + (B + n)) - b.size
      <4>1. CASE b.r + B < b.size
        <5>1. b.w = b.r + B
          BY ONLY <3>2, <4>1
        <5>2. b.w + n = b.r + (B + n)
          BY ONLY <1>1, <3>1, <5>1
        <5> QED BY ONLY <3>3, <5>2
      <4>2. CASE ~(b.r + B < b.size)
        <5>1. b.w = (b.r + B) - b.size
          BY ONLY <3>2, <4>2
        <5>2. b.w + n = (b.r + (B + n)) - b.size /\ b.w + n < b.size
              /\ ~(b.r + (B + n) < b.size)
          BY ONLY <1>1, <3>1, <4>2, <5>1
        <5> QED BY ONLY <3>3, <5>2
      <4> QED BY ONLY <4>1, <4>2
    <3> QED BY ONLY <3>1, <3>4 DEF Wrap
  <2>2. B + n \in 1..c.size
    BY <1>1
  <2> HIDE DEF B, n
  <2> QED BY <2>1, <2>2, BufferedFrom
<1>4. /\ Contents(b) \in Seq(Byte) /\ Len(Contents(b)) = B
      /\ \A i \in 1..B : Contents(b)[i] = b.buf[Wrap(b, b.r + i - 1)]
  BY ContentsIs
<1>5. /\ Contents(c) \in Seq(Byte) /\ Len(Contents(c)) = B + n
      /\ \A i \in 1..(B + n) : Contents(c)[i] = c.buf[Wrap(b, b.r + i - 1)]
  <2>1. \A j : Wrap(c, c.r + j - 1) = Wrap(b, b.r + j - 1)
    BY DEF Wrap
  <2>2. /\ Contents(c) \in Seq(Byte) /\ Len(Contents(c)) = Buffered(c)
        /\ \A i \in 1..Buffered(c) : Contents(c)[i] = c.buf[Wrap(c, c.r + i - 1)]
    BY ONLY ContentsIs, WellFormed(c)
  <2> QED BY <1>3, <2>1, <2>2
<1>6. /\ Contents(b) \o p \in Seq(Byte) /\ Len(Contents(b) \o p) = B + n
      /\ \A i \in 1 .. (B + n) :
           (Contents(b) \o p)[i] = IF i <= B THEN Contents(b)[i] ELSE p[i - B]
  <2>1. /\ Contents(b) \o p \in Seq(Byte)
        /\ Len(Contents(b) \o p) = Len(Contents(b)) + Len(p)
        /\ \A i \in 1 .. (Len(Contents(b)) + Len(p)) :
             (Contents(b) \o p)[i] = IF i <= Len(Contents(b)) THEN Contents(b)[i]
                                     ELSE p[i - Len(Contents(b))]
    BY ONLY <1>4, p \in Seq(Byte), Joined
  <2> QED BY <1>4, <2>1
<1>7. ASSUME NEW i \in 1 .. (B + n) PROVE Contents(c)[i] = (Contents(b) \o p)[i]
  <2>1. CASE i <= B
    <3>1. i \in 1..B
      BY <1>1, <2>1
    <3> QED BY <1>4, <1>5, <1>6, <2>1, <3>1
  <2>2. CASE ~(i <= B)
    <3>1. i - B \in 1..n /\ i - B - 1 \in Nat /\ B + (i - B - 1) < b.size
      BY <1>1, <2>2
    <3>2. p[i - B] = c.buf[Wrap(b, b.w + (i - B) - 1)]
      BY <3>1
    <3>3. Wrap(b, b.w + (i - B) - 1) = Wrap(b, b.r + i - 1)
      <4>1. B \in 0..b.size
        BY <1>1
      <4>2. Wrap(b, Wrap(b, b.r + B) + (i - B - 1)) = Wrap(b, b.r + B + (i - B - 1))
        <5> HIDE DEF B
        <5> QED BY ONLY <1>1, <3>1, <4>1, WrapTwice, WellFormed(b)
      <4>3. b.r + B + (i - B - 1) = b.r + i - 1 /\ b.w + (i - B) - 1 = b.w + (i - B - 1)
        BY <1>1, Indices
      <4> QED BY <1>2, <4>2, <4>3
    <3> QED BY <1>5, <1>6, <2>2, <3>2, <3>3
  <2> QED BY <2>1, <2>2
<1> HIDE DEF B, n
<1> QED BY <1>5, <1>6, <1>7, SameBytes

\* The first m bytes of the content are taken away.
LEMMA Dropped ==
  ASSUME NEW b, WellFormed(b), NEW c, WellFormed(c), c.size = b.size, c.buf = b.buf,
         NEW m \in 0..Buffered(b),
         IF m = Buffered(b) THEN c.isEmpty
         ELSE ~c.isEmpty /\ c.r = Wrap(b, b.r + m) /\ c.w = b.w
  PROVE  Contents(c) = SubSeq(Contents(b), m + 1, Len(Contents(b)))
<1> DEFINE B == Buffered(b)
<1>1. B \in Nat /\ B <= b.size /\ m \in Nat /\ b.size \in Nat
  BY BufferedIs, Indices
<1>2. /\ Contents(b) \in Seq(Byte) /\ Len(Contents(b)) = B
      /\ \A i \in 1..B : Contents(b)[i] = b.buf[Wrap(b, b.r + i - 1)]
  BY ContentsIs
<1>3. /\ SubSeq(Contents(b), m + 1, B) \in Seq(Byte)
      /\ Len(SubSeq(Contents(b), m + 1, B)) = B - m
      /\ \A i \in 1 .. (B - m) : SubSeq(Contents(b), m + 1, B)[i] = Contents(b)[m + i]
  BY <1>1, <1>2, SubSeqProperties
<1>4. CASE m = B
  <2>1. Contents(c) = <<>>
    BY <1>4 DEF Contents
  <2>2. Len(SubSeq(Contents(b), m + 1, B)) = 0
    BY <1>1, <1>3, <1>4
  <2> QED BY <1>2, <1>3, <2>1, <2>2, EmptySeq
<1>5. CASE m # B
  <2>1. ~c.isEmpty /\ c.r = Wrap(b, b.r + m) /\ c.w = b.w /\ m < B
    BY <1>1, <1>5
  <2>2. B > 0 /\ b.size > 0 /\ B - m \in 1..b.size /\ b.r \in 0 .. (b.size - 1)
    BY <1>1, <2>1, Indices
  <2>3. b.w = Wrap(b, b.r + B)
    BY <2>2, BufferedIs
  <2>4. Buffered(c) = B - m
    <3>1. c.w = Wrap(c, c.r + (B - m))
      BY <1>1, <2>1, <2>2, <2>3 DEF Wrap
    <3>2. B - m \in 1..c.size
      BY <2>2
    <3> HIDE DEF B
    <3> QED BY ONLY <2>1, <3>1, <3>2, BufferedFrom, WellFormed(c)
  <2>5. /\ Contents(c) \in Seq(Byte) /\ Len(Contents(c)) = B - m
        /\ \A i \in 1 .. (B - m) : Contents(c)[i] = b.buf[Wrap(c, c.r + i - 1)]
    <3>1. /\ Contents(c) \in Seq(Byte) /\ Len(Contents(c)) = Buffered(c)
          /\ \A i \in 1..Buffered(c) : Contents(c)[i] = c.buf[Wrap(c, c.r + i - 1)]
      BY ONLY ContentsIs, WellFormed(c)
    <3> QED BY <2>4, <3>1
  <2>6. ASSUME NEW i \in 1 .. (B - m)
        PROVE  Contents(c)[i] = SubSeq(Contents(b), m + 1, B)[i]
    <3>1. Wrap(c, c.r + i - 1) = Wrap(b, b.r + (m + i) - 1)
      BY <1>1, <2>1, <2>2 DEF Wrap
    <3>2. m + i \in 1..B
      BY <1>1
    <3> QED BY <1>2, <1>3, <2>5, <3>1, <3>2
  <2> HIDE DEF B
  <2> QED BY <1>2, <1>3, <2>5, <2>6, SameBytes
<1> QED BY <1>4, <1>5

-----------------------------------------------------------------------------
(* The methods.                                                            *)

\* c is b with the bytes of p at a place of the slice.
IsCopy(c, b, at, p) ==
  /\ Sound(c) /\ c.size = b.size /\ c.r = b.r /\ c.w = b.w /\ c.isEmpty = b.isEmpty
  /\ \A i \in 0 .. (b.size - 1) :
       c.buf[i] = IF i \in at .. (at + Len(p) - 1) THEN p[i - at + 1] ELSE b.buf[i]

\* copy(b.buf[at:], p) changes those bytes and nothing else.
LEMMA CopyIs ==
  ASSUME NEW b, Sound(b), NEW at \in Nat, NEW p \in Seq(Byte)
  PROVE  IsCopy(Copy(b, at, p), b, at, p)
<1> DEFINE buf == [i \in DOMAIN b.buf |-> IF i \in at .. (at + Len(p) - 1)
                                          THEN p[i - at + 1] ELSE b.buf[i]]
<1>1. Copy(b, at, p) = [b EXCEPT !.buf = buf]
  BY DEF Copy
<1>2. b \in Buffers /\ b.size \in Nat /\ b.buf \in [0 .. (b.size - 1) -> Byte]
  BY DEF Sound, Buffers
<1>3. buf \in [0 .. (b.size - 1) -> Byte]
  <2> SUFFICES ASSUME NEW i \in 0 .. (b.size - 1), i \in at .. (at + Len(p) - 1)
               PROVE  p[i - at + 1] \in Byte
    BY <1>2
  <2>1. i - at + 1 \in 1..Len(p)
    BY <1>2
  <2> QED BY <2>1
<1>4. \A i \in 0 .. (b.size - 1) :
        buf[i] = IF i \in at .. (at + Len(p) - 1) THEN p[i - at + 1] ELSE b.buf[i]
  BY <1>2
<1> HIDE DEF buf
<1>5. buf \in UNION {[0 .. (n - 1) -> Byte] : n \in Nat}
  BY <1>2, <1>3
<1>6. [b EXCEPT !.buf = buf] \in Buffers
  BY <1>2, <1>5 DEF Buffers
<1>7. /\ [b EXCEPT !.buf = buf].buf = buf /\ [b EXCEPT !.buf = buf].size = b.size
      /\ [b EXCEPT !.buf = buf].r = b.r /\ [b EXCEPT !.buf = buf].w = b.w
      /\ [b EXCEPT !.buf = buf].isEmpty = b.isEmpty
  BY <1>2 DEF Buffers
<1> QED BY <1>1, <1>3, <1>4, <1>6, <1>7 DEF Sound, IsCopy

\* What grow leaves: a slice that is large enough, with the content at its start.
LEMMA GrowIs ==
  ASSUME NEW b, WellFormed(b), NEW newCap \in Nat \ {0}
  PROVE  LET g == Grow(b, newCap)
         IN  /\ Sound(g) /\ g.size = GrownSize(b, newCap) /\ g.r = 0 /\ g.w = Buffered(b)
             /\ g.isEmpty = b.isEmpty
             /\ \A i \in 1..Buffered(b) : i <= g.size => g.buf[i - 1] = Contents(b)[i]
<1> DEFINE size == GrownSize(b, newCap)
           old == Contents(b)
           fresh == [buf |-> Make(size), size |-> size, r |-> 0, w |-> Len(old),
                     isEmpty |-> old = <<>>]
<1>1. Grow(b, newCap) = Copy(fresh, 0, old)
  BY DEF Grow
<1>2. size \in Nat
  BY GrowsEnough, Indices
<1>3. old \in Seq(Byte) /\ Len(old) = Buffered(b) /\ Buffered(b) \in Nat
  BY ContentsIs, BufferedIs, Indices
<1>4. (old = <<>>) = b.isEmpty
  <2>1. old = <<>> <=> Len(old) = 0
    BY <1>3, EmptySeq
  <2>2. b.isEmpty \in BOOLEAN /\ (Buffered(b) = 0 <=> b.isEmpty)
    BY Indices, BufferedIs
  <2> HIDE DEF old
  <2> QED BY <1>3, <2>1, <2>2
<1>5. Make(size) \in [0 .. (size - 1) -> Byte]
  <2>1. 0 \in Byte
    BY RingAssumption DEF Byte
  <2> QED BY <2>1 DEF Make
<1> HIDE DEF size, old
<1>6. Sound(fresh)
  <2>1. Make(size) \in UNION {[0 .. (n - 1) -> Byte] : n \in Nat}
    BY <1>2, <1>5
  <2>2. (old = <<>>) \in BOOLEAN
    OBVIOUS
  <2> QED BY <1>2, <1>3, <1>5, <2>1, <2>2 DEF Sound, Buffers
<1>7. /\ fresh.size = size /\ fresh.r = 0 /\ fresh.w = Len(old)
      /\ fresh.isEmpty = (old = <<>>)
  OBVIOUS
<1> HIDE DEF fresh
<1> DEFINE g == Copy(fresh, 0, old)
<1>8. /\ Sound(g) /\ g.size = size /\ g.r = 0 /\ g.w = Buffered(b) /\ g.isEmpty = b.isEmpty
      /\ \A i \in 0 .. (size - 1) :
           g.buf[i] = IF i \in 0 .. (0 + Len(old) - 1) THEN old[i - 0 + 1] ELSE fresh.buf[i]
  <2>1. PICK at \in Nat : at = 0
    OBVIOUS
  <2>2. IsCopy(Copy(fresh, at, old), fresh, at, old)
    BY <1>3, <1>6, CopyIs
  <2>3. Copy(fresh, at, old) = g
    BY <2>1
  <2> HIDE DEF g
  <2>4. IsCopy(g, fresh, 0, old)
    BY <2>1, <2>2, <2>3
  <2> QED BY <1>3, <1>4, <1>7, <2>4 DEF IsCopy
<1> HIDE DEF g
<1>9. ASSUME NEW i \in 1..Buffered(b), i <= size PROVE g.buf[i - 1] = old[i]
  <2>1. i - 1 \in 0 .. (size - 1) /\ i - 1 \in 0 .. (0 + Len(old) - 1) /\ (i - 1) - 0 + 1 = i
    BY <1>2, <1>3, <1>9
  <2>2. g.buf[i - 1] = old[(i - 1) - 0 + 1]
    BY <1>8, <2>1
  <2> QED BY <2>1, <2>2
<1> QED BY <1>1, <1>8, <1>9 DEF g, size, old

\* grow keeps the content where it makes room.
LEMMA GrowKeeps ==
  ASSUME NEW b, WellFormed(b), NEW newCap \in Nat \ {0}, Buffered(b) < GrownSize(b, newCap)
  PROVE  LET g == Grow(b, newCap)
         IN  /\ WellFormed(g) /\ g.size = GrownSize(b, newCap) /\ Buffered(g) = Buffered(b)
             /\ g.isEmpty = b.isEmpty /\ Contents(g) = Contents(b)
<1> DEFINE g == Grow(b, newCap)
           B == Buffered(b)
<1>1. /\ Sound(g) /\ g.size = GrownSize(b, newCap) /\ g.r = 0 /\ g.w = B
      /\ g.isEmpty = b.isEmpty
      /\ \A i \in 1..B : i <= g.size => g.buf[i - 1] = Contents(b)[i]
  BY GrowIs
<1>2. B \in Nat /\ g.size \in Nat /\ B < g.size /\ (B = 0 <=> b.isEmpty)
  BY <1>1, BufferedIs, Indices DEF Sound, Buffers
<1> HIDE DEF g
<1>3. WellFormed(g)
  BY <1>1, <1>2 DEF WellFormed
<1>4. Buffered(g) = B
  <2>1. CASE b.isEmpty
    BY <1>1, <1>2, <1>3, <2>1, BufferedIs
  <2>2. CASE ~b.isEmpty
    BY <1>1, <1>2, <2>2 DEF Buffered
  <2> QED BY <2>1, <2>2
<1> HIDE DEF B
<1>5. /\ Contents(g) \in Seq(Byte) /\ Len(Contents(g)) = B
      /\ \A i \in 1..B : Contents(g)[i] = g.buf[Wrap(g, g.r + i - 1)]
  BY <1>3, <1>4, ContentsIs
<1>6. Contents(b) \in Seq(Byte) /\ Len(Contents(b)) = B
  BY ContentsIs DEF B
<1>7. ASSUME NEW i \in 1..B PROVE Contents(g)[i] = Contents(b)[i]
  <2>1. Wrap(g, g.r + i - 1) = i - 1 /\ i <= g.size
    BY <1>1, <1>2 DEF Wrap
  <2> QED BY <1>1, <1>5, <2>1
<1>8. Contents(g) = Contents(b)
  BY <1>5, <1>6, <1>7, SameBytes
<1> QED BY <1>1, <1>3, <1>4, <1>8 DEF g, B
\* Write makes room for all of its bytes, ReadFrom for MinRead of them.
LEMMA RoomForIs ==
  ASSUME NEW b, WellFormed(b), NEW n \in Nat \ {0}
  PROVE  LET g == RoomFor(b, n)
         IN  WellFormed(g) /\ Contents(g) = Contents(b) /\ n <= Available(g)
<1>1. Buffered(b) + Available(b) = b.size /\ Buffered(b) \in Nat /\ Available(b) \in Nat
  BY BufferedIs, Indices
<1>2. CASE n > Available(b)
  <2> DEFINE newCap == b.size + n - Available(b)
             g == Grow(b, newCap)
  <2>1. newCap \in Nat \ {0} /\ newCap = Buffered(b) + n
    BY <1>1
  <2>2. GrownSize(b, newCap) \in Nat /\ GrownSize(b, newCap) >= newCap
    BY <2>1, GrowsEnough, Indices
  <2> HIDE DEF newCap
  <2>3. Buffered(b) < GrownSize(b, newCap)
    BY <1>1, <2>1, <2>2
  <2>4. /\ WellFormed(g) /\ g.size = GrownSize(b, newCap) /\ Buffered(g) = Buffered(b)
        /\ Contents(g) = Contents(b)
    BY <2>1, <2>3, GrowKeeps
  <2> HIDE DEF g
  <2>5. Available(g) \in Nat /\ Buffered(g) + Available(g) = g.size
    BY <2>4, BufferedIs, Indices
  <2>6. n <= Available(g)
    BY <1>1, <2>1, <2>2, <2>4, <2>5
  <2>7. RoomFor(b, n) = g
    BY <1>2 DEF RoomFor, g, newCap
  <2> QED BY <2>4, <2>6, <2>7
<1>3. CASE ~(n > Available(b))
  BY <1>1, <1>3 DEF RoomFor
<1> QED BY <1>2, <1>3

\* MakeRoom leaves MinRead free bytes and keeps the content.
LEMMA MakeRoomIs ==
  ASSUME NEW b, WellFormed(b)
  PROVE  LET g == MakeRoom(b)
         IN  /\ WellFormed(g) /\ Contents(g) = Contents(b) /\ g.isEmpty = b.isEmpty
             /\ MinRead <= Available(g) /\ g.size > 0
<1>1. /\ Buffered(b) + Available(b) = b.size /\ Buffered(b) \in Nat /\ Available(b) \in Nat
      /\ MinRead \in Nat \ {0} /\ b.size \in Nat
  BY BufferedIs, Indices, RingAssumption
<1>2. CASE Available(b) < MinRead
  <2> DEFINE newCap == Buffered(b) + MinRead
             g == Grow(b, newCap)
  <2>1. newCap \in Nat \ {0} /\ newCap = Buffered(b) + MinRead
    BY <1>1
  <2>2. GrownSize(b, newCap) \in Nat /\ GrownSize(b, newCap) >= newCap
    BY <2>1, GrowsEnough, Indices
  <2> HIDE DEF newCap
  <2>3. Buffered(b) < GrownSize(b, newCap)
    BY <1>1, <2>1, <2>2
  <2>4. /\ WellFormed(g) /\ g.size = GrownSize(b, newCap) /\ Buffered(g) = Buffered(b)
        /\ Contents(g) = Contents(b) /\ g.isEmpty = b.isEmpty
    BY <2>1, <2>3, GrowKeeps
  <2> HIDE DEF g
  <2>5. Available(g) \in Nat /\ Buffered(g) + Available(g) = g.size
    BY <2>4, BufferedIs, Indices
  <2>6. MinRead <= Available(g) /\ g.size > 0
    BY <1>1, <2>1, <2>2, <2>4, <2>5
  <2>7. MakeRoom(b) = g
    BY <1>2 DEF MakeRoom, g, newCap
  <2> QED BY <2>4, <2>6, <2>7
<1>3. CASE ~(Available(b) < MinRead)
  BY <1>1, <1>3 DEF MakeRoom
<1> QED BY <1>2, <1>3

\* The arithmetic of Store: n bytes go behind the B bytes between r and w, and Splits says
\* that some of them go to the start of the slice.
Fits(size, r, w, B, n) ==
  /\ {size, r, w, B, n} \subseteq Nat /\ r < size /\ w < size /\ n > 0 /\ B + n <= size
  /\ w = r + B \/ w = r + B - size

Splits(size, r, w, n) == w >= r /\ size - w < n

Turn(size, j) == IF j < size THEN j ELSE j - size

\* The sizes of the two parts.
LEMMA SplitSizes ==
  ASSUME NEW size \in Nat, NEW r \in Nat, NEW w \in Nat, NEW B \in Nat, NEW n \in Nat,
         Fits(size, r, w, B, n)
  PROVE  /\ Splits(size, r, w, n) =>
              size - w \in 1..n /\ n - (size - w) <= r /\ r <= w
         /\ ~Splits(size, r, w, n) => w + n <= size
         /\ Turn(size, w + n) \in 0 .. (size - 1)
BY DEF Fits, Splits, Turn

SplitPutAt(size, w, n, i, j) ==
  /\ i \in 0 .. (size - 1)
  /\ IF i <= n - (size - w) - 1 THEN (size - w) + i + 1 = j ELSE i >= w /\ i - w + 1 = j

\* Where byte j of the n goes when they are split ...
LEMMA SplitPut ==
  ASSUME NEW size \in Nat, NEW r \in Nat, NEW w \in Nat, NEW B \in Nat, NEW n \in Nat,
         Fits(size, r, w, B, n), Splits(size, r, w, n), NEW j \in 1..n
  PROVE  SplitPutAt(size, w, n, Turn(size, w + j - 1), j)
BY DEF Fits, Splits, Turn, SplitPutAt

\* ... and that it is none of the places of the B bytes.
LEMMA SplitKeep ==
  ASSUME NEW size \in Nat, NEW r \in Nat, NEW w \in Nat, NEW B \in Nat, NEW n \in Nat,
         Fits(size, r, w, B, n), Splits(size, r, w, n), NEW k \in 1..B
  PROVE  /\ Turn(size, r + k - 1) \in 0 .. (size - 1)
         /\ ~(Turn(size, r + k - 1) <= n - (size - w) - 1) /\ ~(Turn(size, r + k - 1) >= w)
BY DEF Fits, Splits, Turn

WholePutAt(size, w, n, i, j) ==
  i \in 0 .. (size - 1) /\ i \in w .. (w + n - 1) /\ i - w + 1 = j

\* The same when they go in one piece.
LEMMA WholePut ==
  ASSUME NEW size \in Nat, NEW r \in Nat, NEW w \in Nat, NEW B \in Nat, NEW n \in Nat,
         Fits(size, r, w, B, n), w + n <= size, NEW j \in 1..n
  PROVE  WholePutAt(size, w, n, Turn(size, w + j - 1), j)
BY DEF Fits, Turn, WholePutAt

\* The B bytes stay then, too.
LEMMA WholeKeep ==
  ASSUME NEW size \in Nat, NEW r \in Nat, NEW w \in Nat, NEW B \in Nat, NEW n \in Nat,
         Fits(size, r, w, B, n), w + n <= size, NEW k \in 1..B
  PROVE  /\ Turn(size, r + k - 1) \in 0 .. (size - 1)
         /\ Turn(size, r + k - 1) \notin w .. (w + n - 1)
BY DEF Fits, Turn

\* The first k bytes of p behind w, the others at the start of the slice.
LEMMA StoreIs ==
  ASSUME NEW b, WellFormed(b), NEW p \in Seq(Byte), p # <<>>, Len(p) <= Available(b)
  PROVE  LET c == Store(b, p)
         IN  WellFormed(c) /\ Contents(c) = Contents(b) \o p /\ c.size = b.size
<1> DEFINE n == Len(p)
           c1 == b.size - b.w
<1>1. /\ b.size \in Nat /\ b.r \in 0..b.size /\ b.w \in 0..b.size
      /\ b.size > 0 => b.r < b.size /\ b.w < b.size
  BY Indices
<1>2. n \in Nat /\ n > 0
  BY EmptySeq
<1>3. /\ Buffered(b) \in Nat /\ Available(b) \in Nat /\ Buffered(b) + Available(b) = b.size
      /\ Buffered(b) + n <= b.size /\ b.size > 0
  BY <1>1, <1>2, BufferedIs
<1>4. b.w = Wrap(b, b.r + Buffered(b))
  <2>1. CASE b.isEmpty
    <3>1. b.r = 0 /\ b.w = 0 /\ Buffered(b) = 0
      BY <2>1, BufferedIs, Indices
    <3> QED BY <1>3, <3>1 DEF Wrap
  <2>2. CASE ~b.isEmpty
    BY <2>2, BufferedIs
  <2> QED BY <2>1, <2>2
<1>11. /\ b.r \in Nat /\ b.w \in Nat /\ b.size \in Nat /\ n \in Nat /\ Buffered(b) \in Nat
       /\ b.r < b.size /\ b.w < b.size /\ n > 0 /\ Buffered(b) + n <= b.size
       /\ \/ b.w = b.r + Buffered(b)
          \/ b.w = b.r + Buffered(b) - b.size
  BY <1>1, <1>2, <1>3, <1>4 DEF Wrap
<1>14. b.size \in Nat /\ b.r \in Nat /\ b.w \in Nat /\ Buffered(b) \in Nat /\ n \in Nat
  BY <1>11
<1>12. Fits(b.size, b.r, b.w, Buffered(b), n)
  <2> HIDE DEF n
  <2> QED BY <1>11 DEF Fits
<1>13. \A j : Wrap(b, j) = Turn(b.size, j)
  BY DEF Wrap, Turn
<1> DEFINE wraps == Splits(b.size, b.r, b.w, n)
           filled == IF wraps THEN Copy(Copy(b, b.w, SubSeq(p, 1, c1)), 0, SubSeq(p, c1 + 1, n))
                              ELSE Copy(b, b.w, p)
           w == IF wraps THEN n - c1 ELSE b.w + n
           c == [filled EXCEPT !.w = IF w = b.size THEN 0 ELSE w, !.isEmpty = FALSE]
<1>5. Store(b, p) = c
  BY DEF Store, Splits
<1>6. /\ Sound(filled) /\ filled.size = b.size /\ filled.r = b.r
      /\ \A j \in 1..n : filled.buf[Wrap(b, b.w + j - 1)] = p[j]
      /\ \A k \in 1..Buffered(b) :
           filled.buf[Wrap(b, b.r + k - 1)] = b.buf[Wrap(b, b.r + k - 1)]
  <2>1. CASE wraps
    <3> DEFINE p1 == SubSeq(p, 1, c1)
               p2 == SubSeq(p, c1 + 1, n)
               half == Copy(b, b.w, p1)
    <3>1. c1 \in 1..n /\ n - c1 <= b.r /\ b.r <= b.w
      BY ONLY <1>14, <1>12, <2>1, SplitSizes
    <3>2. /\ p1 \in Seq(Byte) /\ Len(p1) = c1 /\ \A j \in 1..c1 : p1[j] = p[j]
          /\ p2 \in Seq(Byte) /\ Len(p2) = n - c1 /\ \A j \in 1..(n - c1) : p2[j] = p[c1 + j]
      <4>1. c1 \in Nat /\ c1 >= 1 /\ c1 <= n /\ c1 + 1 \in Nat /\ n \in Nat /\ n - c1 \in Nat
        BY <1>2, <3>1
      <4> HIDE DEF c1
      <4>2. (\A i \in 1..c1 : p[i] \in Byte) /\ (\A i \in (c1 + 1)..n : p[i] \in Byte)
        BY <4>1
      <4> HIDE DEF n
      <4>3. p1 \in Seq(Byte) /\ Len(p1) = c1 /\ \A j \in 1..c1 : p1[j] = p[j]
        BY <4>1, <4>2, SubSeqProperties
      <4>4. p2 \in Seq(Byte) /\ Len(p2) = n - c1 /\ \A j \in 1..(n - c1) : p2[j] = p[c1 + j]
        <5>1. /\ p2 \in Seq(Byte)
              /\ Len(p2) = IF c1 + 1 <= n THEN n - (c1 + 1) + 1 ELSE 0
              /\ \A j \in 1 .. (n - (c1 + 1) + 1) : p2[j] = p[(c1 + 1) + j - 1]
          BY <4>1, <4>2, SubSeqProperties
        <5> HIDE DEF p2
        <5>2. n - (c1 + 1) + 1 = n - c1 /\ \A j \in Int : (c1 + 1) + j - 1 = c1 + j
          BY <4>1
        <5>3. Len(p2) = n - c1
          BY <4>1, <5>1
        <5>4. ASSUME NEW j \in 1..(n - c1)
              PROVE  p2[j] = p[c1 + j]
          <6>1. j \in 1 .. (n - (c1 + 1) + 1) /\ (c1 + 1) + j - 1 = c1 + j
            BY <4>1
          <6>2. p2[j] = p[(c1 + 1) + j - 1]
            BY ONLY <5>1, <6>1
          <6> QED BY ONLY <6>1, <6>2
        <5> QED BY ONLY <5>1, <5>3, <5>4
      <4> QED BY <4>3, <4>4 DEF c1
    <3> HIDE DEF p1, p2
    <3>3. IsCopy(half, b, b.w, p1)
      <4>1. p1 \in Seq(Byte) /\ Sound(b) /\ b.w \in Nat
        BY <1>1, <3>2 DEF WellFormed
      <4> QED BY <4>1, CopyIs
    <3> HIDE DEF half
    <3>4. PICK at \in Nat : at = 0
      OBVIOUS
    <3>5. IsCopy(Copy(half, at, p2), half, at, p2)
      <4>1. p2 \in Seq(Byte) /\ Sound(half)
        BY <3>2, <3>3 DEF IsCopy
      <4> QED BY <4>1, CopyIs
    <3>6. filled = Copy(half, at, p2)
      BY <2>1, <3>4 DEF half, p1, p2
    <3> HIDE DEF filled
    <3>7. \A i \in 0 .. (b.size - 1) :
            filled.buf[i] = IF i <= n - c1 - 1 THEN p[c1 + i + 1]
                            ELSE IF i >= b.w THEN p[i - b.w + 1] ELSE b.buf[i]
      <4> SUFFICES ASSUME NEW i \in 0 .. (b.size - 1)
                   PROVE  filled.buf[i] = IF i <= n - c1 - 1 THEN p[c1 + i + 1]
                                          ELSE IF i >= b.w THEN p[i - b.w + 1] ELSE b.buf[i]
        OBVIOUS
      <4>1. filled.buf[i] = IF i \in 0 .. (n - c1 - 1) THEN p2[i + 1] ELSE half.buf[i]
        <5>1. i \in 0 .. (half.size - 1)
          BY <3>3 DEF IsCopy
        <5>2. filled.buf[i] = IF i \in at .. (at + Len(p2) - 1) THEN p2[i - at + 1]
                              ELSE half.buf[i]
          BY <3>5, <3>6, <5>1 DEF IsCopy
        <5>3. at + Len(p2) - 1 = n - c1 - 1 /\ i - at + 1 = i + 1
          BY <1>1, <1>2, <3>1, <3>2, <3>4
        <5> QED BY <3>4, <5>2, <5>3
      <4>2. half.buf[i] = IF i \in b.w .. (b.w + c1 - 1) THEN p1[i - b.w + 1] ELSE b.buf[i]
        <5>1. half.buf[i] = IF i \in b.w .. (b.w + Len(p1) - 1) THEN p1[i - b.w + 1]
                            ELSE b.buf[i]
          BY <3>3 DEF IsCopy
        <5> QED BY <3>2, <5>1
      <4>3. CASE i <= n - c1 - 1
        <5>1. i + 1 \in 1 .. (n - c1) /\ i \in 0 .. (n - c1 - 1) /\ c1 + (i + 1) = c1 + i + 1
          BY <1>1, <1>2, <3>1, <4>3
        <5> QED BY <3>2, <4>1, <4>3, <5>1
      <4>4. CASE ~(i <= n - c1 - 1) /\ i >= b.w
        <5>1. i \in b.w .. (b.w + c1 - 1) /\ i - b.w + 1 \in 1..c1
          BY <1>1, <4>4
        <5>2. i \notin 0 .. (n - c1 - 1)
          BY <1>1, <1>2, <4>4
        <5> QED BY <3>2, <4>1, <4>2, <4>4, <5>1, <5>2
      <4>5. CASE ~(i <= n - c1 - 1) /\ ~(i >= b.w)
        <5>1. i \notin b.w .. (b.w + c1 - 1) /\ i \notin 0 .. (n - c1 - 1)
          BY <1>1, <1>2, <3>1, <4>5
        <5> QED BY <4>1, <4>2, <4>5, <5>1
      <4> QED BY <4>3, <4>4, <4>5
    <3>8. ASSUME NEW j \in 1..n PROVE filled.buf[Wrap(b, b.w + j - 1)] = p[j]
      <4> DEFINE i == Turn(b.size, b.w + j - 1)
      <4>1. /\ i \in 0 .. (b.size - 1)
            /\ IF i <= n - c1 - 1 THEN c1 + i + 1 = j ELSE i >= b.w /\ i - b.w + 1 = j
        <5>1. SplitPutAt(b.size, b.w, n, i, j)
          BY ONLY <1>14, <1>12, <2>1, j \in 1..n, SplitPut
        <5> HIDE DEF i
        <5> QED BY <5>1 DEF SplitPutAt
      <4> HIDE DEF i
      <4>2. filled.buf[i] = p[j]
        BY <3>7, <4>1
      <4> QED BY <1>13, <4>2 DEF i
    <3>9. ASSUME NEW k \in 1..Buffered(b)
          PROVE  filled.buf[Wrap(b, b.r + k - 1)] = b.buf[Wrap(b, b.r + k - 1)]
      <4> DEFINE i == Turn(b.size, b.r + k - 1)
      <4>1. i \in 0 .. (b.size - 1) /\ ~(i <= n - c1 - 1) /\ ~(i >= b.w)
        BY ONLY <1>14, <1>12, <2>1, k \in 1..Buffered(b), SplitKeep
      <4> HIDE DEF i
      <4>2. filled.buf[i] = b.buf[i]
        BY <3>7, <4>1
      <4> QED BY <1>13, <4>2 DEF i
    <3>10. Sound(filled) /\ filled.size = b.size /\ filled.r = b.r
      BY <3>3, <3>5, <3>6 DEF IsCopy
    <3> QED BY <3>8, <3>9, <3>10
  <2>2. CASE ~wraps
    <3>1. IsCopy(Copy(b, b.w, p), b, b.w, p)
      <4>1. Sound(b) /\ b.w \in Nat
        BY <1>1 DEF WellFormed
      <4> QED BY <4>1, CopyIs
    <3>2. filled = Copy(b, b.w, p)
      BY <2>2
    <3>3. b.w + n <= b.size
      BY ONLY <1>14, <1>12, <2>2, SplitSizes
    <3> HIDE DEF filled
    <3>4. ASSUME NEW j \in 1..n PROVE filled.buf[Wrap(b, b.w + j - 1)] = p[j]
      <4> DEFINE i == Turn(b.size, b.w + j - 1)
      <4>1. i \in 0 .. (b.size - 1) /\ i \in b.w .. (b.w + n - 1) /\ i - b.w + 1 = j
        <5>1. WholePutAt(b.size, b.w, n, i, j)
          BY ONLY <1>14, <1>12, <3>3, j \in 1..n, WholePut
        <5> HIDE DEF i
        <5> QED BY <5>1 DEF WholePutAt
      <4> HIDE DEF i
      <4>2. filled.buf[i] = p[j]
        BY <3>1, <3>2, <4>1 DEF IsCopy
      <4> QED BY <1>13, <4>2 DEF i
    <3>5. ASSUME NEW k \in 1..Buffered(b)
          PROVE  filled.buf[Wrap(b, b.r + k - 1)] = b.buf[Wrap(b, b.r + k - 1)]
      <4> DEFINE i == Turn(b.size, b.r + k - 1)
      <4>1. i \in 0 .. (b.size - 1) /\ i \notin b.w .. (b.w + n - 1)
        BY ONLY <1>14, <1>12, <3>3, k \in 1..Buffered(b), WholeKeep
      <4> HIDE DEF i
      <4>2. filled.buf[i] = b.buf[i]
        BY <3>1, <3>2, <4>1 DEF IsCopy
      <4> QED BY <1>13, <4>2 DEF i
    <3>6. Sound(filled) /\ filled.size = b.size /\ filled.r = b.r
      BY <3>1, <3>2 DEF IsCopy
    <3> QED BY <3>4, <3>5, <3>6
  <2> QED BY <2>1, <2>2
<1>7. (IF w = b.size THEN 0 ELSE w) = Wrap(b, b.w + n) /\ Wrap(b, b.w + n) \in 0 .. (b.size - 1)
  <2>1. /\ wraps => n - c1 = Turn(b.size, b.w + n) /\ n - c1 # b.size
        /\ ~wraps => (IF b.w + n = b.size THEN 0 ELSE b.w + n) = Turn(b.size, b.w + n)
        /\ Turn(b.size, b.w + n) \in 0 .. (b.size - 1)
    <3> HIDE DEF n
    <3>1. Turn(b.size, b.w + n) \in 0 .. (b.size - 1) /\ (~wraps => b.w + n <= b.size)
      BY ONLY <1>14, <1>12, SplitSizes
    <3>2. wraps => n - c1 = Turn(b.size, b.w + n) /\ n - c1 # b.size
      BY ONLY <1>11 DEF Turn, Splits
    <3>3. CASE wraps
      BY ONLY <3>1, <3>2, <3>3
    <3>4. CASE ~wraps
      <4>1. b.w + n <= b.size /\ b.size \in Nat /\ b.w + n \in Nat
        BY ONLY <1>11, <3>1, <3>4
      <4> QED BY ONLY <3>1, <3>4, <4>1 DEF Turn
    <3> QED BY ONLY <3>3, <3>4
  <2> QED BY <1>13, <2>1
<1> HIDE DEF filled, w
<1>8. /\ Sound(c) /\ c.size = b.size /\ c.r = b.r /\ c.w = Wrap(b, b.w + n) /\ c.isEmpty = FALSE
      /\ c.buf = filled.buf
  <2>1. PICK nw \in Nat : nw = IF w = b.size THEN 0 ELSE w
    BY <1>1, <1>7
  <2>2. c = [filled EXCEPT !.w = nw, !.isEmpty = FALSE]
    BY <2>1
  <2> HIDE DEF c
  <2> QED BY <1>6, <1>7, <2>1, <2>2 DEF Sound, Buffers
<1> HIDE DEF c
<1>9. WellFormed(c)
  BY <1>1, <1>3, <1>7, <1>8 DEF WellFormed
<1>10. Contents(c) = Contents(b) \o p
  <2>1. Buffered(b) + Len(p) > 0
    BY <1>2, <1>3
  <2>2. /\ \A j \in 1..Len(p) : c.buf[Wrap(b, b.w + j - 1)] = p[j]
        /\ \A k \in 1..Buffered(b) :
             c.buf[Wrap(b, b.r + k - 1)] = b.buf[Wrap(b, b.r + k - 1)]
    BY <1>6, <1>8
  <2> QED BY <1>8, <1>9, <2>1, <2>2, Appended
<1> QED BY <1>5, <1>8, <1>9, <1>10

-----------------------------------------------------------------------------
(* Taking bytes away.                                                      *)

\* A fresh or a reset buffer has no content.
LEMMA NewIs ==
  ASSUME NEW n \in Nat
  PROVE  WellFormed(New(n)) /\ New(n).size = CeilToPowerOfTwo(n) /\ Contents(New(n)) = <<>>
<1> DEFINE size == CeilToPowerOfTwo(n)
           b == New(n)
<1>1. size \in Nat
  <2>1. CASE n = 0
    <3>1. n <= 0
      BY <2>1
    <3>2. size = 0
      BY <3>1 DEF CeilToPowerOfTwo
    <3> QED BY <3>2
  <2>2. CASE n # 0
    <3>1. n \in Nat \ {0}
      BY <2>2
    <3>2. size \in n .. (2 * n)
      BY <3>1, PowerIsEnough
    <3> HIDE DEF size
    <3> QED BY <3>2
  <2> QED BY <2>1, <2>2
<1>2. b = [buf |-> Make(size), size |-> size, r |-> 0, w |-> 0, isEmpty |-> TRUE]
  BY DEF New
<1> HIDE DEF size, b
<1>3. Make(size) \in [0 .. (size - 1) -> Byte]
  <2>1. 0 \in Byte
    BY RingAssumption DEF Byte
  <2> QED BY <2>1 DEF Make
<1>4. Make(size) \in UNION {[0 .. (k - 1) -> Byte] : k \in Nat}
  BY <1>1, <1>3
<1>6. /\ b.buf = Make(size) /\ b.size = size /\ b.r = 0 /\ b.w = 0 /\ b.isEmpty = TRUE
      /\ Contents(b) = <<>>
  BY <1>2 DEF Contents
<1>7. b \in Buffers
  <2> DEFINE buf == Make(size)
  <2> HIDE DEF buf
  <2>1. b = [buf |-> buf, size |-> size, r |-> 0, w |-> 0, isEmpty |-> TRUE]
    BY <1>2 DEF buf
  <2>2. buf \in UNION {[0 .. (k - 1) -> Byte] : k \in Nat}
    BY <1>4 DEF buf
  <2> QED BY <1>1, <2>1, <2>2 DEF Buffers
<1>5. WellFormed(b)
  BY <1>1, <1>3, <1>6, <1>7 DEF WellFormed, Sound
<1> QED BY <1>5, <1>6 DEF b, size

\* Reset leaves nothing.
LEMMA ResetIs ==
  ASSUME NEW b, WellFormed(b)
  PROVE  WellFormed(Reset(b)) /\ Reset(b).size = b.size /\ Contents(Reset(b)) = <<>>
<1> DEFINE c == Reset(b)
<1>1. b \in Buffers /\ b.size \in Nat
  BY DEF WellFormed, Sound, Buffers
<1>2. /\ c \in Buffers /\ c.size = b.size /\ c.buf = b.buf /\ c.r = 0 /\ c.w = 0
      /\ c.isEmpty = TRUE
  BY <1>1 DEF Reset, Buffers
<1> HIDE DEF c
<1>3. WellFormed(c)
  BY <1>1, <1>2 DEF WellFormed, Sound
<1>4. Contents(c) = <<>>
  BY <1>2 DEF Contents
<1> QED BY <1>2, <1>3, <1>4 DEF c

\* The read index reaches the write index with the last byte.
LEMMA Meets ==
  ASSUME NEW b, WellFormed(b), ~b.isEmpty, NEW m \in 1..Buffered(b)
  PROVE  /\ Wrap(b, b.r + m) \in 0 .. (b.size - 1)
         /\ Wrap(b, b.r + m) = b.w <=> m = Buffered(b)
<1> DEFINE B == Buffered(b)
<1>1. b.w = Wrap(b, b.r + B) /\ B \in 0..b.size /\ b.size \in Nat /\ b.r \in Nat /\ b.r < b.size
  BY BufferedIs, Indices
<1> HIDE DEF B
<1>2. m \in 1..B
  BY DEF B
<1> QED BY <1>1, <1>2 DEF Wrap, B

\* What is left when m bytes have been taken from the front.
Moved(b, m) ==
  IF Wrap(b, b.r + m) = b.w THEN Reset(b) ELSE [b EXCEPT !.r = Wrap(b, b.r + m)]

\* That is the content without its first m bytes.
LEMMA MovedIs ==
  ASSUME NEW b, WellFormed(b), ~b.isEmpty, NEW m \in 1..Buffered(b)
  PROVE  /\ WellFormed(Moved(b, m)) /\ Moved(b, m).size = b.size
         /\ Contents(Moved(b, m)) = SubSeq(Contents(b), m + 1, Len(Contents(b)))
<1> DEFINE c == Moved(b, m)
           r == Wrap(b, b.r + m)
<1>1. r \in 0 .. (b.size - 1) /\ (r = b.w <=> m = Buffered(b))
  BY Meets
<1>2. m \in 0..Buffered(b) /\ b.size \in Nat /\ Buffered(b) \in Nat
  BY BufferedIs, Indices
<1>3. CASE r = b.w
  <2>1. c = Reset(b)
    BY <1>3 DEF Moved
  <2>2. c.isEmpty /\ c.buf = b.buf
    BY <2>1 DEF Reset, WellFormed, Sound, Buffers
  <2>3. WellFormed(c) /\ c.size = b.size
    BY <2>1, ResetIs
  <2>4. IF m = Buffered(b) THEN c.isEmpty
        ELSE ~c.isEmpty /\ c.r = Wrap(b, b.r + m) /\ c.w = b.w
    BY <1>1, <1>3, <2>2
  <2> HIDE DEF c
  <2>5. Contents(c) = SubSeq(Contents(b), m + 1, Len(Contents(b)))
    BY ONLY WellFormed(b), <1>2, <2>2, <2>3, <2>4, Dropped
  <2> QED BY <2>3, <2>5 DEF c
<1>4. CASE r # b.w
  <2>1. c = [b EXCEPT !.r = r]
    BY <1>4 DEF Moved
  <2> HIDE DEF r
  <2>2. /\ c \in Buffers /\ c.size = b.size /\ c.buf = b.buf /\ c.r = r /\ c.w = b.w
        /\ c.isEmpty = b.isEmpty
    BY <1>1, <1>2, <2>1 DEF WellFormed, Sound, Buffers
  <2> HIDE DEF c
  <2>3. WellFormed(c)
    BY <1>1, <1>2, <2>2 DEF WellFormed, Sound
  <2>4. IF m = Buffered(b) THEN c.isEmpty
        ELSE ~c.isEmpty /\ c.r = Wrap(b, b.r + m) /\ c.w = b.w
    BY <1>1, <1>4, <2>2 DEF r
  <2>5. Contents(c) = SubSeq(Contents(b), m + 1, Len(Contents(b)))
    BY ONLY WellFormed(b), <1>2, <2>2, <2>3, <2>4, Dropped
  <2> QED BY <2>2, <2>3, <2>5 DEF c
<1> QED BY <1>3, <1>4

\* Read and WriteTo move the read index this way, ...
LEMMA AdvanceIs ==
  ASSUME NEW b, WellFormed(b), ~b.isEmpty, NEW m \in 1..Buffered(b)
  PROVE  Advance(b, m) = Moved(b, m)
<1> DEFINE r == IF b.w > b.r THEN b.r + m ELSE (b.r + m) % b.size
           moved == [b EXCEPT !.r = r]
<1>1. /\ b.size \in Nat /\ b.r \in Nat /\ b.w \in Nat /\ b.r < b.size /\ b.w < b.size
      /\ Buffered(b) \in 0..b.size /\ m \in Nat /\ m <= Buffered(b)
  BY BufferedIs, Indices
<1>2. r = Wrap(b, b.r + m)
  <2>1. CASE b.w > b.r
    <3>1. Buffered(b) = b.w - b.r
      BY <1>1, <2>1 DEF Buffered
    <3> QED BY <1>1, <2>1, <3>1 DEF Wrap
  <2>2. CASE ~(b.w > b.r)
    <3>1. b.r + m \in Nat /\ b.r + m < 2 * b.size
      BY <1>1
    <3>2. (b.r + m) % b.size = IF b.r + m < b.size THEN b.r + m ELSE b.r + m - b.size
      <4> DEFINE j == b.r + m
      <4>1. j \in Nat /\ j < 2 * b.size /\ b.size \in Nat
        BY <1>1, <3>1
      <4> HIDE DEF j
      <4>2. j % b.size = IF j < b.size THEN j ELSE j - b.size
        BY ONLY <4>1, ModWraps
      <4> QED BY <1>1, <4>2 DEF j
    <3>3. r = (b.r + m) % b.size
      BY <2>2
    <3>4. Wrap(b, b.r + m) = IF b.r + m < b.size THEN b.r + m ELSE b.r + m - b.size
      BY <1>1 DEF Wrap
    <3> HIDE DEF r
    <3> QED BY <3>2, <3>3, <3>4
  <2> QED BY <2>1, <2>2
<1>3. Advance(b, m) = IF moved.r = moved.w THEN Reset(moved) ELSE moved
  BY DEF Advance
<1> HIDE DEF r
<1>4. b \in Buffers
  BY DEF WellFormed, Sound
<1>5. moved.r = r /\ moved.w = b.w /\ Reset(moved) = Reset(b)
  BY <1>4 DEF Buffers, Reset
<1> QED BY <1>2, <1>3, <1>5 DEF Moved

\* ... and where they take nothing they leave it well-formed.
LEMMA AdvanceByNone ==
  ASSUME NEW b, WellFormed(b), ~b.isEmpty
  PROVE  WellFormed(Advance(b, 0)) /\ Advance(b, 0).size = b.size
<1>1. /\ b.size \in Nat /\ b.r \in Nat /\ b.w \in Nat /\ b.r < b.size /\ b.w < b.size
  BY Indices
<1>2. b.r % b.size = b.r /\ b.r + 0 = b.r
  BY <1>1, ModWraps
<1>3. b \in Buffers
  BY DEF WellFormed, Sound
<1>4. [b EXCEPT !.r = b.r] = b
  BY <1>3 DEF Buffers
<1>5. Advance(b, 0) = IF b.r = b.w THEN Reset(b) ELSE b
  BY <1>2, <1>4 DEF Advance
<1> QED BY <1>5, ResetIs

\* Peek shows a prefix of the content.
LEMMA PeekIs ==
  ASSUME NEW b, WellFormed(b), NEW n \in Nat \ {0}
  PROVE  Peek(b, n) = SubSeq(Contents(b), 1, Lesser(n, Buffered(b)))
<1> DEFINE B == Buffered(b)
           m == Lesser(n, B)
           s == SubSeq(Contents(b), 1, m)
<1>1. /\ b.size \in Nat /\ b.r \in Nat /\ b.w \in Nat /\ b.w <= b.size /\ b.r <= b.size
      /\ B \in Nat /\ B <= b.size /\ (B = 0 <=> b.isEmpty)
  BY BufferedIs, Indices
<1>2. /\ Contents(b) \in Seq(Byte) /\ Len(Contents(b)) = B
      /\ \A i \in 1..B : Contents(b)[i] = b.buf[Wrap(b, b.r + i - 1)]
  BY ContentsIs
<1>3. m \in 0..B
  BY <1>1 DEF Lesser
<1>4. s \in Seq(Byte) /\ Len(s) = m /\ \A i \in 1..m : s[i] = b.buf[Wrap(b, b.r + i - 1)]
  <2> HIDE DEF m, B
  <2> QED BY <1>1, <1>2, <1>3, SubSeqProperties
<1>5. CASE b.isEmpty
  <2>1. Peek(b, n) = <<>>
    BY <1>5 DEF Peek, Contents
  <2>2. m = 0
    BY <1>1, <1>3, <1>5
  <2> QED BY <1>4, <2>1, <2>2, EmptySeq
<1>6. CASE ~b.isEmpty /\ (b.w > b.r \/ b.r + m <= b.size)
  <2>1. Peek(b, n) = Slice(b, b.r, m)
    BY <1>1, <1>6 DEF Peek, Buffered
  <2>2. m \in Nat /\ b.r \in Nat /\ b.r + m <= b.size
    <3>1. CASE b.w > b.r
      <4>1. B = b.w - b.r
        BY <1>1, <1>6, <3>1 DEF Buffered
      <4> HIDE DEF m, B
      <4> QED BY <1>1, <1>3, <4>1
    <3>2. CASE b.r + m <= b.size
      BY <1>1, <1>3, <3>2
    <3> QED BY <1>6, <3>1, <3>2
  <2> HIDE DEF m
  <2>3. /\ Slice(b, b.r, m) \in Seq(Byte) /\ Len(Slice(b, b.r, m)) = m
        /\ \A i \in 1..m : Slice(b, b.r, m)[i] = b.buf[b.r + i - 1]
    <3>1. SliceOf(Slice(b, b.r, m), b, b.r, m)
      BY <2>2, SliceHolds
    <3> QED BY <3>1 DEF SliceOf
  <2>4. \A i \in 1..m : Wrap(b, b.r + i - 1) = b.r + i - 1
    BY <1>1, <2>2 DEF Wrap
  <2> HIDE DEF s
  <2> QED BY <1>4, <2>1, <2>3, <2>4, SameBytes DEF s, m
<1>7. CASE ~b.isEmpty /\ ~(b.w > b.r \/ b.r + m <= b.size)
  <2> DEFINE k == b.size - b.r
             t == Slice(b, b.r, k)
             u == Slice(b, 0, m - k)
  <2>1. Peek(b, n) = t \o u /\ B = b.size - b.r + b.w
    BY <1>1, <1>7 DEF Peek, Buffered
  <2>2. k \in Nat /\ m - k \in Nat /\ b.r + k <= b.size /\ 0 + (m - k) <= b.size
        /\ m \in Nat /\ 0 \in Nat
    <3> HIDE DEF m, B
    <3> QED BY <1>1, <1>3, <1>7
  <2> HIDE DEF m, k
  <2>3. t \in Seq(Byte) /\ Len(t) = k /\ \A i \in 1..k : t[i] = b.buf[b.r + i - 1]
    <3>1. SliceOf(t, b, b.r, k)
      BY <1>1, <2>2, SliceHolds
    <3> HIDE DEF t
    <3> QED BY <3>1 DEF SliceOf
  <2>4. /\ u \in Seq(Byte) /\ Len(u) = m - k
        /\ \A i \in 1 .. (m - k) : u[i] = b.buf[0 + i - 1]
    <3>1. SliceOf(u, b, 0, m - k)
      BY <2>2, SliceHolds
    <3> HIDE DEF u
    <3> QED BY <3>1 DEF SliceOf
  <2> HIDE DEF s, t, u
  <2>5. /\ t \o u \in Seq(Byte) /\ Len(t \o u) = Len(t) + Len(u)
        /\ \A i \in 1 .. (Len(t) + Len(u)) :
             (t \o u)[i] = IF i <= Len(t) THEN t[i] ELSE u[i - Len(t)]
    BY ONLY <2>3, <2>4, Joined
  <2>6. Len(t) + Len(u) = m
    BY <2>2, <2>3, <2>4
  <2>7. ASSUME NEW i \in 1..m PROVE (t \o u)[i] = s[i]
    <3>1. CASE i <= k
      <4>1. i \in 1..k /\ Wrap(b, b.r + i - 1) = b.r + i - 1
        BY <1>1, <2>2, <3>1 DEF Wrap, k
      <4> QED BY <1>4, <2>3, <2>5, <2>6, <3>1, <4>1
    <3>2. CASE ~(i <= k)
      <4>1. i - k \in 1 .. (m - k)
        BY <1>1, <2>2, <3>2
      <4>2. Wrap(b, b.r + i - 1) = 0 + (i - k) - 1
        BY <1>1, <2>2, <3>2 DEF Wrap, k
      <4>3. (t \o u)[i] = u[i - k]
        BY <2>3, <2>5, <2>6, <3>2
      <4> QED BY <1>4, <2>4, <4>1, <4>2, <4>3
    <3> QED BY <3>1, <3>2
  <2>8. t \o u = s
    BY <1>4, <2>5, <2>6, <2>7, SameBytes
  <2> QED BY <2>1, <2>8 DEF s, m
<1> QED BY <1>5, <1>6, <1>7

-----------------------------------------------------------------------------
(* Putting bytes in.                                                       *)

\* The bytes of a write are bytes.
LEMMA FreshIs ==
  ASSUME next \in Nat, NEW n \in Nat
  PROVE  Fresh(n) \in Seq(Byte) /\ Len(Fresh(n)) = n /\ (n > 0 => Fresh(n) # <<>>)
<1> DEFINE s == Fresh(n)
<1>1. s = [i \in 1..n |-> s[i]] /\ \A i \in 1..n : s[i] = 1 + ((next + i - 1) % NumBytes)
  BY DEF Fresh
<1>2. ASSUME NEW i \in 1..n PROVE s[i] \in Byte
  <2>1. next + i - 1 \in Nat /\ NumBytes \in Nat /\ NumBytes > 0
    BY RingAssumption
  <2>2. (next + i - 1) % NumBytes \in 0 .. (NumBytes - 1)
    BY <2>1
  <2> HIDE DEF s
  <2> QED BY <1>1, <2>1, <2>2 DEF Byte
<1> HIDE DEF s
<1>3. s \in Seq(Byte) /\ Len(s) = n
  BY <1>1, <1>2, IsBytes
<1>4. n > 0 => s # <<>>
  BY <1>3, EmptySeq
<1> QED BY <1>3, <1>4 DEF s

\* c is b with m fresh bytes at a place of the slice.
FilledAt(c, b, at, m) ==
  /\ WellFormed(c) /\ c.size = b.size /\ c.r = b.r /\ c.w = (b.w + m) % b.size
  /\ c.isEmpty = FALSE
  /\ \A i \in 0 .. (b.size - 1) :
       c.buf[i] = IF i \in at .. (at + m - 1) THEN Fresh(m)[i - at + 1] ELSE b.buf[i]

\* What a Reader leaves when it puts m bytes there: a well-formed buffer, wherever that
\* place is.
LEMMA FilledIs ==
  ASSUME NEW b, WellFormed(b), b.size > 0, NEW at \in Nat, NEW m \in Nat, next \in Nat
  PROVE  LET c == [Filled(b, at, m) EXCEPT !.isEmpty = FALSE]
         IN  FilledAt(c, b, at, m) /\ (~b.isEmpty => Filled(b, at, m) = c)
<1> DEFINE d == Copy(b, at, Fresh(m))
           w == (b.w + m) % b.size
           e == Filled(b, at, m)
           c == [e EXCEPT !.isEmpty = FALSE]
<1>1. Fresh(m) \in Seq(Byte) /\ Len(Fresh(m)) = m
  BY FreshIs
<1>2. IsCopy(d, b, at, Fresh(m))
  <2>1. Sound(b)
    BY DEF WellFormed
  <2> QED BY <1>1, <2>1, CopyIs
<1>3. e = [d EXCEPT !.w = (@ + m) % b.size]
  BY DEF Filled
<1>4. /\ b.size \in Nat /\ b.r \in 0..b.size /\ b.w \in Nat /\ b.r < b.size
      /\ b.isEmpty \in BOOLEAN
  BY Indices
<1> HIDE DEF d, e
<1>5. w \in 0 .. (b.size - 1)
  BY <1>4
<1>6. d \in Buffers
  BY <1>2 DEF Sound, IsCopy
<1>7. e = [d EXCEPT !.w = w]
  BY <1>2, <1>3, <1>6 DEF Buffers, IsCopy
<1> HIDE DEF w
<1>8. /\ c \in Buffers /\ c.size = b.size /\ c.r = b.r /\ c.w = w /\ c.isEmpty = FALSE
      /\ c.buf = d.buf
  <2>1. d.size = b.size /\ d.r = b.r /\ w \in Nat
    BY <1>2, <1>4, <1>5 DEF IsCopy
  <2>2. c = [d EXCEPT !.w = w, !.isEmpty = FALSE]
    BY <1>6, <1>7 DEF Buffers
  <2> HIDE DEF c
  <2> QED BY ONLY <1>6, <2>1, <2>2 DEF Buffers
<1>9. ~b.isEmpty => e = c
  <2> SUFFICES ASSUME ~b.isEmpty PROVE e = c
    OBVIOUS
  <2>1. e \in Buffers /\ e.isEmpty = FALSE
    <3>1. d.isEmpty = FALSE /\ w \in Nat
      BY <1>2, <1>4, <1>5 DEF IsCopy
    <3> QED BY ONLY <1>6, <1>7, <3>1 DEF Buffers
  <2> QED BY <2>1 DEF Buffers
<1> HIDE DEF c
<1>10. WellFormed(c)
  <2>1. c.buf \in [0 .. (c.size - 1) -> Byte]
    BY <1>2, <1>8 DEF Sound, IsCopy
  <2> QED BY <1>4, <1>5, <1>8, <2>1 DEF WellFormed, Sound
<1>11. \A i \in 0 .. (b.size - 1) :
         c.buf[i] = IF i \in at .. (at + m - 1) THEN Fresh(m)[i - at + 1] ELSE b.buf[i]
  BY <1>1, <1>2, <1>8 DEF IsCopy
<1>12. FilledAt(c, b, at, m)
  BY <1>8, <1>10, <1>11 DEF FilledAt, w
<1> QED BY <1>9, <1>12 DEF c, e

\* Where that place is the write index, the bytes go behind the content.
LEMMA FilledAppends ==
  ASSUME NEW b, WellFormed(b), b.size > 0, NEW at \in Nat, NEW m \in Nat, next \in Nat,
         at = b.w \/ m = 0, m <= b.size - b.w, m <= Available(b), Buffered(b) + m > 0
  PROVE  Contents([Filled(b, at, m) EXCEPT !.isEmpty = FALSE]) = Contents(b) \o Fresh(m)
<1> DEFINE c == [Filled(b, at, m) EXCEPT !.isEmpty = FALSE]
           B == Buffered(b)
<1>1. FilledAt(c, b, at, m)
  BY FilledIs
<1> HIDE DEF c
<1>2. /\ b.size \in Nat /\ b.r \in Nat /\ b.w \in Nat /\ b.r < b.size /\ b.w < b.size
      /\ B \in Nat /\ Available(b) \in Nat /\ B + Available(b) = b.size
  BY BufferedIs, Indices
<1>3. Fresh(m) \in Seq(Byte) /\ Len(Fresh(m)) = m
  BY FreshIs
<1>4. b.w = Wrap(b, b.r + B)
  <2>1. CASE b.isEmpty
    <3>1. b.r = 0 /\ b.w = 0 /\ B = 0
      BY <2>1, BufferedIs, Indices
    <3> QED BY <1>2, <3>1 DEF Wrap
  <2>2. CASE ~b.isEmpty
    BY <2>2, BufferedIs
  <2> QED BY <2>1, <2>2
<1> HIDE DEF B
<1>5. c.w = Wrap(b, b.w + m)
  <2> DEFINE j == b.w + m
  <2>1. j \in Nat /\ j < 2 * b.size /\ b.size \in Nat
    BY <1>2
  <2> HIDE DEF j
  <2>2. j % b.size = IF j < b.size THEN j ELSE j - b.size
    BY ONLY <2>1, ModWraps
  <2> QED BY <1>1, <1>2, <2>1, <2>2 DEF j, Wrap, FilledAt
<1>6. ASSUME NEW j \in 1..m PROVE c.buf[Wrap(b, b.w + j - 1)] = Fresh(m)[j]
  <2>1. /\ Wrap(b, b.w + j - 1) = b.w + j - 1 /\ b.w + j - 1 \in 0 .. (b.size - 1)
        /\ at = b.w /\ b.w + j - 1 \in b.w .. (b.w + m - 1) /\ (b.w + j - 1) - b.w + 1 = j
    BY <1>2 DEF Wrap
  <2> QED BY <1>1, <2>1 DEF FilledAt
<1>7. ASSUME NEW k \in 1..B
      PROVE  c.buf[Wrap(b, b.r + k - 1)] = b.buf[Wrap(b, b.r + k - 1)]
  <2>1. Wrap(b, b.r + k - 1) \in 0 .. (b.size - 1)
    BY <1>2 DEF Wrap
  <2>2. CASE m = 0
    <3>1. Wrap(b, b.r + k - 1) \notin at .. (at + m - 1)
      BY <2>1, <2>2
    <3> QED BY <1>1, <2>1, <3>1 DEF FilledAt
  <2>3. CASE m # 0
    <3>1. /\ b.size \in Nat /\ b.r \in Nat /\ b.w \in Nat /\ B \in Nat /\ m \in Nat
          /\ m > 0 /\ B + m <= b.size /\ b.r < b.size /\ b.w < b.size
          /\ \/ b.w = b.r + B
             \/ b.w = b.r + B - b.size
      BY <1>2, <1>4, <2>3 DEF Wrap
    <3>2. Fits(b.size, b.r, b.w, B, m)
      BY ONLY <3>1 DEF Fits
    <3>3. b.w + m <= b.size
      BY <1>2
    <3>4. b.size \in Nat /\ b.r \in Nat /\ b.w \in Nat /\ B \in Nat /\ m \in Nat
      BY <3>1
    <3>5. Turn(b.size, b.r + k - 1) \notin b.w .. (b.w + m - 1)
      BY ONLY <3>2, <3>3, <3>4, k \in 1..B, WholeKeep
    <3>6. Wrap(b, b.r + k - 1) \notin at .. (at + m - 1)
      BY <2>3, <3>5 DEF Wrap, Turn
    <3> QED BY <1>1, <2>1, <3>6 DEF FilledAt
  <2> QED BY <2>2, <2>3
<1>8. B + Len(Fresh(m)) > 0 /\ Len(Fresh(m)) <= Available(b)
  BY <1>3 DEF B
<1>9. Contents(c) = Contents(b) \o Fresh(m)
  <2>1. WellFormed(c) /\ c.size = b.size /\ c.r = b.r /\ ~c.isEmpty
    BY <1>1 DEF FilledAt
  <2>2. /\ Fresh(m) \in Seq(Byte) /\ Len(Fresh(m)) <= Available(b)
        /\ Buffered(b) + Len(Fresh(m)) > 0 /\ c.w = Wrap(b, b.w + Len(Fresh(m)))
        /\ \A j \in 1..Len(Fresh(m)) : c.buf[Wrap(b, b.w + j - 1)] = Fresh(m)[j]
    BY <1>3, <1>5, <1>6, <1>8 DEF B
  <2>3. \A k \in 1..Buffered(b) :
          c.buf[Wrap(b, b.r + k - 1)] = b.buf[Wrap(b, b.r + k - 1)]
    BY <1>7 DEF B
  <2> QED BY ONLY WellFormed(b), <2>1, <2>2, <2>3, Appended
<1> QED BY <1>9 DEF c

\* WriteByte runs out of the slice only in a full buffer that has reached the threshold.
LEMMA ByteRoom ==
  ASSUME NEW b, WellFormed(b)
  PROVE  LET g == IF Available(b) < 1 THEN Grow(b, 1) ELSE b
         IN  /\ g.w >= g.size => Available(b) = 0 /\ b.size >= GrowThreshold
             /\ ~(g.w >= g.size) => WellFormed(g) /\ Contents(g) = Contents(b)
                                    /\ 1 <= Available(g)
<1>1. /\ Buffered(b) + Available(b) = b.size /\ Buffered(b) \in Nat /\ Available(b) \in Nat
      /\ b.size \in Nat /\ GrowThreshold \in Nat
      /\ b.size > 0 => b.w < b.size
      /\ b.w \in Nat
  BY BufferedIs, Indices, RingAssumption
<1>2. CASE Available(b) < 1
  <2> DEFINE g == Grow(b, 1)
             size == GrownSize(b, 1)
  <2>1. PICK one \in Nat \ {0} : one = 1
    OBVIOUS
  <2>2. Available(b) = 0 /\ Buffered(b) = b.size
    BY <1>1, <1>2
  <2>3. size \in Nat /\ (b.size < GrowThreshold => size > b.size)
    BY <1>1, <2>1, GrowsEnough
  <2>4. g.size = size /\ g.w = Buffered(b)
    <3>1. Grow(b, one).size = GrownSize(b, one) /\ Grow(b, one).w = Buffered(b)
      BY GrowIs
    <3> QED BY <2>1, <3>1
  <2>5. CASE g.w >= g.size
    <3> HIDE DEF g, size
    <3>1. b.size >= GrowThreshold
      BY <1>1, <2>2, <2>3, <2>4, <2>5
    <3> QED BY <1>2, <2>2, <2>5, <3>1 DEF g
  <2>6. CASE ~(g.w >= g.size)
    <3>1. Buffered(b) < size
      <4> HIDE DEF g, size
      <4> QED BY <1>1, <2>3, <2>4, <2>6
    <3>2. Buffered(b) < GrownSize(b, one)
      BY <2>1, <3>1
    <3>3. /\ WellFormed(Grow(b, one)) /\ Buffered(Grow(b, one)) = Buffered(b)
          /\ Contents(Grow(b, one)) = Contents(b)
      BY ONLY WellFormed(b), one \in Nat \ {0}, <3>2, GrowKeeps
    <3>4. WellFormed(g) /\ Buffered(g) = Buffered(b) /\ Contents(g) = Contents(b)
      BY <2>1, <3>3
    <3> HIDE DEF g, size
    <3>5. Buffered(g) + Available(g) = g.size /\ Available(g) \in Nat
      BY <3>4, BufferedIs, Indices
    <3>6. 1 <= Available(g)
      BY <1>1, <2>3, <2>4, <3>1, <3>4, <3>5
    <3> QED BY <1>2, <2>6, <3>4, <3>6 DEF g
  <2> QED BY <2>5, <2>6
<1>3. CASE ~(Available(b) < 1)
  <2>1. 1 <= Available(b) /\ ~(b.w >= b.size)
    BY <1>1, <1>3
  <2> QED BY <1>3, <2>1
<1> QED BY <1>2, <1>3

-----------------------------------------------------------------------------
(* The inductive invariant.                                                *)

Kinds ==
  /\ next \in 0 .. (NumBytes - 1) /\ out \in Seq(Byte) /\ op \in {"none", "put", "take", "drop"}
  /\ left \in 0..MaxStream /\ phase \in {"idle", "first", "second"} /\ panic \in BOOLEAN

\* Inside ReadFrom there is a slice, and between its two Reads something in it.
InLoop == (phase # "idle" => rb.size > 0) /\ (phase = "second" => ~rb.isEmpty)

\* How far the failure of WriteByte (ByteIsWritten) reaches.
PanicOnlyAtThreshold == panic => Available(rb) = 0 /\ rb.size >= GrowThreshold

RingInv ==
  /\ WellFormed(rb) /\ rb.size <= MaxSize
  /\ Kinds /\ InLoop /\ PanicOnlyAtThreshold

\* With a Reader that fills its slice, the first Read of a round finds room, and the second
\* finds the write index at the start of the slice or nothing left to read.
LoopInv ==
  /\ phase = "first" => Available(rb) >= MinRead /\ (rb.isEmpty => left > 0)
  /\ phase = "second" => rb.w = 0 \/ left = 0

\* A buffer within the bound outside ReadFrom is all the invariants ask for.
LEMMA Settles ==
  ASSUME Kinds', ~panic', phase' = "idle", WellFormed(rb'), rb'.size <= MaxSize
  PROVE  RingInv' /\ LoopInv'
BY DEF RingInv, LoopInv, InLoop, PanicOnlyAtThreshold

\* What the steps are to the queue: n bytes are put, m are taken or dropped.
LEMMA IsPut ==
  ASSUME RingInv, NEW n \in Nat, Wrote(n), Contents(rb') = Contents(rb) \o Fresh(n)
  PROVE  Fifo!Next
<1>1. /\ Contents(rb) \in Seq(Byte) /\ Len(Contents(rb)) \in Nat
  BY ContentsIs, BufferedIs, Indices DEF RingInv
<1>2. Fresh(n) \in Seq(Byte) /\ Len(Fresh(n)) = n
  BY FreshIs, RingAssumption DEF RingInv, Kinds
<1>3. Len(Contents(rb')) = Len(Contents(rb)) + n
  <2>1. Len(Contents(rb) \o Fresh(n)) = Len(Contents(rb)) + Len(Fresh(n))
    BY <1>1, <1>2, Joined
  <2> QED BY <1>2, <2>1
<1>4. Len(Contents(rb')) - Len(Contents(rb)) = n
  BY <1>1, <1>3
<1>5. Fifo!Fresh(n) = Fresh(n)
  BY DEF Fifo!Fresh, Fresh
<1>6. Fifo!Put
  BY <1>4, <1>5 DEF Fifo!Put, Wrote, Result
<1> QED BY <1>6 DEF Fifo!Next

\* The same for the bytes that are handed out ...
LEMMA IsTake ==
  ASSUME NEW m \in 0..Len(Contents(rb)), Took(SubSeq(Contents(rb), 1, m)),
         Contents(rb') = SubSeq(Contents(rb), m + 1, Len(Contents(rb)))
  PROVE  Fifo!Next
<1>1. Fifo!Take(m)
  BY DEF Fifo!Take, Fifo!Upto, Fifo!From, Took, Result
<1> QED BY <1>1 DEF Fifo!Next

\* ... and for those that are dropped.
LEMMA IsDrop ==
  ASSUME NEW m \in 0..Len(Contents(rb)), Result("drop", <<>>), next' = next,
         Contents(rb') = SubSeq(Contents(rb), m + 1, Len(Contents(rb)))
  PROVE  Fifo!Next
<1>1. Fifo!Drop(m)
  BY DEF Fifo!Drop, Fifo!From, Result
<1> QED BY <1>1 DEF Fifo!Next

\* Writing n bytes numbers the next one.
LEMMA WroteKinds ==
  ASSUME Kinds, NEW n \in Nat, Wrote(n)
  PROVE  /\ next' \in 0 .. (NumBytes - 1) /\ out' \in Seq(Byte) /\ op' = "put"
<1>1. next + n \in Nat /\ NumBytes \in Nat /\ NumBytes > 0
  BY RingAssumption DEF Kinds
<1>2. (next + n) % NumBytes \in 0 .. (NumBytes - 1)
  BY <1>1
<1> QED BY <1>2 DEF Wrote, Result

-----------------------------------------------------------------------------
(* The steps.                                                              *)

\* Write puts its bytes behind the content.
LEMMA WriteStep ==
  ASSUME RingInv, ~panic, NEW n \in 1..MaxChunk, Write(n)
  PROVE  RingInv' /\ LoopInv' /\ Fifo!Next
<1> DEFINE g == RoomFor(rb, n)
<1>1. n \in Nat \ {0} /\ n \in Nat /\ n > 0
  OBVIOUS
<1>2. next \in Nat /\ WellFormed(rb) /\ Kinds
  BY DEF RingInv, Kinds
<1>3. WellFormed(g) /\ Contents(g) = Contents(rb) /\ n <= Available(g)
  BY <1>1, <1>2, RoomForIs
<1>4. Fresh(n) \in Seq(Byte) /\ Fresh(n) # <<>> /\ Len(Fresh(n)) = n
  BY <1>1, <1>2, FreshIs
<1>5. rb' = Store(g, Fresh(n)) /\ rb'.size <= MaxSize /\ Wrote(n)
      /\ left' = left /\ phase' = "idle" /\ ~panic'
  BY DEF Write
<1> HIDE DEF g
<1>6. WellFormed(rb') /\ Contents(rb') = Contents(rb) \o Fresh(n)
  <2>1. Len(Fresh(n)) <= Available(g)
    BY <1>3, <1>4
  <2> QED BY <1>3, <1>4, <1>5, <2>1, StoreIs
<1>7. Kinds'
  BY <1>1, <1>2, <1>5, WroteKinds DEF Kinds, Write
<1> QED BY <1>1, <1>5, <1>6, <1>7, Settles, IsPut

\* WriteByte does the same with one byte, or panics and changes nothing.
LEMMA WriteByteStep ==
  ASSUME RingInv, LoopInv, ~panic, WriteByte
  PROVE  RingInv' /\ LoopInv' /\ (Fifo!Next \/ UNCHANGED Fifo!vars)
<1> DEFINE g == IF Available(rb) < 1 THEN Grow(rb, 1) ELSE rb
<1>1. next \in Nat /\ WellFormed(rb) /\ Kinds
  BY DEF RingInv, Kinds
<1>2. /\ g.w >= g.size => Available(rb) = 0 /\ rb.size >= GrowThreshold
      /\ ~(g.w >= g.size) => WellFormed(g) /\ Contents(g) = Contents(rb) /\ 1 <= Available(g)
  BY <1>1, ByteRoom
<1>3. /\ phase = "idle" /\ phase' = "idle" /\ left' = left
      /\ IF g.w >= g.size THEN panic' = TRUE /\ UNCHANGED <<rb, next, out, op>>
         ELSE rb' = Store(g, Fresh(1)) /\ rb'.size <= MaxSize /\ Wrote(1) /\ UNCHANGED panic
  BY DEF WriteByte
<1> HIDE DEF g
<1>4. CASE g.w >= g.size
  <2>1. rb' = rb /\ next' = next /\ out' = out /\ op' = op /\ panic' = TRUE
    BY <1>3, <1>4
  <2>2. Fifo!vars' = Fifo!vars
    BY <2>1 DEF Fifo!vars
  <2>3. PanicOnlyAtThreshold'
    BY <1>2, <1>4, <2>1 DEF PanicOnlyAtThreshold
  <2>4. Kinds' /\ InLoop' /\ LoopInv'
    BY <1>1, <1>3, <2>1 DEF Kinds, InLoop, LoopInv
  <2>5. RingInv'
    BY <2>1, <2>3, <2>4 DEF RingInv
  <2> QED BY <2>2, <2>4, <2>5
<1>5. CASE ~(g.w >= g.size)
  <2>1. PICK one \in Nat : one = 1
    OBVIOUS
  <2>2. rb' = Store(g, Fresh(one)) /\ rb'.size <= MaxSize /\ Wrote(one) /\ ~panic'
    BY <1>3, <1>5, <2>1
  <2>3. Fresh(one) \in Seq(Byte) /\ Fresh(one) # <<>> /\ Len(Fresh(one)) <= Available(g)
    BY <1>1, <1>2, <1>5, <2>1, FreshIs
  <2>4. WellFormed(g) /\ Contents(g) = Contents(rb)
    BY <1>2, <1>5
  <2>5. WellFormed(rb') /\ Contents(rb') = Contents(rb) \o Fresh(one)
    BY <2>2, <2>3, <2>4, StoreIs
  <2>6. panic' \in BOOLEAN
    BY <1>1, <1>3, <1>5 DEF Kinds
  <2>7. Kinds'
    BY <1>1, <1>3, <2>2, <2>6, WroteKinds DEF Kinds
  <2> QED BY <1>3, <2>2, <2>5, <2>7, Settles, IsPut
<1> QED BY <1>4, <1>5

\* What Read, ReadByte, Discard and WriteTo have in common.
LEMMA TakeStep ==
  ASSUME RingInv, ~panic, NEW m \in 1..Buffered(rb), rb' = Moved(rb, m),
         phase = "idle", UNCHANGED <<left, phase, panic>>,
         \/ Took(SubSeq(Contents(rb), 1, m))
         \/ Result("drop", <<>>) /\ next' = next
  PROVE  RingInv' /\ LoopInv' /\ Fifo!Next
<1>1. WellFormed(rb) /\ Kinds /\ rb.size <= MaxSize
  BY DEF RingInv
<1>2. Contents(rb) \in Seq(Byte) /\ Len(Contents(rb)) = Buffered(rb) /\ Buffered(rb) \in Nat
      /\ ~rb.isEmpty
  BY <1>1, ContentsIs, BufferedIs, Indices
<1>3. /\ WellFormed(rb') /\ rb'.size = rb.size
      /\ Contents(rb') = SubSeq(Contents(rb), m + 1, Len(Contents(rb)))
  BY <1>1, <1>2, MovedIs
<1>4. m \in 0..Len(Contents(rb)) /\ SubSeq(Contents(rb), 1, m) \in Seq(Byte)
  BY <1>2, SubSeqProperties
<1>5. Fifo!Next
  BY <1>3, <1>4, IsTake, IsDrop
<1>6. next' = next /\ out' \in Seq(Byte) /\ op' \in {"none", "put", "take", "drop"}
  <2>1. CASE Took(SubSeq(Contents(rb), 1, m))
    BY <1>4, <2>1 DEF Took, Result
  <2>2. CASE Result("drop", <<>>) /\ next' = next
    BY <2>2 DEF Result
  <2> QED BY <2>1, <2>2
<1>7. Kinds'
  BY <1>1, <1>6 DEF Kinds
<1> QED BY <1>1, <1>3, <1>5, <1>7, Settles

\* Discard of all there is, and Reset.
LEMMA EmptyStep ==
  ASSUME RingInv, ~panic, rb' = Reset(rb), phase = "idle", Result("drop", <<>>),
         UNCHANGED <<next, left, phase, panic>>
  PROVE  RingInv' /\ LoopInv' /\ Fifo!Next
<1>1. WellFormed(rb) /\ Kinds /\ rb.size <= MaxSize
  BY DEF RingInv
<1>2. Contents(rb) \in Seq(Byte) /\ Len(Contents(rb)) \in Nat
  BY <1>1, ContentsIs, BufferedIs, Indices
<1>3. WellFormed(rb') /\ rb'.size = rb.size /\ Contents(rb') = <<>>
  BY <1>1, ResetIs
<1>4. SubSeq(Contents(rb), Len(Contents(rb)) + 1, Len(Contents(rb))) = <<>>
  BY <1>2, SubSeqEmpty
<1>5. Fifo!Next
  BY <1>2, <1>3, <1>4, IsDrop
<1>6. Kinds'
  BY <1>1 DEF Kinds, Result
<1> QED BY <1>1, <1>3, <1>5, <1>6, Settles

\* Read hands out a prefix.
LEMMA ReadStep ==
  ASSUME RingInv, ~panic, NEW n \in 1..MaxChunk, Read(n)
  PROVE  RingInv' /\ LoopInv' /\ Fifo!Next
<1> DEFINE m == Lesser(n, Buffered(rb))
<1>1. WellFormed(rb) /\ ~rb.isEmpty
  BY DEF RingInv, Read
<1>2. Buffered(rb) \in Nat /\ Buffered(rb) > 0
  BY <1>1, BufferedIs, Indices
<1>3. m \in 1..Buffered(rb) /\ m \in Nat \ {0} /\ Lesser(m, Buffered(rb)) = m
  BY <1>2 DEF Lesser
<1>4. /\ Took(Peek(rb, m)) /\ rb' = Advance(rb, m)
      /\ phase = "idle" /\ UNCHANGED <<left, phase, panic>>
  BY DEF Read
<1> HIDE DEF m
<1>5. Peek(rb, m) = SubSeq(Contents(rb), 1, m)
  BY <1>1, <1>3, PeekIs
<1>6. rb' = Moved(rb, m)
  BY <1>1, <1>3, <1>4, AdvanceIs
<1> QED BY <1>3, <1>4, <1>5, <1>6, TakeStep

\* ReadByte hands out the first byte.
LEMMA ReadByteStep ==
  ASSUME RingInv, ~panic, ReadByte
  PROVE  RingInv' /\ LoopInv' /\ Fifo!Next
<1>1. WellFormed(rb) /\ ~rb.isEmpty
  BY DEF RingInv, ReadByte
<1>2. /\ Buffered(rb) \in Nat /\ Buffered(rb) > 0
      /\ rb.size \in Nat /\ rb.r \in Nat /\ rb.r < rb.size
  BY <1>1, BufferedIs, Indices
<1>3. PICK m \in 1..Buffered(rb) : m = 1
  BY <1>2
<1>4. (IF rb.r + 1 = rb.size THEN 0 ELSE rb.r + 1) = Wrap(rb, rb.r + m)
  BY <1>2, <1>3 DEF Wrap
<1>5. rb' = Moved(rb, m)
  BY <1>4 DEF ReadByte, Moved
<1>6. <<rb.buf[rb.r]>> = SubSeq(Contents(rb), 1, m)
  <2>1. Contents(rb) \in Seq(Byte) /\ Len(Contents(rb)) = Buffered(rb)
        /\ Contents(rb)[1] = rb.buf[Wrap(rb, rb.r + 1 - 1)]
    BY <1>1, <1>2, ContentsIs
  <2>2. Wrap(rb, rb.r + 1 - 1) = rb.r
    BY <1>2 DEF Wrap
  <2>3. /\ SubSeq(Contents(rb), 1, m) \in Seq(Byte) /\ Len(SubSeq(Contents(rb), 1, m)) = 1
        /\ SubSeq(Contents(rb), 1, m)[1] = Contents(rb)[1]
    BY <1>2, <1>3, <2>1, SubSeqProperties
  <2>4. Contents(rb)[1] \in Byte
    BY <1>2, <2>1
  <2>5. /\ <<rb.buf[rb.r]>> \in Seq(Byte) /\ Len(<<rb.buf[rb.r]>>) = 1
        /\ <<rb.buf[rb.r]>>[1] = rb.buf[rb.r]
    BY <2>1, <2>2, <2>4
  <2>6. \A i \in 1..1 : <<rb.buf[rb.r]>>[i] = SubSeq(Contents(rb), 1, m)[i]
    BY <2>1, <2>2, <2>3, <2>5
  <2> QED BY <2>3, <2>5, <2>6, SameBytes
<1>7. Took(SubSeq(Contents(rb), 1, m)) /\ phase = "idle" /\ UNCHANGED <<left, phase, panic>>
  BY <1>6 DEF ReadByte
<1> QED BY <1>5, <1>7, TakeStep

\* Discard drops a prefix.
LEMMA DiscardStep ==
  ASSUME RingInv, ~panic, NEW n \in 1..MaxSize, Discard(n)
  PROVE  RingInv' /\ LoopInv' /\ Fifo!Next
<1>1. WellFormed(rb)
  BY DEF RingInv
<1>2. /\ Buffered(rb) \in Nat /\ Buffered(rb) <= rb.size /\ (Buffered(rb) = 0 <=> rb.isEmpty)
      /\ rb.size \in Nat /\ rb.r \in Nat /\ rb.r <= rb.size
      /\ ~rb.isEmpty => rb.r < rb.size
  BY <1>1, BufferedIs, Indices
<1>3. /\ phase = "idle" /\ Result("drop", <<>>) /\ next' = next
      /\ UNCHANGED <<next, left, phase, panic>> /\ UNCHANGED <<left, phase, panic>>
  BY DEF Discard
<1>4. CASE n < Buffered(rb)
  <2>1. n \in 1..Buffered(rb) /\ n # Buffered(rb) /\ ~rb.isEmpty
    BY <1>2, <1>4
  <2>2. Wrap(rb, rb.r + n) # rb.w
    BY <1>1, <2>1, Meets
  <2>3. (rb.r + n) % rb.size = Wrap(rb, rb.r + n)
    <3> DEFINE j == rb.r + n
    <3>1. j \in Nat /\ j < 2 * rb.size /\ rb.size \in Nat
      BY <1>2, <1>4, <2>1
    <3> HIDE DEF j
    <3>2. j % rb.size = IF j < rb.size THEN j ELSE j - rb.size
      BY ONLY <3>1, ModWraps
    <3>3. j % rb.size = Wrap(rb, j)
      BY <3>2 DEF Wrap
    <3> QED BY <3>3 DEF j
  <2>4. rb' = Moved(rb, n)
    <3>1. rb' = [rb EXCEPT !.r = (@ + n) % rb.size]
      BY <1>4 DEF Discard
    <3>2. rb \in Buffers
      BY <1>1 DEF WellFormed, Sound
    <3>3. rb' = [rb EXCEPT !.r = (rb.r + n) % rb.size]
      BY <3>1, <3>2 DEF Buffers
    <3> QED BY <2>2, <2>3, <3>3 DEF Moved
  <2> QED BY <1>3, <2>1, <2>4, TakeStep
<1>5. CASE ~(n < Buffered(rb))
  <2>1. rb' = Reset(rb)
    BY <1>5 DEF Discard
  <2> QED BY <1>3, <2>1, EmptyStep
<1> QED BY <1>4, <1>5

\* A Writer that accepts nothing of a full buffer whose content starts at 0 empties it.
LEMMA WriteToStep ==
  ASSUME RingInv, ~panic, NEW m \in 0..MaxSize, WriteTo(m)
  PROVE  RingInv' /\ LoopInv' /\ (~AwkwardIO => Fifo!Next)
<1>1. WellFormed(rb) /\ ~rb.isEmpty /\ Kinds /\ rb.size <= MaxSize
  BY DEF RingInv, WriteTo
<1>2. /\ Buffered(rb) \in Nat /\ Buffered(rb) <= rb.size /\ m \in 0..Buffered(rb)
      /\ rb.size \in Nat /\ rb.r \in Nat /\ rb.r < rb.size /\ rb.w \in Nat /\ rb.w < rb.size
  BY <1>1, BufferedIs, Indices DEF WriteTo
<1>3. /\ phase = "idle" /\ UNCHANGED <<left, phase, panic>>
      /\ Took(SubSeq(Contents(rb), 1, m)) /\ (m > 0 \/ AwkwardIO)
      /\ rb' = IF (rb.w <= rb.r /\ rb.w # 0) /\ m < rb.size - rb.r THEN [rb EXCEPT !.r = @ + m]
               ELSE Advance(rb, m)
  BY DEF WriteTo
<1>4. rb \in Buffers
  BY <1>1 DEF WellFormed, Sound
<1>5. CASE m > 0
  <2>1. m \in 1..Buffered(rb)
    BY <1>2, <1>5
  <2>2. CASE (rb.w <= rb.r /\ rb.w # 0) /\ m < rb.size - rb.r
    <3>1. rb.r + m = Wrap(rb, rb.r + m) /\ rb.r + m # rb.w
      BY <1>2, <1>5, <2>2 DEF Wrap
    <3>2. rb' = [rb EXCEPT !.r = rb.r + m]
      BY <1>3, <1>4, <2>2 DEF Buffers
    <3>3. rb' = Moved(rb, m)
      BY <3>1, <3>2 DEF Moved
    <3> QED BY <1>3, <2>1, <3>3, TakeStep
  <2>3. CASE ~((rb.w <= rb.r /\ rb.w # 0) /\ m < rb.size - rb.r)
    <3>1. rb' = Moved(rb, m)
      BY <1>1, <1>3, <2>1, <2>3, AdvanceIs
    <3> QED BY <1>3, <2>1, <3>1, TakeStep
  <2> QED BY <2>2, <2>3
<1>6. CASE ~(m > 0)
  <2>1. m = 0 /\ AwkwardIO
    BY <1>2, <1>3, <1>6
  <2>2. WellFormed(rb') /\ rb'.size = rb.size
    <3>1. CASE (rb.w <= rb.r /\ rb.w # 0) /\ m < rb.size - rb.r
      <4>1. rb' = [rb EXCEPT !.r = rb.r + m] /\ rb.r + m = rb.r
        BY <1>2, <1>3, <1>4, <2>1, <3>1 DEF Buffers
      <4>2. rb' = rb
        BY <1>4, <4>1 DEF Buffers
      <4> QED BY <1>1, <4>2
    <3>2. CASE ~((rb.w <= rb.r /\ rb.w # 0) /\ m < rb.size - rb.r)
      <4>1. rb' = Advance(rb, 0)
        BY <1>3, <2>1, <3>2
      <4> QED BY <1>1, <4>1, AdvanceByNone
    <3> QED BY <3>1, <3>2
  <2>3. SubSeq(Contents(rb), 1, m) \in Seq(Byte)
    <3>1. Contents(rb) \in Seq(Byte) /\ Len(Contents(rb)) = Buffered(rb)
      BY <1>1, ContentsIs
    <3> QED BY <1>2, <3>1, SubSeqProperties
  <2>4. Kinds'
    BY <1>1, <1>3, <2>3 DEF Kinds, Took, Result
  <2> QED BY <1>1, <1>3, <2>1, <2>2, <2>4, Settles
<1> QED BY <1>5, <1>6

\* ReadFrom makes room before it reads.
LEMMA ReadFromStep ==
  ASSUME RingInv, ~panic, NEW n \in 0..MaxStream, ReadFrom(n)
  PROVE  RingInv' /\ (~AwkwardIO => LoopInv') /\ Fifo!Next
<1>1. WellFormed(rb) /\ Kinds
  BY DEF RingInv
<1>2. /\ WellFormed(rb') /\ Contents(rb') = Contents(rb)
      /\ MinRead <= Available(rb') /\ rb'.size > 0
  <2>1. rb' = MakeRoom(rb)
    BY DEF ReadFrom
  <2> QED BY <1>1, <2>1, MakeRoomIs
<1>3. /\ rb'.size <= MaxSize /\ phase' = "first" /\ left' = n /\ Result("put", <<>>)
      /\ next' = next /\ ~panic' /\ panic' = panic /\ (n > 0 \/ AwkwardIO)
  BY DEF ReadFrom
<1>4. PICK none \in Nat : none = 0
  OBVIOUS
<1>5. (next + none) % NumBytes = next
  <2>1. next + none = next /\ next \in Nat /\ NumBytes \in Nat /\ next < NumBytes
    BY <1>1, <1>4, RingAssumption DEF Kinds
  <2>2. next % NumBytes = next
    BY <2>1, ModWraps
  <2> QED BY <2>1, <2>2
<1>6. Contents(rb') = Contents(rb) \o Fresh(none)
  <2>1. Contents(rb) \in Seq(Byte)
    BY <1>1, ContentsIs
  <2>2. next \in Nat
    BY <1>1 DEF Kinds
  <2>3. Fresh(none) \in Seq(Byte) /\ Len(Fresh(none)) = 0
    BY <1>4, <2>2, FreshIs
  <2>4. Fresh(none) = <<>>
    BY <2>3, EmptySeq
  <2>5. Contents(rb) \o <<>> = Contents(rb)
    BY <2>1
  <2> QED BY <1>2, <2>4, <2>5
<1>7. Fifo!Next
  BY <1>3, <1>5, <1>6, IsPut DEF Wrote
<1>8. Kinds'
  BY <1>1, <1>3 DEF Kinds, Result
<1>9. InLoop' /\ PanicOnlyAtThreshold'
  BY <1>2, <1>3 DEF InLoop, PanicOnlyAtThreshold
<1>10. ~AwkwardIO => LoopInv'
  BY <1>2, <1>3 DEF LoopInv
<1> QED BY <1>2, <1>3, <1>7, <1>8, <1>9, <1>10 DEF RingInv

\* The buffer after a Read into the slice: well-formed with any Reader; with one that fills
\* its slice the bytes are behind the content.
LEMMA AfterRead ==
  ASSUME RingInv, NEW at \in Nat, NEW m \in 0..MaxStream, NEW b,
         phase # "idle", Wrote(m), WellFormed(b), b.isEmpty = FALSE, b.size > 0,
         left' \in 0..MaxStream, ~panic, panic' = panic,
         \/ rb' = b /\ phase' = "idle"
         \/ rb' = b /\ phase' = "second" /\ (b.w = 0 \/ left' = 0 \/ AwkwardIO)
         \/ rb' = MakeRoom(b) /\ rb'.size <= MaxSize /\ phase' = "first",
         b.size <= MaxSize
  PROVE  /\ RingInv' /\ (~AwkwardIO => LoopInv')
         /\ Contents(b) = Contents(rb) \o Fresh(m) => Fifo!Next
<1>1. Kinds
  BY DEF RingInv
<1>2. next' \in 0 .. (NumBytes - 1) /\ out' \in Seq(Byte) /\ op' = "put"
  BY <1>1, WroteKinds
<1>3. Kinds'
  BY <1>1, <1>2 DEF Kinds
<1>4. PanicOnlyAtThreshold'
  BY DEF PanicOnlyAtThreshold
<1>5. /\ WellFormed(rb') /\ rb'.size <= MaxSize /\ rb'.size > 0 /\ ~rb'.isEmpty
      /\ Contents(rb') = Contents(b)
      /\ phase' = "first" => MinRead <= Available(rb')
  <2>1. CASE rb' = b /\ phase' # "first"
    BY <2>1
  <2>2. CASE rb' = MakeRoom(b) /\ rb'.size <= MaxSize
    BY <2>2, MakeRoomIs
  <2> QED BY <2>1, <2>2
<1>6. InLoop'
  BY <1>5 DEF InLoop
<1>7. ~AwkwardIO => LoopInv'
  <2>1. phase' = "second" => rb' = b /\ (b.w = 0 \/ left' = 0 \/ AwkwardIO)
    OBVIOUS
  <2>2. MinRead \in Nat /\ (phase' = "first" => Available(rb') >= MinRead)
    <3>1. Available(rb') \in Nat /\ MinRead \in Nat
      <4>1. Available(rb') \in 0 .. rb'.size /\ rb'.size \in Nat
        BY <1>5, BufferedIs, Indices
      <4> QED BY <4>1, RingAssumption
    <3> QED BY <1>5, <3>1
  <2> QED BY <1>5, <2>1, <2>2 DEF LoopInv
<1>8. Contents(b) = Contents(rb) \o Fresh(m) => Fifo!Next
  BY <1>5, IsPut
<1> QED BY <1>3, <1>4, <1>5, <1>6, <1>7, <1>8 DEF RingInv

\* The Read of a round that goes behind the write index.
LEMMA ReadFirstStep ==
  ASSUME RingInv, ~AwkwardIO => LoopInv, ~panic,
         NEW m \in 0..MaxStream, NEW done \in BOOLEAN, ReadFirst(m, done)
  PROVE  RingInv' /\ (~AwkwardIO => LoopInv' /\ Fifo!Next)
<1> DEFINE b == [Filled(rb, rb.w, m) EXCEPT !.isEmpty = FALSE]
           room == IF rb.w >= rb.r THEN rb.size - rb.w ELSE rb.r - rb.w
<1>1. WellFormed(rb) /\ Kinds /\ rb.size <= MaxSize /\ rb.size > 0 /\ phase = "first"
      /\ m \in Nat /\ next \in Nat /\ left \in Nat /\ left <= MaxStream
  BY RingAssumption DEF RingInv, InLoop, Kinds, ReadFirst
<1>2. /\ rb.size \in Nat /\ rb.r \in Nat /\ rb.r < rb.size /\ rb.w \in Nat /\ rb.w < rb.size
  BY <1>1, Indices
<1>3. FilledAt(b, rb, rb.w, m)
  BY <1>1, <1>2, FilledIs
<1>4. /\ Gives(m, room, done) /\ Wrote(m) /\ panic' = panic
      /\ IF done THEN rb' = b /\ phase' = "idle"
         ELSE IF rb.w >= rb.r THEN rb' = b /\ phase' = "second"
         ELSE rb' = MakeRoom(b) /\ rb'.size <= MaxSize /\ phase' = "first"
  BY DEF ReadFirst
<1>5. room \in Nat
  BY <1>2
<1>6. /\ m <= left /\ m <= room /\ left' = left - m /\ left' \in 0..MaxStream
      /\ ~AwkwardIO => m = Lesser(left, room)
  BY <1>1, <1>4, <1>5, RingAssumption DEF Gives, Lesser
<1>7. b.w = (rb.w + m) % rb.size /\ WellFormed(b) /\ b.isEmpty = FALSE /\ b.size = rb.size
  BY <1>3 DEF FilledAt
<1>8. ~AwkwardIO /\ rb.w >= rb.r => b.w = 0 \/ left' = 0
  <2> SUFFICES ASSUME ~AwkwardIO, rb.w >= rb.r PROVE b.w = 0 \/ left' = 0
    OBVIOUS
  <2>1. CASE left <= room
    <3>1. m = left
      BY <1>1, <1>5, <1>6, <2>1 DEF Lesser
    <3> QED BY <1>1, <1>6, <3>1
  <2>2. CASE ~(left <= room)
    <3>1. m = room /\ room = rb.size - rb.w
      BY <1>1, <1>5, <1>6, <2>2 DEF Lesser
    <3>2. rb.w + m = rb.size
      BY <1>2, <3>1
    <3>3. rb.size % rb.size = 0
      <4> DEFINE size == rb.size
      <4>1. size \in Nat /\ size < 2 * size /\ size - size = 0
        BY <1>1, <1>2
      <4> HIDE DEF size
      <4>2. size % size = IF size < size THEN size ELSE size - size
        BY <4>1, ModWraps
      <4> QED BY <4>1, <4>2 DEF size
    <3> QED BY <1>7, <3>2, <3>3
  <2> QED BY <2>1, <2>2
<1>9. ~AwkwardIO => Contents(b) = Contents(rb) \o Fresh(m)
  <2> SUFFICES ASSUME ~AwkwardIO PROVE Contents(b) = Contents(rb) \o Fresh(m)
    OBVIOUS
  <2>1. Available(rb) >= MinRead /\ (rb.isEmpty => left > 0) /\ MinRead \in Nat \ {0}
    BY <1>1, RingAssumption DEF LoopInv
  <2>2. /\ Buffered(rb) \in Nat /\ Available(rb) \in Nat
        /\ Buffered(rb) + Available(rb) = rb.size /\ (Buffered(rb) = 0 <=> rb.isEmpty)
    BY <1>1, BufferedIs, Indices
  <2>3. m <= Available(rb) /\ m <= rb.size - rb.w /\ room > 0
    <3>1. CASE rb.isEmpty
      <4>1. rb.r = 0 /\ rb.w = 0 /\ Available(rb) = rb.size
        BY <1>1, <1>2, <2>2, <3>1, Indices
      <4> QED BY <1>1, <1>2, <1>6, <4>1
    <3>2. CASE ~rb.isEmpty
      <4>1. rb.w # rb.r
        BY <2>1, <2>2, <3>2 DEF Available
      <4> QED BY <1>1, <1>2, <1>6, <4>1 DEF Available
    <3> QED BY <3>1, <3>2
  <2>4. Buffered(rb) + m > 0
    <3>1. CASE rb.isEmpty
      <4>1. m = Lesser(left, room) /\ left > 0
        BY <1>6, <2>1, <3>1
      <4> QED BY <1>1, <1>5, <2>2, <2>3, <4>1 DEF Lesser
    <3>2. CASE ~rb.isEmpty
      BY <1>1, <2>2, <3>2
    <3> QED BY <3>1, <3>2
  <2> QED BY <1>1, <1>2, <2>3, <2>4, FilledAppends
<1> HIDE DEF b, room
<1>10. \/ rb' = b /\ phase' = "idle"
       \/ rb' = b /\ phase' = "second" /\ (b.w = 0 \/ left' = 0 \/ AwkwardIO)
       \/ rb' = MakeRoom(b) /\ rb'.size <= MaxSize /\ phase' = "first"
  BY <1>4, <1>8
<1>11. b.size > 0 /\ b.size <= MaxSize /\ phase # "idle"
  BY <1>1, <1>7
<1>12. /\ RingInv' /\ (~AwkwardIO => LoopInv')
       /\ Contents(b) = Contents(rb) \o Fresh(m) => Fifo!Next
  BY <1>4, <1>6, <1>7, <1>10, <1>11, AfterRead
<1> QED BY <1>9, <1>12

\* The Read of a round that goes to the start of the slice.
LEMMA ReadSecondStep ==
  ASSUME RingInv, ~AwkwardIO => LoopInv, ~panic,
         NEW m \in 0..MaxStream, NEW done \in BOOLEAN, ReadSecond(m, done)
  PROVE  RingInv' /\ (~AwkwardIO => LoopInv' /\ Fifo!Next)
<1> DEFINE b == Filled(rb, 0, m)
           c == [Filled(rb, 0, m) EXCEPT !.isEmpty = FALSE]
<1>1. WellFormed(rb) /\ Kinds /\ rb.size <= MaxSize /\ rb.size > 0 /\ phase = "second"
      /\ ~rb.isEmpty /\ m \in Nat /\ next \in Nat /\ left \in Nat /\ left <= MaxStream
  BY RingAssumption DEF RingInv, InLoop, Kinds, ReadSecond
<1>2. /\ rb.size \in Nat /\ rb.r \in Nat /\ rb.r < rb.size /\ rb.w \in Nat /\ rb.w < rb.size
  BY <1>1, Indices
<1>3. PICK at \in Nat : at = 0
  OBVIOUS
<1>4. FilledAt(c, rb, at, m) /\ b = c
  <2>1. /\ FilledAt([Filled(rb, at, m) EXCEPT !.isEmpty = FALSE], rb, at, m)
        /\ ~rb.isEmpty => Filled(rb, at, m) = [Filled(rb, at, m) EXCEPT !.isEmpty = FALSE]
    BY <1>1, FilledIs
  <2> QED BY <1>1, <1>3, <2>1
<1>5. /\ Gives(m, rb.r, done) /\ Wrote(m) /\ panic' = panic
      /\ IF done THEN rb' = b /\ phase' = "idle"
         ELSE rb' = MakeRoom(b) /\ rb'.size <= MaxSize /\ phase' = "first"
  BY DEF ReadSecond
<1>6. /\ m <= left /\ m <= rb.r /\ left' = left - m /\ left' \in 0..MaxStream
  BY <1>1, <1>2, <1>5, RingAssumption DEF Gives, Lesser
<1>7. WellFormed(b) /\ b.isEmpty = FALSE /\ b.size = rb.size
  BY <1>4 DEF FilledAt
<1>8. ~AwkwardIO => Contents(b) = Contents(rb) \o Fresh(m)
  <2> SUFFICES ASSUME ~AwkwardIO PROVE Contents(b) = Contents(rb) \o Fresh(m)
    OBVIOUS
  <2>1. at = rb.w \/ m = 0
    BY <1>1, <1>3, <1>6 DEF LoopInv
  <2>2. /\ Buffered(rb) \in Nat /\ Available(rb) \in Nat /\ Buffered(rb) > 0
        /\ Buffered(rb) + Available(rb) = rb.size
    BY <1>1, BufferedIs, Indices
  <2>3. m <= Available(rb) /\ m <= rb.size - rb.w
    <3>1. CASE m = 0
      BY <1>2, <2>2, <3>1
    <3>2. CASE m # 0
      <4>1. rb.w = 0 /\ rb.r # 0
        BY <1>1, <1>2, <1>3, <1>6, <2>1, <3>2
      <4>2. Available(rb) = rb.r
        BY <1>1, <1>2, <4>1 DEF Available
      <4> QED BY <1>2, <1>6, <4>1, <4>2
    <3> QED BY <3>1, <3>2
  <2>4. Buffered(rb) + m > 0
    BY <1>1, <2>2
  <2>5. Contents([Filled(rb, at, m) EXCEPT !.isEmpty = FALSE]) = Contents(rb) \o Fresh(m)
    BY <1>1, <2>1, <2>3, <2>4, FilledAppends
  <2>6. c = [Filled(rb, at, m) EXCEPT !.isEmpty = FALSE]
    BY <1>3
  <2> QED BY <1>4, <2>5, <2>6
<1> HIDE DEF b, c
<1>9. \/ rb' = b /\ phase' = "idle"
      \/ rb' = b /\ phase' = "second" /\ (b.w = 0 \/ left' = 0 \/ AwkwardIO)
      \/ rb' = MakeRoom(b) /\ rb'.size <= MaxSize /\ phase' = "first"
  BY <1>5
<1>10. b.size > 0 /\ b.size <= MaxSize /\ phase # "idle"
  BY <1>1, <1>7
<1>11. /\ RingInv' /\ (~AwkwardIO => LoopInv')
       /\ Contents(b) = Contents(rb) \o Fresh(m) => Fifo!Next
  BY <1>5, <1>6, <1>7, <1>9, <1>10, AfterRead
<1> QED BY <1>8, <1>11

-----------------------------------------------------------------------------
(* The invariant is inductive, and what follows from it.                   *)

\* The invariant holds of a new buffer ...
LEMMA InitRing == ASSUME Init PROVE RingInv /\ LoopInv /\ Fifo!Init
<1>1. PICK n \in 0..DefaultBufferSize : rb = New(n)
  BY DEF Init
<1>2. /\ WellFormed(rb) /\ Contents(rb) = <<>> /\ rb.size <= MaxSize
  <2>1. n \in Nat
    BY RingAssumption
  <2> QED BY <1>1, <2>1, NewIs, BoundAssumption
<1>3. Kinds
  <2>1. 0 \in 0 .. (NumBytes - 1) /\ 0 \in 0..MaxStream
    BY RingAssumption
  <2>2. <<>> \in Seq(Byte)
    OBVIOUS
  <2> QED BY <2>1, <2>2 DEF Init, Kinds
<1>4. RingInv /\ LoopInv
  BY <1>2, <1>3 DEF Init, RingInv, LoopInv, InLoop, PanicOnlyAtThreshold
<1>5. Fifo!Init
  BY <1>2 DEF Init, Fifo!Init
<1> QED BY <1>4, <1>5

\* ... and every step keeps it.
LEMMA NextRing ==
  ASSUME RingInv, ~AwkwardIO => LoopInv, [Next]_vars
  PROVE  RingInv' /\ (~AwkwardIO => LoopInv' /\ (Fifo!Next \/ UNCHANGED Fifo!vars))
<1>1. CASE Next
  <2>1. ASSUME NEW n \in 1..MaxChunk, Write(n) \/ Read(n)
        PROVE  RingInv' /\ LoopInv' /\ Fifo!Next
    BY <1>1, <2>1, WriteStep, ReadStep DEF Next
  <2>2. CASE WriteByte
    <3>1. CASE ~AwkwardIO
      BY <1>1, <2>2, <3>1, WriteByteStep DEF Next
    <3>2. CASE AwkwardIO
      <4>1. phase = "idle"
        BY <2>2 DEF WriteByte
      <4>2. LoopInv
        BY <4>1 DEF LoopInv
      <4> QED BY <1>1, <2>2, <3>2, <4>2, WriteByteStep DEF Next
    <3> QED BY <3>1, <3>2
  <2>3. CASE ReadByte
    BY <1>1, <2>3, ReadByteStep DEF Next
  <2>4. CASE ResetOp
    BY <1>1, <2>4, EmptyStep DEF Next, ResetOp
  <2>5. ASSUME NEW n \in 1..MaxSize, Discard(n) PROVE RingInv' /\ LoopInv' /\ Fifo!Next
    BY <1>1, <2>5, DiscardStep DEF Next
  <2>6. ASSUME NEW m \in 0..MaxSize, WriteTo(m)
        PROVE  RingInv' /\ LoopInv' /\ (~AwkwardIO => Fifo!Next)
    BY <1>1, <2>6, WriteToStep DEF Next
  <2>7. ASSUME NEW n \in 0..MaxStream, ReadFrom(n)
        PROVE  RingInv' /\ (~AwkwardIO => LoopInv') /\ Fifo!Next
    BY <1>1, <2>7, ReadFromStep DEF Next
  <2>8. ASSUME NEW m \in 0..MaxStream, NEW done \in BOOLEAN,
               ReadFirst(m, done) \/ ReadSecond(m, done)
        PROVE  RingInv' /\ (~AwkwardIO => LoopInv' /\ Fifo!Next)
    BY <1>1, <2>8, ReadFirstStep, ReadSecondStep DEF Next
  <2> QED BY <1>1, <2>1, <2>2, <2>3, <2>4, <2>5, <2>6, <2>7, <2>8 DEF Next
<1>2. CASE UNCHANGED vars
  <2>1. RingInv' = RingInv /\ LoopInv' = LoopInv
    BY <1>2 DEF vars, RingInv, LoopInv, Kinds, InLoop, PanicOnlyAtThreshold
  <2>2. UNCHANGED Fifo!vars
    BY <1>2 DEF vars, Fifo!vars
  <2> QED BY <2>1, <2>2
<1> QED BY <1>1, <1>2

\* LoopInv is claimed for Readers that fill their slice only.
LEMMA Invariance == Spec => [](RingInv /\ (~AwkwardIO => LoopInv))
<1>1. Init => RingInv /\ (~AwkwardIO => LoopInv)
  BY InitRing
<1>2. RingInv /\ (~AwkwardIO => LoopInv) /\ [Next]_vars
        => (RingInv /\ (~AwkwardIO => LoopInv))'
  BY NextRing
<1> QED BY <1>1, <1>2, PTL DEF Spec

\* Under every mix of the operations, with Readers and Writers that use all the freedom of
\* their interfaces, the indices lie in the slice and every field keeps its kind.
THEOREM TypeCorrect == Spec => []TypeOK
<1>1. RingInv => TypeOK
  <2> SUFFICES ASSUME RingInv PROVE TypeOK
    OBVIOUS
  <2>1. WellFormed(rb) /\ Kinds /\ rb.size <= MaxSize
    BY DEF RingInv
  <2>2. /\ rb.size \in Nat /\ rb.r \in 0..rb.size /\ rb.w \in 0..rb.size
        /\ rb.isEmpty \in BOOLEAN
        /\ rb.size > 0 => rb.r < rb.size /\ rb.w < rb.size
        /\ rb.buf \in [0 .. (rb.size - 1) -> Byte]
    BY <2>1, Indices
  <2>3. rb.size \in 0..MaxSize /\ next \in 0..NumBytes
    BY <2>1, <2>2, RingAssumption DEF Kinds
  <2>4. DOMAIN rb.buf = 0 .. (rb.size - 1) /\ \A i \in DOMAIN rb.buf : rb.buf[i] \in Byte
    BY <2>2
  <2> QED BY <2>1, <2>2, <2>3, <2>4 DEF TypeOK, Kinds
<1> QED BY <1>1, Invariance, PTL

\* Buffered, Available, Bytes and Peek tell the same of the buffer: the one's length is the
\* other's number, and Peek shows the prefix that Read would hand out.
THEOREM QueriesRight == Spec => []QueriesAgree
<1>1. RingInv => QueriesAgree
  <2> SUFFICES ASSUME RingInv PROVE QueriesAgree
    OBVIOUS
  <2>1. WellFormed(rb)
    BY DEF RingInv
  <2>2. Buffered(rb) = Len(Contents(rb)) /\ Buffered(rb) + Available(rb) = rb.size
    BY <2>1, ContentsIs, BufferedIs
  <2>3. ASSUME NEW n \in 1..MaxSize
        PROVE  Peek(rb, n) = SubSeq(Contents(rb), 1, Lesser(n, Buffered(rb)))
    <3>1. n \in Nat \ {0}
      OBVIOUS
    <3> QED BY <2>1, <3>1, PeekIs
  <2> QED BY <2>2, <2>3 DEF QueriesAgree
<1> QED BY <1>1, Invariance, PTL

\* ByteIsWritten is false; this says where.  WriteByte indexes beyond the slice only where
\* grow(1) makes no room: in a full buffer that has reached bufferGrowThreshold.
THEOREM PanicsAtThreshold == Spec => []PanicOnlyAtThreshold
<1>1. RingInv => PanicOnlyAtThreshold
  BY DEF RingInv
<1> QED BY <1>1, Invariance, PTL

\* With a Reader that fills the slice it is offered and a Writer that accepts something,
\* the ring is a first-in first-out queue of bytes through every wrap and growth: every
\* operation puts bytes behind Bytes(), hands out its prefix or drops it.
THEOREM IsFifo == ASSUME ~AwkwardIO PROVE Spec => ImplementsFifo
<1>1. Init => Fifo!Init
  BY InitRing
<1>2. RingInv /\ (~AwkwardIO => LoopInv) /\ [Next]_vars => [Fifo!Next]_(Fifo!vars)
  BY NextRing
<1> QED BY <1>1, <1>2, Invariance, PTL DEF Spec, ImplementsFifo, Fifo!Spec
=============================================================================
