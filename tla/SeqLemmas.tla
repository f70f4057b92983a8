------------------------------- MODULE SeqLemmas -------------------------------
(* Facts about queues held in sequences, cited by the proof modules. *)
EXTENDS Naturals, Sequences, SequenceTheorems, Functions, TLAPS

\* Putting an element at the end of a queue.
LEMMA Push ==
  ASSUME NEW S, NEW s \in Seq(S), NEW e \in S
  PROVE  /\ Append(s, e) \in Seq(S)
         /\ Len(Append(s, e)) = Len(s) + 1
         /\ \A i \in 1..Len(s) : Append(s, e)[i] = s[i]
         /\ Append(s, e)[Len(s) + 1] = e
OBVIOUS

\* Taking the element at the front of a queue.
LEMMA Pop ==
  ASSUME NEW S, NEW s \in Seq(S), s # <<>>
  PROVE  /\ Head(s) \in S /\ Head(s) = s[1]
         /\ Tail(s) \in Seq(S)
         /\ Len(s) \in Nat \ {0}
         /\ Len(Tail(s)) = Len(s) - 1
         /\ \A i \in 1..Len(Tail(s)) : Tail(s)[i] = s[i + 1]
BY HeadTailProperties

\* The elements of a queue.
LEMMA Elements ==
  ASSUME NEW S, NEW s \in Seq(S)
  PROVE  /\ Range(s) \subseteq S
         /\ \A x : x \in Range(s) <=> \E i \in 1..Len(s) : s[i] = x
BY DEF Range

\* Moving the front of one queue to the end of another does not change the
\* stream they form.
LEMMA MoveFront ==
  ASSUME NEW S, NEW s \in Seq(S), NEW t \in Seq(S), t # <<>>
  PROVE  Append(s, Head(t)) \o Tail(t) = s \o t
<1>1. Append(s, Head(t)) \o Tail(t) \in Seq(S) /\ s \o t \in Seq(S)
  BY Pop, Push, ConcatProperties
<1>2. Len(Append(s, Head(t)) \o Tail(t)) = Len(s \o t)
  BY Pop, Push, ConcatProperties
<1>3. ASSUME NEW i \in 1..Len(s \o t)
      PROVE  (Append(s, Head(t)) \o Tail(t))[i] = (s \o t)[i]
  BY Pop, Push, ConcatProperties
<1> QED BY <1>1, <1>2, <1>3, SeqEqual

\* Appending to the second of two queues appends to the stream they form.
LEMMA AppendToStream ==
  ASSUME NEW S, NEW s \in Seq(S), NEW t \in Seq(S), NEW e \in S
  PROVE  s \o Append(t, e) = Append(s \o t, e)
<1>1. s \o Append(t, e) \in Seq(S) /\ Append(s \o t, e) \in Seq(S)
  BY Push, ConcatProperties
<1>2. Len(s \o Append(t, e)) = Len(Append(s \o t, e))
  BY Push, ConcatProperties
<1>3. ASSUME NEW i \in 1..Len(s \o Append(t, e))
      PROVE  (s \o Append(t, e))[i] = Append(s \o t, e)[i]
  <2>1. CASE i \in 1..Len(s)
    BY <2>1, Push, ConcatProperties
  <2>2. CASE i \in (Len(s) + 1)..(Len(s) + Len(t))
    BY <2>2, Push, ConcatProperties
  <2>3. CASE i = Len(s) + Len(t) + 1
    BY <2>3, Push, ConcatProperties
  <2>4. Len(s) \in Nat /\ Len(t) \in Nat /\ Len(s \o Append(t, e)) = Len(s) + Len(t) + 1
    BY Push, ConcatProperties
  <2> QED BY <2>1, <2>2, <2>3, <2>4
<1> QED BY <1>1, <1>2, <1>3, SeqEqual
=============================================================================
