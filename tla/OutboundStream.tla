---------------------------- MODULE OutboundStream ----------------------------
(***************************************************************************)
(* What a session promises about outbound messages, without goroutines,    *)
(* queues or locks: messages are accepted one after the other, and the     *)
(* wire carries a subsequence of them, each under its position in the      *)
(* order of acceptance.  Delivery is at most once: an accepted message may *)
(* be left out (it does not encode, or the session is closed first).       *)
(***************************************************************************)
EXTENDS Naturals, Sequences

CONSTANT Message

VARIABLES
  accepted,  \* messages accepted so far, in order
  written,   \* frames on the wire: [seq, msg]
  cut,       \* the connection is gone: no frame can follow
  sealed     \* no message can be accepted any more

vars == <<accepted, written, cut, sealed>>

Init == accepted = <<>> /\ written = <<>> /\ cut = FALSE /\ sealed = FALSE

\* A message is accepted at most once, and also between Cut and Seal.
Accept(m) ==
  /\ ~sealed
  /\ \A i \in 1..Len(accepted) : accepted[i] # m
  /\ accepted' = Append(accepted, m)
  /\ UNCHANGED <<written, cut, sealed>>

Transmit(k) ==
  /\ ~cut
  /\ \A i \in 1..Len(written) : written[i].seq < k
  /\ written' = Append(written, [seq |-> k, msg |-> accepted[k]])
  /\ UNCHANGED <<accepted, cut, sealed>>

Cut == ~cut /\ cut' = TRUE /\ UNCHANGED <<accepted, written, sealed>>

Seal == cut /\ ~sealed /\ sealed' = TRUE /\ UNCHANGED <<accepted, written, cut>>

Next == \/ \E m \in Message : Accept(m)
        \/ \E k \in 1..Len(accepted) : Transmit(k)
        \/ Cut \/ Seal

Spec == Init /\ [][Next]_vars
=============================================================================
