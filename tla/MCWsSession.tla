----------------------------- MODULE MCWsSession -----------------------------
(* Model values for WsSession: user goroutines are interchangeable. *)
EXTENDS WsSession, FiniteSets, TLC

CallerSymmetry == Permutations(Callers)

\* Two senders at a time: where the peer sends, so that OnMessage may call Send, at most
\* one of the user goroutines does.  This takes only calls of the users and frames of the
\* peer away, which nothing obliges them to make.
TwoSenders == peerSent = <<>> \/ Cardinality({c \in Callers : sends[c] > 0}) <= 1

MCOutboundSpec == Init /\ [][Next /\ TwoSenders']_vars
=============================================================================
