------------------------------ MODULE MCAcceptor ------------------------------
(* Model values for Acceptor.  No symmetry: the runs check liveness. *)
EXTENDS Acceptor
=============================================================================
