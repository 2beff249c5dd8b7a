-------------------------- MODULE MCServiceSession --------------------------
(* An instance of ServiceSession for TLC: see MCServiceSession.cfg. *)
EXTENDS ServiceSession
=============================================================================
