----------------------------- MODULE MCReceipt -----------------------------
(* Instance of Receipt for TLC: see MCReceipt.cfg. *)
EXTENDS Receipt
=============================================================================
