------------------------- MODULE MCDiagnosticTrace --------------------------
(* Instances of DiagnosticTrace for TLC: see MCDiagnosticTrace*.cfg. *)
EXTENDS DiagnosticTrace

\* One process with few events, and two processes: room for a tree whose
\* drain has to take up to four.
MCBounds ==
    {[processes |-> 1, events |-> 1, perProcess |-> 1],
     [processes |-> 2, events |-> 4, perProcess |-> 3]}
=============================================================================
