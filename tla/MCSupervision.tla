--------------------------- MODULE MCSupervision ---------------------------
(***************************************************************************)
(* Instances of Supervision and of Evidence, which extends it, for TLC:    *)
(* see MCSupervision*.cfg.                                                 *)
(***************************************************************************)
EXTENDS Evidence

\* A limit that one byte reaches and a limit of no bytes at all.
MCOutputLimit == [s \in Streams |-> IF s = "stdout" THEN 1 ELSE 0]
=============================================================================
