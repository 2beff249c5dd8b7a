---------------------------- MODULE MCRunAttempt ----------------------------
(* Instances of RunAttempt for TLC: see MCRunAttempt*.cfg. *)
EXTENDS RunAttempt, TLC

Symmetry == Permutations(Runs)

\* One invocation while one artifact changes.
Drifting == {[invocations |-> 1, changes |-> 1, faults |-> FALSE]}

\* The same, and two invocations that share names on a host whose removals
\* may fail.
ContendedOrDrifting ==
    {[invocations |-> 2, changes |-> 0, faults |-> TRUE]} \union Drifting
=============================================================================
