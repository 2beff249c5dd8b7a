------------------------------ MODULE Evidence ------------------------------
(***************************************************************************)
(* From a supervised attempt to the reuse decision of its receipt:         *)
(* build_receipt (cli/src/run.rs) takes the facts of the SupervisedExecution *)
(* that supervise_launcher returned, ExecutionReceipt::new                 *)
(* (core/src/receipt.rs) derives the eligibility, and the independent      *)
(* verifier derives it again.  The attempt is module Supervision; a result *)
(* exists only in its Accepted states.                                     *)
(***************************************************************************)
EXTENDS Supervision, Eligibility

\* ReceiptResources: an observation is kept with its events, or as incomplete
\* with none.  The attempt does not tell the memory and swap events apart.
ResourceEvents ==
    IF observation = "limited" THEN {"memory-max"} ELSE {}

\* Mutant: an incomplete resource observation does not spoil the structure.
ResourceStructureLax == "Valid"

ResourceStructure ==
    IF observation = "incomplete" THEN "Malformed" ELSE "Valid"

\* The facts ExecutionReceipt::new derives the eligibility from.
FactsOfAttempt ==
    [boundary  |-> boundary,
     outcome   |-> outcome,
     stdout    |-> capture["stdout"],
     stderr    |-> capture["stderr"],
     structure |-> ResourceStructure,
     events    |-> ResourceEvents]

-----------------------------------------------------------------------------
(* Properties. *)

\* A reusable receipt is about a clean run: child code ran inside the whole
\* boundary and in the fresh cgroup, ended by itself with code zero, wrote no
\* byte that was not captured, met no memory or swap limit, and left no
\* process behind (derive_receipt_eligibility on the result of
\* supervise_launcher).  Conversely the supervision itself costs no run its
\* reuse: a child that exits with zero before the deadline, whose streams
\* stayed within their limits and whose resource counters were read without
\* an event, gets a reusable receipt whatever else was interleaved with it.
ReusableIsCleanRun ==
    LET reusable == DeriveReceiptEligibility(FactsOfAttempt) = <<>> IN
    Accepted =>
        /\ reusable =>
              /\ ran /\ layers = Layers /\ placed /\ status = "zero"
              /\ kept = written /\ ~memoryEvent
              /\ ~Alive /\ forks = 0
        /\ (/\ status = "zero" /\ ~late /\ observation = "complete"
            /\ \A s \in Streams : written[s] <= OutputLimit[s])
              => reusable

=============================================================================
