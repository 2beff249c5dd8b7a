---------------------------- MODULE Eligibility ----------------------------
(***************************************************************************)
(* Receipt reuse eligibility, as the producer derives it                   *)
(* (derive_receipt_eligibility, receipt/src/lib.rs) and as the independent *)
(* verifier derives it again (derive_eligibility, verify/src/derive.rs).   *)
(* Exit codes and signal numbers are reduced to what the two tell apart: a *)
(* zero code or not.  Reasons are named by their wire names.               *)
(***************************************************************************)
EXTENDS Sequences

Boundaries == {"Installed", "Incomplete"}
ExecutionOutcomes == {"Exited0", "ExitedNonzero", "Signaled", "TimedOut",
                      "Denied", "LauncherFailed", "Incomplete"}
StreamCaptures == {"Complete", "Truncated"}
ReceiptStructures == {"Valid", "Malformed"}

\* The terminal resource events, in the order of the receipt.
LimitEventOrder == <<"memory-high", "memory-max", "memory-oom",
    "memory-oom-kill", "memory-oom-group-kill", "swap-max", "swap-fail">>
LimitEvents == {"memory-high", "memory-max", "memory-oom",
    "memory-oom-kill", "memory-oom-group-kill", "swap-max", "swap-fail"}

\* ReceiptFacts and, on the verifier's side, EligibilityInput.
ReceiptFacts ==
    [boundary : Boundaries, outcome : ExecutionOutcomes,
     stdout : StreamCaptures, stderr : StreamCaptures,
     structure : ReceiptStructures, events : SUBSET LimitEvents]

NonReusableReasons ==
    {"boundary-incomplete", "exit-code-nonzero", "process-signaled",
     "timed-out", "denied", "launcher-failed", "execution-incomplete",
     "stdout-truncated", "stderr-truncated", "receipt-malformed"}
    \union LimitEvents

-----------------------------------------------------------------------------
(* The producer. *)

AppendReason(reasons, present, reason) ==
    IF present THEN Append(reasons, reason) ELSE reasons

AppendLimitEventReasons(reasons, events) ==
    LET r1 == AppendReason(reasons, "memory-high" \in events, "memory-high")
        r2 == AppendReason(r1, "memory-max" \in events, "memory-max")
        r3 == AppendReason(r2, "memory-oom" \in events, "memory-oom")
        r4 == AppendReason(r3, "memory-oom-kill" \in events, "memory-oom-kill")
        r5 == AppendReason(r4, "memory-oom-group-kill" \in events,
                           "memory-oom-group-kill")
        r6 == AppendReason(r5, "swap-max" \in events, "swap-max")
    IN  AppendReason(r6, "swap-fail" \in events, "swap-fail")

\* The reason of each outcome that is not a zero exit.
OutcomeReason(outcome) ==
    CASE outcome = "ExitedNonzero"  -> "exit-code-nonzero"
      [] outcome = "Signaled"       -> "process-signaled"
      [] outcome = "TimedOut"       -> "timed-out"
      [] outcome = "Denied"         -> "denied"
      [] outcome = "LauncherFailed" -> "launcher-failed"
      [] OTHER                      -> "execution-incomplete"

AppendOutcomeReason(reasons, outcome) ==
    AppendReason(reasons, outcome # "Exited0", OutcomeReason(outcome))

\* derive_receipt_eligibility: the empty sequence stands for Reusable.
DeriveReceiptEligibility(facts) ==
    LET r1 == AppendReason(<<>>, facts.boundary = "Incomplete",
                           "boundary-incomplete")
        r2 == AppendOutcomeReason(r1, facts.outcome)
        r3 == AppendReason(r2, facts.stdout = "Truncated", "stdout-truncated")
        r4 == AppendReason(r3, facts.stderr = "Truncated", "stderr-truncated")
        r5 == AppendReason(r4, facts.structure = "Malformed",
                           "receipt-malformed")
    IN  AppendLimitEventReasons(r5, facts.events)

-----------------------------------------------------------------------------
(* The verifier: the failures it pushes, in its own order. *)

Pushed(present, reason) == IF present THEN <<reason>> ELSE <<>>

LimitFailures(failures, events) ==
    failures
    \o Pushed("memory-high" \in events, "memory-high")
    \o Pushed("memory-max" \in events, "memory-max")
    \o Pushed("memory-oom" \in events, "memory-oom")
    \o Pushed("memory-oom-kill" \in events, "memory-oom-kill")
    \o Pushed("memory-oom-group-kill" \in events, "memory-oom-group-kill")
    \o Pushed("swap-max" \in events, "swap-max")
    \o Pushed("swap-fail" \in events, "swap-fail")

BoundaryFailures(boundary) ==
    CASE boundary = "Installed"  -> <<>>
      [] boundary = "Incomplete" -> <<"boundary-incomplete">>

OutcomeFailures(outcome) ==
    CASE outcome = "Exited0"        -> <<>>
      [] outcome = "ExitedNonzero"  -> <<"exit-code-nonzero">>
      [] outcome = "Signaled"       -> <<"process-signaled">>
      [] outcome = "TimedOut"       -> <<"timed-out">>
      [] outcome = "Denied"         -> <<"denied">>
      [] outcome = "LauncherFailed" -> <<"launcher-failed">>
      [] outcome = "Incomplete"     -> <<"execution-incomplete">>

DeriveEligibility(input) ==
    LimitFailures(
        BoundaryFailures(input.boundary)
        \o OutcomeFailures(input.outcome)
        \o Pushed(input.stdout = "Truncated", "stdout-truncated")
        \o Pushed(input.stderr = "Truncated", "stderr-truncated")
        \o Pushed(input.structure = "Malformed", "receipt-malformed"),
        input.events)

\* What specification 0001 calls reusable, independently of both derivations.
Reusable(facts) ==
    /\ facts.boundary = "Installed" /\ facts.outcome = "Exited0"
    /\ facts.stdout = "Complete" /\ facts.stderr = "Complete"
    /\ facts.structure = "Valid" /\ facts.events = {}

=============================================================================
