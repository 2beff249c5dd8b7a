------------------------------- MODULE SdkRun -------------------------------
(***************************************************************************)
(* The run helper of the Python and TypeScript SDKs: it starts pbr, takes  *)
(* what pbr writes to its two pipes up to a bound, waits for its end and   *)
(* decodes the result line.  The helper, pbr and the pipes between them    *)
(* are separate actors: pbr waits when a pipe is full, the helper when     *)
(* both are empty.                                                         *)
(***************************************************************************)
EXTENDS Integers, FiniteSets, FiniteSetsExt, Sequences

CONSTANTS
    Outcomes, \* the outcomes of pbr run
    OtherCalls, \* calls with other arguments, or of another program
    Limit,    \* max_output_bytes
    PipeSize, \* what a pipe holds
    Chunk,    \* what one read takes at most
    NoAnswer

ASSUME SdkRunAssumption == Limit \in Nat \ {0} /\ PipeSize \in Nat \ {0}
                           /\ Chunk \in Nat \ {0}

VARIABLES
    call,     \* the call made
    child,    \* "unstarted", "running", "exited", "killed"
    wrote,    \* how many bytes the child wrote to each stream
    pipe,     \* the bytes in each pipe
    shut,     \* the streams the program closed before its end
    heirs,    \* the streams a descendant of the program holds open, silently
    got,      \* the bytes the helper took of each stream
    ended,    \* the streams the helper saw the end of
    answer    \* what the helper returned

writers == <<shut, heirs>>
sdkRunVars == <<call, child, wrote, pipe, writers, got, ended, answer>>

Streams == {"stdout", "stderr"}

-----------------------------------------------------------------------------
(* The result line. *)

Plain == {"timed-out", "denied", "launcher-failed", "incomplete"}

\* RunResultV2::new refuses an exit code that does not fit a byte.
Representable(outcome) == outcome.kind = "exited" => outcome.detail \in 0..255

\* json_projection: what pbr run prints.
JsonProjection(outcome) ==
    [shape |-> "object", text |-> "utf-8", keys |-> "exact", schema |-> "result/2",
     receipt |-> "path", commitment |-> "hex32", execution |-> "v4",
     outcome |-> [kind |-> outcome.kind, detail |-> outcome.detail,
                  number |-> "integer", keys |-> "exact"]]

\* decode_outcome of the Rust crate.
OutcomeDecoded(outcome) ==
    /\ outcome.keys = "exact"
    /\ \/ outcome.kind \in Plain
       \/ /\ outcome.kind = "exited" /\ outcome.number = "integer"
          /\ outcome.detail \in 0..255
       \/ /\ outcome.kind = "signaled" /\ outcome.number = "integer"
          /\ outcome.detail \in 1..255

\* RunResultProjection::from_json of the Rust crate.
RustDecodes(o) ==
    /\ o.shape = "object" /\ o.text = "utf-8"
    /\ o.keys = "exact" /\ o.schema = "result/2"
    /\ o.receipt = "path" /\ o.commitment = "hex32" /\ o.execution = "v4"
    /\ OutcomeDecoded(o.outcome)

\* _decode_outcome.
PythonOutcomeError(outcome) ==
    LET least == IF outcome.kind = "exited" THEN 0 ELSE 1 IN
    CASE outcome.kind \in {"exited", "signaled"} ->
            IF /\ outcome.keys = "exact" /\ outcome.number = "integer"
               /\ outcome.detail \in least..255
            THEN NoAnswer ELSE "field-invalid"
      [] outcome.kind \in Plain ->
            IF outcome.keys # "exact" THEN "unknown-field" ELSE NoAnswer
      [] OTHER -> "field-invalid"

\* parse_run_result.
PythonDecodeError(o) ==
    IF o.shape = "malformed" \/ o.text # "utf-8" THEN "malformed-json"
    ELSE IF o.shape # "object" \/ o.keys # "exact" THEN "unknown-field"
    ELSE IF o.schema # "result/2" THEN "schema-unsupported"
    ELSE IF o.receipt # "path" \/ o.commitment # "hex32" THEN "field-invalid"
    ELSE IF o.execution # "v4" THEN "field-invalid"
    ELSE PythonOutcomeError(o.outcome)

\* decodeOutcome: JSON.parse makes one number of 1 and 1.0.
TypeScriptOutcomeError(outcome) ==
    IF outcome.kind \notin Plain \union {"exited", "signaled"}
    THEN "field-invalid"
    ELSE IF outcome.keys # "exact" THEN "unknown-field"
    ELSE IF outcome.kind = "exited" /\ outcome.detail \notin 0..255
    THEN "field-invalid"
    ELSE IF outcome.kind = "signaled" /\ outcome.detail \notin 1..255
    THEN "field-invalid"
    ELSE NoAnswer

\* parseRunResult: toString replaces what is not UTF-8 in a text, and the
\* text is taken.
TypeScriptDecodeError(o) ==
    IF o.shape = "malformed" THEN "malformed-json"
    ELSE IF o.shape # "object" \/ o.keys # "exact" THEN "unknown-field"
    ELSE IF o.schema # "result/2" THEN "schema-unsupported"
    ELSE IF o.receipt # "path" \/ o.commitment # "hex32" THEN "field-invalid"
    ELSE IF o.execution # "v4" THEN "field-invalid"
    ELSE TypeScriptOutcomeError(o.outcome)

Malformed == [shape |-> "malformed", text |-> "utf-8"]

\* pbr run with an outcome: one line and status 0, or a diagnostic on stderr.
PbrRun(helper, outcome) ==
    [helper |-> helper, arguments |-> "valid", starts |-> TRUE,
     object |-> IF Representable(outcome) THEN JsonProjection(outcome) ELSE Malformed,
     stdout |-> IF Representable(outcome) THEN <<"text", "newline">> ELSE <<>>,
     stderr |-> IF Representable(outcome) THEN <<>> ELSE <<"text", "newline">>,
     status |-> IF Representable(outcome) THEN 0 ELSE 1]

-----------------------------------------------------------------------------
(* What the helper makes of a program that ended. *)

HelperError(code) == [ok |-> FALSE, code |-> code]

OneLine(bytes) ==
    /\ bytes # <<>> /\ bytes[Len(bytes)] = "newline"
    /\ \A i \in 1..(Len(bytes) - 1) : bytes[i] # "newline"

\* The text of the line is that of the object only when nothing is missing.
ObjectOf(bytes) == IF bytes = call.stdout THEN call.object ELSE Malformed

\* Mutant: the exit status is not looked at.
PythonJudgeAnyStatus(status, bytes) ==
    IF ~OneLine(bytes) THEN HelperError("not-one-line")
    ELSE IF PythonDecodeError(ObjectOf(bytes)) # NoAnswer
    THEN HelperError(PythonDecodeError(ObjectOf(bytes)))
    ELSE [ok |-> TRUE, outcome |-> ObjectOf(bytes).outcome]

\* The end of run, in Python.
PythonJudge(status, bytes) ==
    IF status # 0 THEN HelperError("failed")
    ELSE IF ~OneLine(bytes) THEN HelperError("not-one-line")
    ELSE IF PythonDecodeError(ObjectOf(bytes)) # NoAnswer
    THEN HelperError(PythonDecodeError(ObjectOf(bytes)))
    ELSE [ok |-> TRUE, outcome |-> ObjectOf(bytes).outcome]

\* What the "close" handler does, in TypeScript.
TypeScriptJudge(status, bytes) ==
    LET error == TypeScriptDecodeError(ObjectOf(bytes)) IN
    CASE status # 0 -> HelperError("failed")
      [] status = 0 /\ ~OneLine(bytes) -> HelperError("not-one-line")
      [] status = 0 /\ OneLine(bytes) /\ error # NoAnswer -> HelperError(error)
      [] OTHER -> [ok |-> TRUE, outcome |-> ObjectOf(bytes).outcome]

\* A signal is a negative status to Python and no status to Node.
ExitStatus == IF child = "exited" THEN call.status ELSE -9

-----------------------------------------------------------------------------
(* The program. *)

Output(stream) == IF stream = "stdout" THEN call.stdout ELSE call.stderr

ProgramWrites(stream) ==
    /\ child = "running" /\ wrote[stream] < Len(Output(stream))
    /\ Len(pipe[stream]) < PipeSize
    /\ wrote' = [wrote EXCEPT ![stream] = @ + 1]
    /\ pipe' = [pipe EXCEPT ![stream] =
                    Append(@, Output(stream)[wrote[stream] + 1])]
    /\ UNCHANGED <<call, writers, child, got, ended, answer>>

\* It closes a stream early, when it has written to it all it will.
ProgramCloses(stream) ==
    /\ child = "running" /\ wrote[stream] = Len(Output(stream))
    /\ stream \notin shut /\ shut' = shut \union {stream}
    /\ UNCHANGED <<call, child, wrote, pipe, heirs, got, ended, answer>>

\* Its descendants end, before or after it.
DescendantsEnd ==
    /\ heirs # {} /\ heirs' = {}
    /\ UNCHANGED <<call, child, wrote, pipe, shut, got, ended, answer>>

\* A stream is at its end once it is read and nobody can write to it.
DrainedOut(stream) ==
    /\ pipe[stream] = <<>> /\ stream \notin heirs
    /\ stream \in shut \/ child \in {"exited", "killed"}

ProgramExits ==
    /\ child = "running"
    /\ \A s \in Streams : wrote[s] = Len(Output(s))
    /\ child' = "exited"
    /\ UNCHANGED <<call, writers, wrote, pipe, got, ended, answer>>

\* Somebody else kills it.
ProgramIsKilled ==
    /\ child = "running"
    /\ child' = "killed"
    /\ UNCHANGED <<call, writers, wrote, pipe, got, ended, answer>>

-----------------------------------------------------------------------------
(* The helper. *)

SdkRunInit ==
    /\ call \in OtherCalls
               \union {PbrRun(h, o) : h \in {"python", "typescript"}, o \in Outcomes}
    /\ child = "unstarted"
    /\ wrote = [s \in Streams |-> 0] /\ pipe = [s \in Streams |-> <<>>]
    /\ shut = {} /\ heirs = {} /\ got = [s \in Streams |-> <<>>]
    /\ ended = {} /\ answer = NoAnswer

\* The program runs, with or without descendants that share its streams.
StartedWith == child' = "running" /\ heirs' \in SUBSET Streams

\* run in Python: the arguments are checked, then the program is started.
StartProgram ==
    /\ call.helper = "python" /\ answer = NoAnswer /\ child = "unstarted"
    /\ \/ call.arguments # "valid" /\ answer' = HelperError(call.arguments)
          /\ UNCHANGED <<child, heirs>>
       \/ call.arguments = "valid" /\ ~call.starts
          /\ answer' = HelperError("start-failed")
          /\ UNCHANGED <<child, heirs>>
       \/ call.arguments = "valid" /\ call.starts
          /\ StartedWith /\ UNCHANGED answer
    /\ UNCHANGED <<call, wrote, pipe, shut, got, ended>>

\* run in TypeScript: a program that does not start gives an "error" event.
StartTypeScript ==
    /\ call.helper = "typescript" /\ answer = NoAnswer /\ child = "unstarted"
    /\ IF call.arguments = "valid" /\ call.starts
       THEN StartedWith /\ UNCHANGED answer
       ELSE /\ answer' = HelperError(IF call.arguments = "valid"
                                     THEN "start-failed" ELSE call.arguments)
            /\ UNCHANGED <<child, heirs>>
    /\ UNCHANGED <<call, wrote, pipe, shut, got, ended>>

KillChild == child' = IF child = "running" THEN "killed" ELSE child

\* A read takes at most n bytes.
Taken(stream, n) == SubSeq(pipe[stream], 1, Min({Len(pipe[stream]), n}))

TakeStream(stream, bytes) ==
    /\ pipe' = [pipe EXCEPT ![stream] = SubSeq(@, Len(bytes) + 1, Len(@))]
    /\ got' = [got EXCEPT ![stream] = @ \o bytes]

\* Over the bound, the program is killed and the answer is given.
KeepBound(stream) ==
    IF Len(got'[stream]) > Limit
    THEN KillChild /\ answer' = HelperError("output-bound")
    ELSE UNCHANGED <<child, answer>>

\* Mutant: stderr is read once stdout is at its end.
CommunicateInTurn(stream) ==
    /\ call.helper = "python" /\ answer = NoAnswer /\ pipe[stream] # <<>>
    /\ stream = "stderr" => "stdout" \in ended
    /\ TakeStream(stream, Taken(stream, Min({Chunk, Limit + 1})))
    /\ KeepBound(stream)
    /\ UNCHANGED <<call, writers, wrote, ended>>

\* One pass of _bounded_communicate: it asks for at most one byte more than
\* the bound.
Communicate(stream) ==
    /\ call.helper = "python" /\ answer = NoAnswer /\ pipe[stream] # <<>>
    /\ TakeStream(stream, Taken(stream, Min({Chunk, Limit + 1})))
    /\ KeepBound(stream)
    /\ UNCHANGED <<call, writers, wrote, ended>>

StreamEnds(stream) ==
    /\ call.helper = "python" /\ answer = NoAnswer /\ stream \notin ended
    /\ DrainedOut(stream)
    /\ ended' = ended \union {stream}
    /\ UNCHANGED <<call, writers, child, wrote, pipe, got, answer>>

\* process.wait, which waits for a program that closed its streams early.
ProgramWaited ==
    /\ call.helper = "python" /\ answer = NoAnswer /\ ended = Streams
    /\ child \in {"exited", "killed"}
    /\ answer' = PythonJudge(ExitStatus, got["stdout"])
    /\ UNCHANGED <<call, writers, child, wrote, pipe, got, ended>>

\* A "data" event; once the promise is settled, data is dropped.
DataEvent(stream) ==
    /\ call.helper = "typescript" /\ child # "unstarted" /\ pipe[stream] # <<>>
    /\ IF answer = NoAnswer
       THEN TakeStream(stream, Taken(stream, Chunk)) /\ KeepBound(stream)
       ELSE /\ pipe' = [pipe EXCEPT ![stream] = <<>>]
            /\ UNCHANGED <<got, child, answer>>
    /\ UNCHANGED <<call, writers, wrote, ended>>

\* The "close" event comes after the end of the program and of its streams.
CloseEvent ==
    /\ call.helper = "typescript" /\ ended # Streams
    /\ child \in {"exited", "killed"} /\ \A s \in Streams : DrainedOut(s)
    /\ ended' = Streams
    /\ answer' = IF answer = NoAnswer
                 THEN TypeScriptJudge(ExitStatus, got["stdout"]) ELSE answer
    /\ UNCHANGED <<call, writers, child, wrote, pipe, got>>

\* What the helper, the program and its descendants do by themselves.  Closing
\* a stream early is a choice of the program that nobody may count on.
Proceed ==
    \/ StartProgram \/ StartTypeScript \/ ProgramExits \/ ProgramWaited \/ CloseEvent
    \/ DescendantsEnd
    \/ \E s \in Streams : \/ ProgramWrites(s) \/ Communicate(s)
                           \/ StreamEnds(s) \/ DataEvent(s)

SdkRunNext == \/ Proceed \/ ProgramIsKilled
              \/ \E s \in Streams : ProgramCloses(s)

SdkRunSpec == SdkRunInit /\ [][SdkRunNext]_sdkRunVars

-----------------------------------------------------------------------------
(* Properties. *)

\* What the helpers tell of pbr run.  A helper that has not answered never
\* stands still with the program and its descendants: one of them can go on,
\* whatever the program writes and wherever, and whichever stream it closes or
\* leaves to a descendant.  It answers with a result only when the program ended
\* by itself with status 0 and the result is that of the one line it printed,
\* nothing missing; with "output-bound" only when the program wrote more than
\* the bound; and it leaves no program running behind an answer.  A result
\* that pbr printed within the bound reaches the caller, and every SDK reads
\* it alike; what else the SDKs accept differs only in how a number is written
\* and in a text that is not UTF-8.
HelperIsTruthful ==
    /\ answer = NoAnswer => ENABLED Proceed
    /\ answer # NoAnswer =>
        /\ child # "running"
        /\ answer.ok =>
              /\ child = "exited" /\ call.status = 0
              /\ got["stdout"] = call.stdout /\ OneLine(call.stdout)
              /\ answer.outcome = call.object.outcome
        /\ answer = HelperError("output-bound") =>
              \E s \in Streams : wrote[s] > Limit
        /\ (/\ child = "exited" /\ call.status = 0 /\ OneLine(call.stdout)
            /\ \A s \in Streams : Len(Output(s)) <= Limit
            /\ RustDecodes(call.object)) => answer.ok
        /\ (\E o \in Outcomes : Representable(o) /\ call = PbrRun(call.helper, o)) =>
              RustDecodes(call.object)
        /\ RustDecodes(call.object) =>
              /\ PythonDecodeError(call.object) = NoAnswer
              /\ TypeScriptDecodeError(call.object) = NoAnswer
        /\ ~RustDecodes(call.object) =>
              /\ PythonDecodeError(call.object) # NoAnswer
              /\ \/ TypeScriptDecodeError(call.object) # NoAnswer
                 \/ call.object.text # "utf-8"
                 \/ call.object.outcome.number = "fraction"
=============================================================================
