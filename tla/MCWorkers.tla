----------------------------- MODULE MCWorkers -----------------------------
(* The workers, and the values they and every other caller send and receive.  *)
(* MCInit picks one part and only that one takes steps; the others stay in    *)
(* their initial states.                                                      *)
(*                                                                            *)
(* workflow: two workers and one job of two states: one worker loses its      *)
(* claim while it runs the step or waits for its commit, the other takes the  *)
(* job over and meets what the first one left in the store or in the network. *)
(* queue: two workers, two jobs and two claims of each; any of the jobs may   *)
(* have no partition key.                                                     *)
(* convert: one value, payload or answer at a time, and what the codecs make  *)
(* of it.                                                                     *)
EXTENDS Workflow, QueueWorker, TLC

VARIABLES
    component,
    input,      \* of a conversion: <<>>, or [of, is]
    output      \* <<>>, or the sequence of the one result

MCStates == <<"charge", "ship">>

Texts == {<<0>>, <<6>>}
\* The items allowed are few for values, so that the limit is met, and enough for answers.
V == INSTANCE CodecConversions WITH MaxDepth <- 2, MaxItems <- 6, MaxPipeline <- 0
A == INSTANCE CodecConversions WITH MaxDepth <- 2, MaxItems <- 20, MaxPipeline <- 3

conversion == <<input, output>>

MCInit ==
    /\ component \in {"workflow", "queue", "convert"}
    /\ Init /\ QueueInit /\ input = <<>> /\ output = <<>>
    /\ component # "queue" => policy = "retry" /\ keyless = {}

-----------------------------------------------------------------------------
(* Conversions.                                                               *)

Input(kind, S) == \E x \in S : input' = [of |-> kind, is |-> x]
TakeInput ==
    /\ input = <<>>
    /\ \/ Input("value", V!Values)
       \/ Input("payload", V!Payloads)
       \/ Input("answer", A!Answers)
    /\ UNCHANGED output

Waiting(kind) == input # <<>> /\ output = <<>> /\ input.of = kind /\ UNCHANGED input
EncodeValue == Waiting("value") /\ output' = <<V!Encode(input.is, 1000)>>
WritePayload == Waiting("payload") /\ output' = <<V!Payload(input.is)>>
ReadAnswer == Waiting("answer") /\ output' = <<A!DecodeCompact(A!Put(input.is))>>

Convert ==
    \/ TakeInput \/ EncodeValue \/ WritePayload \/ ReadAnswer

MCNext ==
    /\ UNCHANGED component
    /\ \/ component = "workflow" /\ Next /\ UNCHANGED <<queueVars, conversion>>
       \/ component = "queue" /\ QueueNext /\ UNCHANGED <<vars, conversion>>
       \/ component = "convert" /\ Convert /\ UNCHANGED <<vars, queueVars>>

MCSpec == MCInit /\ [][MCNext]_<<component, vars, queueVars, conversion>>

Symmetry == Permutations(Workers) \cup Permutations(Queuers)

-----------------------------------------------------------------------------
(* Properties, besides those of the two kinds of workers.                     *)

Converted(kind) == output # <<>> /\ input.of = kind

\* CodecConversions: a value or a payload that can be written at all within the limits
\* on depth and items is read back, within the same limits, as the value that was meant,
\* and no prefix of it is (native_codec_wire.go, native_codec_decode.go:10); a payload
\* written without its map (native_codec_kv_wire.go, native_flow_query_request.go:123) is
\* the encoding of that map, and just as long as announced.  A compact answer, whose
\* layouts the reader finds out by trying, is never read as another
\* (native_compact_pipeline.go:254).
WireRoundTrips ==
    /\ Converted("value") /\ output[1].ok => V!ReadBack(input.is, output[1].bytes)
    /\ Converted("payload") =>
         /\ V!PayloadTrue(input.is, output[1])
         /\ output[1].ok => V!ReadBack(V!AsValue(input.is), output[1].bytes)
    /\ Converted("answer") => A!ReadAsMeant(input.is, output[1])
=============================================================================
