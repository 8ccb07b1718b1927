----------------------------- MODULE MCRequests -----------------------------
(* A request on its way through the native executor: the connection, the      *)
(* reader that assembles its answer, and the pipeline it may be part of.      *)
(* MCInit picks one of them and only that one takes steps; the others stay in *)
(* their initial states.                                                      *)
(*                                                                            *)
(* connection: a data request and a heartbeat over at most two connections:   *)
(* enough for every pair of roles, the request that fails a connection and    *)
(* the one in flight on it, the one that drains it and the one drained, the   *)
(* one that abandons an attempt and the one that starts the next.             *)
(* frames: two answers, one to a control request and one to a FLOW.QUERY, of  *)
(* up to four chunks, which together and alone exceed either bound.           *)
(* pipeline: up to four commands in frames of at most three bytes, so that a  *)
(* chunk may have to be split twice, and the fate of the first two requests.  *)
EXTENDS NativeConn, Frames

CONSTANTS MaxLength, Limits, FrameBytes, MaxSize, MaxFates      \* of the pipeline

VARIABLES
    component,
    input, output

P == INSTANCE NativePipeline

pipelineVars == <<input, output>>

MCInit ==
    /\ Init /\ FramesInit
    /\ component \in {"connection", "frames", "pipeline"}
    /\ IF component = "pipeline" THEN P!Init ELSE input = "idle" /\ output = "idle"

MCNext ==
    /\ UNCHANGED component
    /\ \/ component = "connection" /\ Next /\ UNCHANGED <<framesVars, pipelineVars>>
       \/ component = "frames" /\ FramesNext /\ UNCHANGED <<vars, pipelineVars>>
       \/ component = "pipeline" /\ P!Next /\ UNCHANGED <<vars, framesVars>>

MCSpec == MCInit /\ [][MCNext]_<<component, vars, framesVars, pipelineVars>>

-----------------------------------------------------------------------------
(* Properties, besides those of the connection and of the reader.             *)

\* NativePipeline!ResultsAreTrue: each command of a pipeline has a result, which says
\* what was done with it, however the pipeline was cut (native.go:354).
ResultsTrue == component = "pipeline" => P!ResultsAreTrue
=============================================================================
