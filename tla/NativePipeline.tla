--------------------------- MODULE NativePipeline ---------------------------
(* A pipeline on one lane of a native executor: pipelineDetailedOnLane of     *)
(* native.go, and native_pipeline.go.                                         *)
(*                                                                            *)
(* The commands go out in chunks of at most maxCommands.  A chunk that does   *)
(* not fit a frame is split in two, as often as needed; one with a command    *)
(* that cannot be built is sent up to that command and goes on after it.  A   *)
(* chunk that fails ends the pipeline.                                        *)
(*                                                                            *)
(* A run of the algorithm is one step: its input is the pipeline and what     *)
(* becomes of each request, its output the result of each command and how     *)
(* often each may have been executed.                                         *)
EXTENDS Integers, Sequences

CONSTANTS
    MaxLength,      \* bound on the length of the pipeline
    Limits,         \* values of max_pipeline_commands; 0 if not offered
    FrameBytes,     \* the frame limit, in units of the sizes below
    MaxSize,        \* bound on the size of a command
    MaxFates        \* bound on the requests whose fate is an input

\* SET, GET, XADD and PUBLISH have a compact form for a chunk of their own kind
\* ("compact"); "bad" cannot be built.
Offered == [form : {"compact", "general"}, size : 1..MaxSize] \cup [form : {"bad"}, size : {0}]

\* What becomes of a request: answered; all busy and safe to retry; failed, when
\* the server may have executed it; or answered with something unexpected.
Fates == {"ok", "busy", "fail", "odd"}

VARIABLES input, output

vars == <<input, output>>

NoOutput == [results |-> <<>>, executed |-> <<>>]

Init ==
    /\ input \in [commands : UNION {[1..n -> Offered] : n \in 1..MaxLength}, limit : Limits,
                  fates : [1..MaxFates -> Fates]]
    /\ output = NoOutput

-----------------------------------------------------------------------------

\* The bytes of commands lo to hi.
Bytes(cmds, lo, hi) ==
    LET sum[i \in (lo - 1)..hi] == IF i < lo THEN 0 ELSE sum[i - 1] + cmds[i].size
    IN sum[hi]

First(lo, hi, P(_)) ==
    IF \E i \in lo..hi : P(i)
    THEN CHOOSE i \in lo..hi : P(i) /\ \A j \in lo..(i - 1) : ~ P(j)
    ELSE hi + 1

\* nativePipelinePayloadWithCapabilities: "send", "limit", or the command that
\* cannot be built.  The compact form looks at the commands in order, and gives
\* up at the first that is too much or that has no place in it.
Payload(cmds, lo, hi) ==
    LET stop == First(lo, hi, LAMBDA i : \/ cmds[i].form # "compact"
                                         \/ Bytes(cmds, lo, i) > FrameBytes)
        bad == First(lo, hi, LAMBDA i : cmds[i].form = "bad")
    IN IF cmds[lo].form = "compact" /\ stop > hi THEN [kind |-> "send"]
       ELSE IF cmds[lo].form = "compact" /\ cmds[stop].form = "compact" THEN [kind |-> "limit"]
       ELSE IF bad <= hi THEN [kind |-> "build", index |-> bad - lo]
       ELSE IF Bytes(cmds, lo, hi) > FrameBytes THEN [kind |-> "limit"]
       ELSE [kind |-> "send"]

\* The state of a run: requests made so far, executions of each command.
Sent(s, lo, hi) ==
    [n |-> s.n + 1,
     executed |-> [i \in DOMAIN s.executed |-> s.executed[i] + IF i \in lo..hi THEN 1 ELSE 0]]
NotSent(s) == [s EXCEPT !.n = @ + 1]

Fate(s) == IF s.n + 1 <= MaxFates THEN input.fates[s.n + 1] ELSE "ok"

\* The outcome of a chunk: the run after it, the results it got, and the error:
\* "none", "build" with an index, "chunk" with the number of commands it is
\* about, or "other".
Outcome(s, results, err) == [run |-> s, results |-> results, err |-> err]
NoError == [kind |-> "none"]
All(lo, hi, r) == [i \in 1..(hi - lo + 1) |-> r]
ChunkError(lo, hi) == [kind |-> "chunk", affected |-> hi - lo + 1]

\* A request that is sent once more when every answer says busy.
RequestOnce(s, lo, hi) ==
    CASE Fate(s) = "ok" -> Outcome(Sent(s, lo, hi), All(lo, hi, "ok"), NoError)
      [] Fate(s) = "fail" -> Outcome(Sent(s, lo, hi), <<>>, ChunkError(lo, hi))
      [] Fate(s) = "odd" -> Outcome(Sent(s, lo, hi), <<>>, [kind |-> "other"])
      [] Fate(s) = "busy" -> Outcome(NotSent(s), All(lo, hi, "busy"), NoError)
Request(s, lo, hi) ==
    IF Fate(s) = "busy" THEN RequestOnce(NotSent(s), lo, hi)
    ELSE RequestOnce(s, lo, hi)

\* pipelineChunkWithoutGate and splitOversizedPipelineChunk
RECURSIVE Chunk(_, _, _, _)
Chunk(cmds, s, lo, hi) ==
    LET p == Payload(cmds, lo, hi)
        middle == lo + (hi - lo + 1) \div 2
        left == Chunk(cmds, s, lo, middle - 1)
        right == Chunk(cmds, left.run, middle, hi)
    IN CASE p.kind = "send" -> Request(s, lo, hi)
         [] p.kind = "build" -> Outcome(s, <<>>, p)
         [] p.kind = "limit" /\ lo = hi -> Outcome(s, <<>>, ChunkError(lo, hi))
         [] p.kind = "limit" /\ lo < hi ->
              IF left.err # NoError THEN left
              ELSE [right EXCEPT !.results = left.results \o @]

\* Mutant: the error of a chunk is given to its first command only.
AffectedOne(err, rest) == 1

\* pipelineChunkAffectedCommands
Affected(err, rest) == IF err.kind = "chunk" /\ err.affected < rest THEN err.affected ELSE rest

\* The chunk of commands from start on has failed: what it got, the commands
\* the failure is about, and everything after them not executed.
Ended(results, start, end, o) ==
    LET from == start + Len(o.results)
        to == from + Affected(o.err, end - from + 1)
    IN [i \in DOMAIN results |-> IF i < start THEN results[i]
                                 ELSE IF i < from THEN o.results[i - start + 1]
                                 ELSE IF i < to THEN "failed" ELSE "notExecuted"]

Put(results, start, got) ==
    [i \in DOMAIN results |-> IF i \in start..(start + Len(got) - 1)
                              THEN got[i - start + 1] ELSE results[i]]

\* The loop of pipelineDetailedOnLane.
RECURSIVE Chunks(_, _, _, _)
Chunks(cmds, s, results, start) ==
    LET end == IF start + input.limit - 1 > Len(cmds) THEN Len(cmds) ELSE start + input.limit - 1
        o == Chunk(cmds, s, start, end)
        at == start + o.err.index
        prefix == Chunk(cmds, o.run, start, at - 1)
    IN IF start > Len(cmds) THEN [run |-> s, results |-> results]
       ELSE IF o.err = NoError THEN Chunks(cmds, o.run, Put(results, start, o.results), end + 1)
       ELSE IF o.err.kind # "build"
       THEN [run |-> o.run, results |-> Ended(results, start, end, o)]
       ELSE IF at = start
       THEN Chunks(cmds, o.run, [results EXCEPT ![at] = "notBuilt"], at + 1)
       ELSE IF prefix.err # NoError
       THEN [run |-> prefix.run, results |-> Ended(results, start, at - 1, prefix)]
       ELSE Chunks(cmds, prefix.run,
                   [Put(results, start, prefix.results) EXCEPT ![at] = "notBuilt"], at + 1)

\* pipelineSequentialWithoutGate: one request for each command.
RECURSIVE OneByOne(_, _, _, _)
OneByOne(cmds, s, results, i) ==
    IF i > Len(cmds) THEN [run |-> s, results |-> results]
    ELSE IF cmds[i].form = "bad" THEN OneByOne(cmds, s, [results EXCEPT ![i] = "notBuilt"], i + 1)
    ELSE LET o == RequestOnce(s, i, i)
             r == IF o.err = NoError THEN o.results[1] ELSE "failed"
         IN OneByOne(cmds, o.run, [results EXCEPT ![i] = r], i + 1)

Pipeline ==
    LET cmds == input.commands
        start == [n |-> 0, executed |-> [i \in DOMAIN cmds |-> 0]]
        none == [i \in DOMAIN cmds |-> "none"]
        o == IF input.limit = 0 THEN OneByOne(cmds, start, none, 1)
             ELSE Chunks(cmds, start, none, 1)
    IN /\ output = NoOutput
       /\ output' = [results |-> o.results, executed |-> o.run.executed]
       /\ UNCHANGED input

Next == Pipeline

Spec == Init /\ [][Next]_vars

TypeOK == output = NoOutput \/ DOMAIN output.results = DOMAIN input.commands

-----------------------------------------------------------------------------
(* Properties.                                                                *)

\* Every command of a pipeline has a result, and the result is true: success
\* means that one request has carried it, "not executed" and "not built" that
\* none has, and no command is sent twice, however the chunks were split and
\* whatever failed.  Pipelines that mix commands of a compact form with ones that
\* cannot be built are left to BuildErrorIsLocal, which they violate.
ResultsAreTrue ==
    \/ {"compact", "bad"} \subseteq {input.commands[i].form : i \in DOMAIN input.commands}
    \/ \A i \in DOMAIN output.results :
           /\ output.results[i] # "none"
           /\ output.results[i] = "ok" => output.executed[i] = 1
           /\ output.results[i] \in {"notExecuted", "notBuilt"} => output.executed[i] = 0
           /\ output.executed[i] <= 1

\* native_flow_control_test.go:217 and :220: the commands around one that cannot
\* be built succeed, each sent once, and the error is that command's.
BuildErrorIsLocal ==
    \A i \in DOMAIN output.results :
        /\ output.executed[i] <= 1
        /\ output.results[i] = "notBuilt" => input.commands[i].form = "bad"
=============================================================================
