------------------------------- MODULE Frames -------------------------------
(* The read loop of a native connection and its nativeResponseAssembler:      *)
(* native_frame.go, native_reader.go, native_pending.go.                      *)
(*                                                                            *)
(* The server answers requests in frames, cuts an answer into chunks as it    *)
(* likes and interleaves the chunks of several answers.  The assembler holds  *)
(* the chunks of unfinished answers under one bound on their bytes and one on *)
(* their frames.  It keeps them as they came at first, and in one growing     *)
(* buffer once there are many.  An error of the assembler ends the            *)
(* connection.                                                                *)
(*                                                                            *)
(* A body is a sequence of chunks, a chunk is its answer, its place in it and *)
(* its length.  The server keeps to the protocol: it answers what was asked,  *)
(* with the flags of the first chunk in the later ones.                       *)
(*                                                                            *)
(* No name of this module is one of NativeConn or Http, with which it is      *)
(* checked or proved about side by side.                                      *)
EXTENDS Integers, Sequences, FiniteSets

CONSTANTS
    Asked,       \* the requests of this connection
    ControlRequests,        \* those on lane 0; the others are on data lanes
    FlowQueries,    \* those that FLOW.QUERY sent: they decode in a mode of their own
    MaxBytes,       \* maxBytes of the response policy
    MaxFrames,      \* nativeMaxResponseChunkFrames
    MaxChunk,       \* bound on the length of a chunk
    MaxChunks       \* bound on the chunks of an answer

\* FLOW.QUERY is sent on a data lane.
ASSUME FramesConstants ==
    /\ ControlRequests \cap FlowQueries = {}
    /\ MaxBytes \in Nat \ {0} /\ MaxFrames \in Nat \ {0}
    /\ MaxChunk \in Nat /\ MaxChunks \in Nat

Modes == {"generic", "flowQuery"}
Chunk == [of : Asked, at : 1..MaxChunks, bytes : 0..MaxChunk]

VARIABLES
    waits,          \* e.pending: "waiting", "abandoned" (canceled, kept) or "gone"
    answered,       \* chunks the server has sent of each answer; last: it is whole
    chunks,         \* a.chunks, of the answers that have a state
    bufferedBytes,
    bufferedFrames,
    delivered,      \* the body that a request's channel has received
    link            \* "open", or why it was closed

framesVars == <<waits, answered, chunks, bufferedBytes, bufferedFrames, delivered, link>>

FramesInit ==
    /\ waits = [r \in Asked |-> "waiting"]
    /\ answered = [r \in Asked |-> [sent |-> <<>>, last |-> FALSE]]
    /\ chunks = [r \in {} |-> <<>>]
    /\ bufferedBytes = 0
    /\ bufferedFrames = 0
    /\ delivered = [r \in Asked |-> <<>>]
    /\ link = "open"

-----------------------------------------------------------------------------

\* The sum of the values of f, counted one by one.
Ones(f) == UNION {{x} \X (1..f[x]) : x \in DOMAIN f}
Total(f) == Cardinality(Ones(f))

Bytes(body) == Total([i \in DOMAIN body |-> body[i].bytes])

\* validateNativeWireFrameTuple: a canceled control request is forgotten, its
\* answer is decoded in the generic mode; one on a data lane is still there.
Known(r) == waits[r] # "gone" \/ r \in ControlRequests

\* Mutant: the mode of a cancelled request is forgotten with its caller.
ModeOfWaiting(r) == IF r \in FlowQueries /\ waits[r] = "waiting" THEN "flowQuery" ELSE "generic"

ModeOf(r) == IF r \in FlowQueries /\ waits[r] # "gone" THEN "flowQuery" ELSE "generic"

State(parts, cap, compacted, bytes, frames, mode) ==
    [parts |-> parts, cap |-> cap, compacted |-> compacted, bytes |-> bytes,
     frames |-> frames, mode |-> mode]
NewState(r) == State(<<>>, 0, FALSE, 0, 0, ModeOf(r))

\* Mutant: the chunks of a connection are collected under one key.
StateOfAny(r) ==
    IF DOMAIN chunks = {} THEN NewState(r) ELSE chunks[CHOOSE q \in DOMAIN chunks : TRUE]

StateOf(r) == IF r \in DOMAIN chunks THEN chunks[r] ELSE NewState(r)

\* What addWithDecodeMode finds wrong with a frame, in this order and before it
\* changes a count.
Fault(r, c) ==
    IF c.bytes > MaxBytes THEN "bytes"
    ELSE IF r \in DOMAIN chunks /\ chunks[r].mode # ModeOf(r) THEN "mode"
    ELSE IF c.bytes > MaxBytes - StateOf(r).bytes THEN "bytes"
    ELSE IF StateOf(r).frames >= MaxFrames THEN "frames"
    ELSE IF c.bytes > MaxBytes - bufferedBytes THEN "bytes"
    ELSE IF bufferedFrames >= MaxFrames THEN "frames"
    ELSE "none"

\* compactionThreshold and nativeResponseChunkState.compact
CompactionThreshold == IF MaxBytes \div 2 > 1 THEN MaxBytes \div 2 ELSE 1
CompactCap(bytes) == IF bytes <= MaxBytes \div 2 THEN 2 * bytes ELSE MaxBytes

\* appendNativeResponseChunk
GrownCap(cap, required) ==
    LET wanted == IF cap <= MaxBytes \div 2 THEN 2 * cap ELSE MaxBytes
        enough == IF wanted < required THEN required ELSE wanted
    IN IF required <= cap THEN cap ELSE IF enough > MaxBytes THEN MaxBytes ELSE enough

\* The state of an answer with one more chunk.
Held(s, c) ==
    LET bytes == s.bytes + c.bytes
        cap == IF s.compacted THEN GrownCap(s.cap, bytes)
               ELSE IF bytes >= CompactionThreshold THEN CompactCap(bytes) ELSE 0
    IN State(Append(s.parts, c), cap, s.compacted \/ bytes >= CompactionThreshold, bytes,
             s.frames + 1, s.mode)

\* The rest of readerLoop: the request is taken out of e.pending, and its
\* channel gets the response if it has not been abandoned.
HandOver(r, body) ==
    /\ delivered' = IF waits[r] = "waiting" THEN [delivered EXCEPT ![r] = body] ELSE delivered
    /\ waits' = [waits EXCEPT ![r] = "gone"]

\* closeConnAndFailPendingIfCurrent
FailAll(why) ==
    /\ link' = why
    /\ waits' = [r \in Asked |-> "gone"]
    /\ UNCHANGED <<chunks, bufferedBytes, bufferedFrames, delivered>>

\* One turn of readerLoop, with addWithDecodeMode.
ReadFrame(r, bytes, more) ==
    LET c == [of |-> r, at |-> Len(answered[r].sent) + 1, bytes |-> bytes]
        s == Held(StateOf(r), c)
    IN /\ link = "open"
       /\ ~ answered[r].last
       /\ Len(answered[r].sent) < MaxChunks
       /\ more => c.at < MaxChunks
       /\ answered' = [answered EXCEPT ![r] = [sent |-> Append(@.sent, c), last |-> ~ more]]
       /\ IF ~ Known(r) THEN FailAll("unknown")
          ELSE IF Fault(r, c) # "none" THEN FailAll(Fault(r, c))
          ELSE /\ UNCHANGED link
               /\ IF more
                  THEN /\ chunks' = [q \in DOMAIN chunks \cup {r} |->
                                       IF q = r THEN s ELSE chunks[q]]
                       /\ bufferedBytes' = bufferedBytes + bytes
                       /\ bufferedFrames' = bufferedFrames + 1
                       /\ UNCHANGED <<waits, delivered>>
                  ELSE /\ chunks' = [q \in DOMAIN chunks \ {r} |-> chunks[q]]
                       /\ bufferedBytes' = bufferedBytes - StateOf(r).bytes
                       /\ bufferedFrames' = bufferedFrames - StateOf(r).frames
                       /\ HandOver(r, s.parts)

\* The context of a request ends: abandonNativePending on a data lane, a
\* control request is removed at once.
CancelRequest(r) ==
    /\ link = "open"
    /\ waits[r] = "waiting"
    /\ waits' = [waits EXCEPT ![r] = IF r \in ControlRequests THEN "gone" ELSE "abandoned"]
    /\ UNCHANGED <<answered, chunks, bufferedBytes, bufferedFrames, delivered, link>>

FramesNext == \E r \in Asked :
    \/ \E bytes \in 0..MaxChunk, more \in BOOLEAN : ReadFrame(r, bytes, more)
    \/ CancelRequest(r)

FramesSpec == FramesInit /\ [][FramesNext]_framesVars

States == [parts : Seq(Chunk), cap : Nat, compacted : BOOLEAN, bytes : Nat, frames : Nat,
           mode : Modes]
FramesTypeOK ==
    /\ waits \in [Asked -> {"waiting", "abandoned", "gone"}]
    /\ answered \in [Asked -> [sent : Seq(Chunk), last : BOOLEAN]]
    /\ DOMAIN chunks \subseteq Asked /\ chunks \in [DOMAIN chunks -> States]
    /\ bufferedBytes \in 0..MaxBytes /\ bufferedFrames \in 0..MaxFrames
    /\ delivered \in [Asked -> Seq(Chunk)]
    /\ link \in {"open", "bytes", "frames", "mode", "unknown"}

-----------------------------------------------------------------------------
(* Properties.                                                                *)

\* What the assembler holds for unfinished answers: the chunks as they came, or
\* the buffer that replaced them.
Retained(r) == IF chunks[r].compacted THEN chunks[r].cap ELSE chunks[r].bytes

\* However answers interleave, are compacted and are canceled, a request
\* receives the chunks of its own answer, all of them and in order
\* (native_frame.go:84).
AnswersWhole ==
    \A r \in Asked : delivered[r] # <<>> =>
        answered[r].last /\ delivered[r] = answered[r].sent

\* The memory of unfinished answers never exceeds twice the bound, buffers that
\* were grown ahead included, and the counters that enforce the bound stay true
\* to what is held (native_frame.go:84).
RetainedBounded ==
    /\ bufferedBytes = Total([r \in DOMAIN chunks |-> chunks[r].bytes])
    /\ bufferedFrames = Total([r \in DOMAIN chunks |-> Len(chunks[r].parts)])
    /\ Total([r \in DOMAIN chunks |-> Retained(r)]) <= 2 * MaxBytes

\* The two.
AnswersAssembled == AnswersWhole /\ RetainedBounded

\* native_reader.go:111: the late answer to a canceled request is harmless.  A
\* server that keeps to the protocol loses the connection only over a bound that
\* the unfinished answers, the frame just read included, really exceed.
ClosedOverABound ==
    LET unfinished == {r \in Asked : \/ answered[r].sent # <<>> /\ ~ answered[r].last
                                     \/ answered'[r] # answered[r]}
        bytes == Total([r \in unfinished |-> Bytes(answered'[r].sent)])
        frames == Total([r \in unfinished |-> Len(answered'[r].sent)])
    IN link' # link => \/ link' = "bytes" /\ bytes > MaxBytes
                       \/ link' = "frames" /\ frames > MaxFrames
OnlyBoundsClose == [][ClosedOverABound]_framesVars
=============================================================================
