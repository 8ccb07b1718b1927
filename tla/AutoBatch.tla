----------------------------- MODULE AutoBatch -----------------------------
(* AutoBatchExecutor (auto_batch.go, auto_batch_pipeline.go, auto_batch_kv.go *)
(* and auto_batch_kv_request.go): callers hand single commands to one loop    *)
(* goroutine, which collects them into batches and sends each batch as one    *)
(* pipeline of the underlying client.                                         *)
(*                                                                            *)
(* A request is one call: a command (Do, a typed key/value call or an         *)
(* explicit pipeline, whose commands stay together as one request) or a       *)
(* flush (flushPending).  An explicit pipeline follows its request by a flush *)
(* and ignores that flush's error, so it is two requests here.                *)
EXTENDS Integers, Sequences, FiniteSets, SequencesExt

CONSTANTS
    Commands,   \* calls that submit a command
    Flushes,    \* calls of flushPending
    QueueSize,  \* AutoBatchOptions.QueueSize
    MaxSize     \* AutoBatchOptions.MaxSize

Requests == Commands \cup Flushes
None == "none"

ASSUME AutoBatchConstants ==
    /\ IsFiniteSet(Requests)
    /\ Commands \cap Flushes = {}
    /\ None \notin Requests
    /\ QueueSize \in Nat \ {0}
    /\ MaxSize \in Nat \ {0}

VARIABLES
    \* shared
    slots,         \* tokens in e.queueSlots
    requests,      \* e.requests, the channel
    isClosed,      \* e.isClosed and e.closed, set together under submitMu
    slotFree,      \* the token of e.pipelineSlot
    running,       \* the pipelines that are executing, each the batch it carries
    closeErr,      \* e.closeErr # nil
    \* the callers
    pc,            \* "idle", "reserved", "waiting" or "returned"
    cancelled,     \* ctx.Done() of the call
    answers,       \* how many results were sent to the call's one-slot channel
    \* the loop goroutine
    loop,          \* "select", "filter", "slot", "wait", "drain", "quiesce" or "done"
    mode,          \* the flush under way is "regular", "drain" or the "final" one
    batch,
    active,        \* the requests of the batch that were not cancelled
    flushFor,      \* the flush request to answer after this flush, or None
    timerActive,
    result,        \* what the pipeline of this flush put into resultCh
    expired,       \* the context of the flush, or of the whole drain, is done
    terminal,      \* terminalErr # nil
    \* history
    accepted,      \* the requests in the order they entered the channel
    executed       \* the commands in the order pipelines were started

callers == <<pc, cancelled>>
flushing == <<mode, active, flushFor, timerActive, result, expired, terminal>>
vars == <<slots, requests, isClosed, slotFree, running, closeErr, callers, answers,
          loop, batch, flushing, accepted, executed>>

\* The admission tokens are conserved: those that are free, those of callers that
\* reserved one and have not sent yet and those of the requests in the channel add
\* up to the queue size.  Hence no send to e.requests (under submitMu) and no return
\* of a token by the loop can ever block (auto_batch_pipeline.go:114).
TypeOK ==
    /\ slots + Cardinality({r \in Requests : pc[r] = "reserved"}) + Len(requests) = QueueSize
    /\ slots \in 0..QueueSize
    /\ isClosed \in BOOLEAN /\ slotFree \in BOOLEAN /\ closeErr \in BOOLEAN
    /\ pc \in [Requests -> {"idle", "reserved", "waiting", "returned"}]
    /\ cancelled \in [Requests -> BOOLEAN]
    /\ answers \in [Requests -> Nat]
    /\ loop \in {"select", "filter", "slot", "wait", "drain", "quiesce", "done"}
    /\ mode \in {"regular", "drain", "final"}
    /\ Len(batch) <= MaxSize
    /\ flushFor \in Flushes \cup {None}
    /\ timerActive \in BOOLEAN /\ expired \in BOOLEAN /\ terminal \in BOOLEAN
    /\ result \in {"none", "ok", "err"}

Init ==
    /\ slots = QueueSize
    /\ requests = <<>>
    /\ isClosed = FALSE
    /\ slotFree = TRUE
    /\ running = {}
    /\ closeErr = FALSE
    /\ pc = [r \in Requests |-> "idle"]
    /\ cancelled = [r \in Requests |-> FALSE]
    /\ answers = [r \in Requests |-> 0]
    /\ loop = "select" /\ mode = "regular"
    /\ batch = <<>> /\ active = <<>>
    /\ flushFor = None
    /\ timerActive = FALSE
    /\ result = "none"
    /\ expired = FALSE /\ terminal = FALSE
    /\ accepted = <<>> /\ executed = <<>>

Answer(S) == answers' = [r \in Requests |-> IF r \in S THEN answers[r] + 1 ELSE answers[r]]

----------------------------------------------------------------------------
\* reserveQueueSlot takes a token unless the executor is closed; with the queue
\* full the caller waits for a token, its context or Close.
Reserve(r) ==
    /\ pc[r] = "idle"
    /\ \/ /\ ~isClosed /\ ~cancelled[r] /\ slots > 0
          /\ slots' = slots - 1
          /\ pc' = [pc EXCEPT ![r] = "reserved"]
       \/ /\ isClosed \/ cancelled[r]
          /\ pc' = [pc EXCEPT ![r] = "returned"]
          /\ UNCHANGED slots
    /\ UNCHANGED <<requests, isClosed, slotFree, running, closeErr, cancelled, answers,
                   loop, batch, flushing, accepted, executed>>

\* Mutant: the check of isClosed and the send are not one section of submitMu.
SendUnchecked(r) ==
    /\ pc[r] = "reserved"
    /\ requests' = Append(requests, r)
    /\ accepted' = Append(accepted, r)
    /\ pc' = [pc EXCEPT ![r] = "waiting"]
    /\ UNCHANGED <<slots, isClosed, slotFree, running, closeErr, cancelled, answers,
                   loop, batch, flushing, executed>>

\* sendReserved, under submitMu: with Close's section it decides whether the
\* loop's last drain sees the request.
Send(r) ==
    /\ pc[r] = "reserved"
    /\ IF isClosed
       THEN /\ slots' = slots + 1
            /\ pc' = [pc EXCEPT ![r] = "returned"]
            /\ UNCHANGED <<requests, accepted>>
       ELSE /\ requests' = Append(requests, r)
            /\ accepted' = Append(accepted, r)
            /\ pc' = [pc EXCEPT ![r] = "waiting"]
            /\ UNCHANGED slots
    /\ UNCHANGED <<isClosed, slotFree, running, closeErr, cancelled, answers,
                   loop, batch, flushing, executed>>

\* The arguments cannot be encoded: the token goes back.
EncodeFails(r) ==
    /\ pc[r] = "reserved" /\ r \in Commands
    /\ slots' = slots + 1
    /\ pc' = [pc EXCEPT ![r] = "returned"]
    /\ UNCHANGED <<requests, isClosed, slotFree, running, closeErr, cancelled, answers,
                   loop, batch, flushing, accepted, executed>>

Cancel(r) ==
    /\ pc[r] # "returned" /\ ~cancelled[r]
    /\ cancelled' = [cancelled EXCEPT ![r] = TRUE]
    /\ UNCHANGED <<slots, requests, isClosed, slotFree, running, closeErr, pc, answers,
                   loop, batch, flushing, accepted, executed>>

\* The caller gets its result, or leaves with its context's error.
Return(r) ==
    /\ pc[r] = "waiting"
    /\ answers[r] > 0 \/ cancelled[r]
    /\ pc' = [pc EXCEPT ![r] = "returned"]
    /\ UNCHANGED <<slots, requests, isClosed, slotFree, running, closeErr, cancelled, answers,
                   loop, batch, flushing, accepted, executed>>

Close ==
    /\ ~isClosed
    /\ isClosed' = TRUE
    /\ UNCHANGED <<slots, requests, slotFree, running, closeErr, callers, answers,
                   loop, batch, flushing, accepted, executed>>

----------------------------------------------------------------------------
\* Mutant: a flush request is answered before the batch it is to flush.
TakeAnswersFlush ==
    LET r == Head(requests) IN
    /\ loop \in {"select", "drain"}
    /\ requests # <<>>
    /\ requests' = Tail(requests)
    /\ slots' = slots + 1
    /\ IF (loop = "drain" /\ terminal) \/ r \in Flushes
       THEN Answer({r}) /\ UNCHANGED <<batch, loop, flushFor, mode, expired, timerActive>>
       ELSE /\ batch' = Append(batch, r)
            /\ timerActive' = (timerActive \/ (loop = "select" /\ batch = <<>>))
            /\ flushFor' = None
            /\ loop' = IF Len(batch') >= MaxSize THEN "filter" ELSE loop
            /\ mode' = IF loop = "drain" THEN "drain" ELSE "regular"
            /\ expired' = (loop = "drain" /\ expired)
            /\ UNCHANGED answers
    /\ UNCHANGED <<isClosed, slotFree, running, closeErr, callers, active, result, terminal,
                   accepted, executed>>

\* The loop receives a request, in its select or while it drains.  A flush of
\* an empty batch is answered at once; after a terminal error of the drain
\* everything is answered with that error.
Take ==
    LET r == Head(requests)
        draining == loop = "drain"
    IN
    /\ loop \in {"select", "drain"}
    /\ requests # <<>>
    /\ requests' = Tail(requests)
    /\ slots' = slots + 1
    /\ IF (draining /\ terminal) \/ (r \in Flushes /\ batch = <<>>)
       THEN Answer({r}) /\ UNCHANGED <<batch, loop, flushFor, mode, expired, timerActive>>
       ELSE /\ batch' = IF r \in Flushes THEN batch ELSE Append(batch, r)
            /\ timerActive' = (timerActive \/ (~draining /\ batch = <<>>))
            /\ flushFor' = IF r \in Flushes THEN r ELSE None
            /\ loop' = IF r \in Flushes \/ Len(batch') >= MaxSize THEN "filter" ELSE loop
            /\ mode' = IF draining THEN "drain" ELSE "regular"
            /\ expired' = (draining /\ expired)
            /\ UNCHANGED answers
    /\ UNCHANGED <<isClosed, slotFree, running, closeErr, callers, active, result, terminal,
                   accepted, executed>>

TimerFires ==
    /\ loop = "select" /\ batch # <<>>
    /\ timerActive
    /\ timerActive' = FALSE
    /\ loop' = "filter" /\ mode' = "regular" /\ flushFor' = None /\ expired' = FALSE
    /\ UNCHANGED <<slots, requests, isClosed, slotFree, running, closeErr, callers, answers,
                   batch, active, result, terminal, accepted, executed>>

\* The loop sees e.closed: drainAndFlush, with one context for all of it.
SeeClosed ==
    /\ loop = "select"
    /\ isClosed
    /\ loop' = "drain" /\ expired' = FALSE
    /\ UNCHANGED <<slots, requests, isClosed, slotFree, running, closeErr, callers, answers,
                   batch, mode, active, flushFor, timerActive, result, terminal, accepted, executed>>

\* The channel is empty: the last flush, or none after a terminal error.
DrainEmpty ==
    /\ loop = "drain"
    /\ requests = <<>>
    /\ IF terminal
       THEN /\ Answer(Range(batch))
            /\ batch' = <<>>
            /\ loop' = "quiesce"
            /\ UNCHANGED <<mode, flushFor>>
       ELSE /\ loop' = IF batch = <<>> THEN "quiesce" ELSE "filter"
            /\ mode' = "final" /\ flushFor' = None
            /\ UNCHANGED <<answers, batch>>
    /\ UNCHANGED <<slots, requests, isClosed, slotFree, running, closeErr, callers,
                   active, timerActive, result, expired, terminal, accepted, executed>>

\* The end of a flush: the batch is gone, Close learns of an error, the flush
\* request is answered, and an expired drain turns its error into the terminal one.
FlushEnds(S, failed) ==
    /\ Answer(S \cup (IF flushFor = None THEN {} ELSE {flushFor}))
    /\ batch' = <<>> /\ active' = <<>> /\ flushFor' = None /\ result' = "none"
    /\ closeErr' = (closeErr \/ (failed /\ isClosed))
    /\ terminal' = (terminal \/ (mode = "drain" /\ failed /\ expired))
    /\ loop' = IF mode = "regular" THEN "select" ELSE IF mode = "drain" THEN "drain" ELSE "quiesce"
    /\ mode' = "regular"
    /\ expired' = (mode # "regular" /\ expired)

\* The requests of b whose context is not done, in their order.
Live(b) ==
    LET kept[i \in 0..Len(b)] ==
            IF i = 0 THEN <<>>
            ELSE IF cancelled[b[i]] THEN kept[i - 1] ELSE Append(kept[i - 1], b[i])
    IN kept[Len(b)]

\* flush: requests whose context is done are answered and left out.
Filter ==
    LET live == Live(batch)
        dead == {r \in Range(batch) : cancelled[r]}
    IN
    /\ loop = "filter"
    /\ timerActive' = FALSE
    /\ IF live = <<>>
       THEN FlushEnds(dead, FALSE)
       ELSE /\ Answer(dead)
            /\ active' = live
            /\ loop' = "slot"
            /\ UNCHANGED <<batch, mode, flushFor, result, expired, closeErr, terminal>>
    /\ UNCHANGED <<slots, requests, isClosed, slotFree, running, callers, accepted, executed>>

\* Mutant: flush does not wait for the pipeline slot.
AcquireSlotAlways ==
    /\ loop = "slot"
    /\ slotFree' = FALSE
    /\ running' = running \cup {active}
    /\ executed' = executed \o active
    /\ loop' = "wait"
    /\ UNCHANGED <<answers, batch, active, flushFor, result, closeErr, terminal,
                   slots, requests, isClosed, callers, mode, timerActive, expired, accepted>>

\* Mutant: the wait for the slot watches neither the context nor Close.
AcquireSlotBlocking ==
    /\ loop = "slot"
    /\ slotFree
    /\ slotFree' = FALSE
    /\ running' = running \cup {active}
    /\ executed' = executed \o active
    /\ loop' = "wait"
    /\ UNCHANGED <<answers, batch, active, flushFor, result, closeErr, terminal,
                   slots, requests, isClosed, callers, mode, timerActive, expired, accepted>>

\* acquirePipelineSlot, then the goroutine that executes the pipeline; or the
\* flush's context ends, or the shutdown timer of a closed executor.
AcquireSlot ==
    /\ loop = "slot"
    /\ \/ /\ slotFree
          /\ slotFree' = FALSE
          /\ running' = running \cup {active}
          /\ executed' = executed \o active
          /\ loop' = "wait"
          /\ UNCHANGED <<answers, batch, mode, active, flushFor, result, expired, closeErr, terminal>>
       \/ /\ expired \/ isClosed
          /\ FlushEnds(Range(active), TRUE)
          /\ UNCHANGED <<slotFree, running, executed>>
    /\ UNCHANGED <<slots, requests, isClosed, callers, timerActive, accepted>>

\* The pipeline goroutine is done: it leaves its result in resultCh, whether or
\* not the flush still waits for it, and returns the slot.
PipelineEnds(b) ==
    /\ b \in running
    /\ running' = running \ {b}
    /\ slotFree' = TRUE
    /\ IF loop = "wait" /\ b = active
       THEN result' \in {"ok", "err"}
       ELSE UNCHANGED result
    /\ UNCHANGED <<slots, requests, isClosed, closeErr, callers, answers, loop, batch,
                   mode, active, flushFor, timerActive, expired, terminal, accepted, executed>>

\* flush gets the results, or gives up; the pipeline then runs on by itself.
WaitResult ==
    /\ loop = "wait"
    /\ \/ result # "none" /\ FlushEnds(Range(active), result = "err")
       \/ (expired \/ isClosed) /\ FlushEnds(Range(active), TRUE)
    /\ UNCHANGED <<slots, requests, isClosed, slotFree, running, callers, timerActive,
                   accepted, executed>>

\* waitForPipeline at the end of the drain; then the loop closes e.done.
Quiesce ==
    /\ loop = "quiesce"
    /\ \/ slotFree /\ UNCHANGED closeErr
       \/ expired /\ closeErr' = TRUE
    /\ loop' = "done"
    /\ UNCHANGED <<slots, requests, isClosed, slotFree, running, callers, answers, batch,
                   flushing, accepted, executed>>

\* FlushTimeout of a regular flush, ShutdownTimeout of a drain.
Expire ==
    /\ loop \in {"slot", "wait", "drain", "filter", "quiesce"}
    /\ ~expired
    /\ expired' = TRUE
    /\ UNCHANGED <<slots, requests, isClosed, slotFree, running, closeErr, callers, answers,
                   loop, batch, mode, active, flushFor, timerActive, result, terminal,
                   accepted, executed>>

LoopStep ==
    \/ Take \/ TimerFires \/ SeeClosed \/ DrainEmpty \/ Filter \/ AcquireSlot
    \/ WaitResult \/ Quiesce

Next ==
    \/ \E r \in Requests : Reserve(r) \/ Send(r) \/ EncodeFails(r) \/ Cancel(r) \/ Return(r)
    \/ Close
    \/ LoopStep
    \/ \E b \in running : PipelineEnds(b)
    \/ Expire

\* The loop and the callers run, and flush and shutdown timeouts expire.  The
\* select of the main loop picks among its ready cases at random, so a closed
\* executor is noticed however many requests are queued (finitely many are, the
\* tokens bound them).  A pipeline need not end.
Fairness ==
    /\ WF_vars(LoopStep) /\ WF_vars(Expire)
    /\ \A r \in Requests : WF_vars(Send(r)) /\ WF_vars(Return(r))

Spec == Init /\ [][Next]_vars /\ Fairness

----------------------------------------------------------------------------
Accepted == Range(accepted)

\* Every request that entered the channel is answered exactly once: never twice (a
\* second send to the one-slot channel would block the loop for ever), and none is
\* left behind when the loop has ended, whichever way a send raced with Close.
AcceptedAnswered ==
    /\ \A r \in Requests : answers[r] <= IF r \in Accepted THEN 1 ELSE 0
    /\ loop = "done" => \A r \in Accepted : answers[r] = 1

\* A flush is a barrier: when flushPending gets its answer, everything accepted
\* before it has been answered, through timeouts and through the drain on Close.
FlushIsBarrier ==
    \A i, j \in DOMAIN accepted :
        i < j /\ accepted[j] \in Flushes /\ answers[accepted[j]] = 1
            => answers[accepted[i]] = 1

\* Commands reach the client in the order they were accepted: one pipeline at a
\* time, even when a flush gave up on a pipeline that is still running, and no
\* pipeline starts a command ahead of one accepted earlier.
PipelinesInOrder ==
    /\ Cardinality(running) <= 1
    /\ \A i, j \in DOMAIN executed :
          i < j => \E k, m \in DOMAIN accepted :
                      k < m /\ accepted[k] = executed[i] /\ accepted[m] = executed[j]

\* When Close reports no error, nothing of this executor is still running on the
\* client below it, which its owner closes next (auto_batch.go:108-112).
CloseNilMeansQuiet == loop = "done" /\ ~closeErr => running = {} /\ slotFree

\* Both together: whoever waits for a flush or for Close has waited for what went
\* before, whether it was answered, timed out or still runs (auto_batch.go:108).
WaitingIsTrue == FlushIsBarrier /\ CloseNilMeansQuiet

\* Close returns, and every accepted request is answered, even when a pipeline
\* never ends.
CloseReturns == isClosed ~> loop = "done"
AcceptedServed == \A r \in Requests : pc[r] = "waiting" ~> answers[r] = 1
NobodyHangs == CloseReturns /\ AcceptedServed
============================================================================
