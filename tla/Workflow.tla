------------------------------ MODULE Workflow ------------------------------
(* Workflow workers and durable steps: workflow.go, workflow_durable_step.go, *)
(* client_durable_step.go, worker_lifecycle.go and runConcurrent of queue.go. *)
(*                                                                            *)
(* A worker claims jobs state by state and runs a handler for each; a handler *)
(* may chain Advance and Step, each a STEP_CONTINUE that replaces the claim,  *)
(* and ends with an outcome or an error, which the worker turns into one more *)
(* mutation.  A task is the run of a handler for a job by a worker.           *)
(*                                                                            *)
(* The handler is the application's: it calls what it likes, ignores errors   *)
(* it gets and returns any outcome.  The server is external: it accepts a     *)
(* mutation only with the claim that is current for the job.  Mutations       *)
(* travel in net, where they may be lost, or arrive after the worker has      *)
(* given up on them or died.                                                  *)
EXTENDS Integers, FiniteSets

CONSTANTS
    Workers, Jobs,
    States,         \* Options.States: the states of the workflow, in order
    Steps,          \* names of durable steps
    Policies,       \* error policies in use: "retry", "fail", "return"
    BatchSize, Concurrency,
    Stoppable,      \* the workers that somebody may Stop
    MaxFence,       \* bound on the fencing tokens of a job
    MaxNet          \* bound on the mutations under way

ASSUME WorkflowConstants ==
    /\ IsFiniteSet(Workers) /\ IsFiniteSet(Jobs)
    /\ IsFiniteSet(DOMAIN States)
    /\ DOMAIN States = 1..Cardinality(DOMAIN States) /\ DOMAIN States # {}
    /\ Policies \subseteq {"retry", "fail", "return"}
    /\ BatchSize \in Nat \ {0} /\ Concurrency \in Nat \ {0}
    /\ Stoppable \subseteq Workers /\ MaxFence \in Nat /\ MaxNet \in Nat

StateNames == {States[i] : i \in DOMAIN States}
Tasks == Workers \X Jobs
NoStep == "none"    \* the name of a mutation that stores no step result

VARIABLES
    \* the server's record of each job
    status,     \* "ready", "running" or "terminal"
    runState,
    fence,      \* the fencing token, and with it the lease token
    expired,    \* the lease has run out
    values,     \* names of the steps whose result is stored
    net,        \* mutations sent and not yet processed
    \* the workers
    loop,       \* "top", "claim", "batch", "sleep" or "ended"
    at,         \* the index of the state RunOnce is at
    busy,       \* this RunOnce has claimed something
    failed,     \* firstErr # nil
    stopped,    \* the context of the worker is done
    \* the tasks
    pc,
    ctx,        \* the WorkflowContext
    req,        \* the mutation the task is about to send, or waits for
    answer,     \* "none", "ok" or "rejected": what has come back for it
    \* what happened
    commits,    \* how often the result of each step of each job was stored
    unknown     \* the claims on which the task sent a STEP_CONTINUE unanswered

server == <<status, runState, fence, expired, values, net>>
worker == <<loop, at, busy, failed, stopped>>
task == <<pc, ctx, req, answer, unknown>>
vars == <<server, worker, task, commits>>

PCs == {"none", "queued", "handler", "preflight", "closure", "commit", "commitWait",
        "outcomeWait", "done"}

\* fence and run are the claim of the context's job; applied holds the claims of
\* the AppliedOutcomes the handler has been given.
Contexts == [fence : 0..MaxFence, run : StateNames, applied : SUBSET (0..MaxFence),
             uncertain : BOOLEAN]
Context(f, run, applied, uncertain) ==
    [fence |-> f, run |-> run, applied |-> applied, uncertain |-> uncertain]
NoContext == Context(0, States[1], {}, FALSE)

\* A mutation: STEP_CONTINUE ("continue"), TRANSITION and RETRY (both "release"
\* the claim into a state), COMPLETE and FAIL (both "end").
Mutations == [job : Jobs, kind : {"continue", "release", "end"}, fence : 0..MaxFence,
              from : StateNames, to : StateNames, name : Steps \cup {NoStep}]
Request(t, kind, to, name) ==
    [job |-> t[2], kind |-> kind, fence |-> ctx[t].fence, from |-> ctx[t].run,
     to |-> to, name |-> name]
NoRequest == [kind |-> "none"]

TypeOK ==
    /\ status \in [Jobs -> {"ready", "running", "terminal"}]
    /\ runState \in [Jobs -> StateNames]
    /\ fence \in [Jobs -> 0..MaxFence]
    /\ expired \in [Jobs -> BOOLEAN]
    /\ values \in [Jobs -> SUBSET Steps]
    /\ net \subseteq Mutations
    /\ loop \in [Workers -> {"top", "claim", "batch", "sleep", "ended"}]
    /\ at \in [Workers -> DOMAIN States]
    /\ busy \in [Workers -> BOOLEAN] /\ failed \in [Workers -> BOOLEAN]
    /\ stopped \in [Workers -> BOOLEAN]
    /\ pc \in [Tasks -> PCs]
    /\ ctx \in [Tasks -> Contexts]
    /\ req \in [Tasks -> Mutations \cup {NoRequest}]
    /\ \A t \in Tasks : IF pc[t] \in {"preflight", "closure", "commit", "commitWait", "outcomeWait"}
                        THEN req[t] \in Mutations ELSE req[t] = NoRequest
    /\ answer \in [Tasks -> {"none", "ok", "rejected"}]
    /\ commits \in [Jobs -> [Steps -> Nat]]
    /\ unknown \in [Tasks -> SUBSET (0..MaxFence)]

\* Workflow.Start has created every job in the initial state.
Init ==
    /\ status = [j \in Jobs |-> "ready"]
    /\ runState = [j \in Jobs |-> States[1]]
    /\ fence = [j \in Jobs |-> 0]
    /\ expired = [j \in Jobs |-> FALSE]
    /\ values = [j \in Jobs |-> {}]
    /\ net = {}
    /\ loop = [w \in Workers |-> "top"]
    /\ at = [w \in Workers |-> 1]
    /\ busy = [w \in Workers |-> FALSE] /\ failed = [w \in Workers |-> FALSE]
    /\ stopped = [w \in Workers |-> FALSE]
    /\ pc = [t \in Tasks |-> "none"]
    /\ ctx = [t \in Tasks |-> NoContext]
    /\ req = [t \in Tasks |-> NoRequest]
    /\ answer = [t \in Tasks |-> "none"]
    /\ commits = [j \in Jobs |-> [s \in Steps |-> 0]]
    /\ unknown = [t \in Tasks |-> {}]

Goto(t, label) == pc' = [pc EXCEPT ![t] = label]
TasksOf(w) == {t \in Tasks : t[1] = w}

\* The call the handler made is over.
BackInHandler(t) ==
    /\ Goto(t, "handler")
    /\ req' = [req EXCEPT ![t] = NoRequest]
    /\ answer' = [answer EXCEPT ![t] = "none"]

\* The tasks in T are gone, with their contexts.
Forget(T) ==
    /\ ctx' = [t \in Tasks |-> IF t \in T THEN NoContext ELSE ctx[t]]
    /\ req' = [t \in Tasks |-> IF t \in T THEN NoRequest ELSE req[t]]
    /\ answer' = [t \in Tasks |-> IF t \in T THEN "none" ELSE answer[t]]
    /\ unknown' = [t \in Tasks |-> IF t \in T THEN {} ELSE unknown[t]]

----------------------------------------------------------------------------
\* The lifecycle of a worker: Start and RunForever around RunOnce.
GotoLoop(w, label) == loop' = [loop EXCEPT ![w] = label]

\* RunOnce returns, and its locals are gone.
Return(w, label) ==
    /\ GotoLoop(w, label)
    /\ at' = [at EXCEPT ![w] = 1]
    /\ busy' = [busy EXCEPT ![w] = FALSE]
    /\ failed' = [failed EXCEPT ![w] = FALSE]

Begin(w) ==
    /\ loop[w] = "top"
    /\ GotoLoop(w, IF stopped[w] THEN "ended" ELSE "claim")
    /\ UNCHANGED <<server, at, busy, failed, stopped, task, commits>>

\* RunOnce is done with a state: the next one, or the end of the round.  Start
\* sleeps after a round that has claimed nothing.
NextState(w, claimed) ==
    IF at[w] < Cardinality(DOMAIN States)
    THEN /\ GotoLoop(w, "claim")
         /\ at' = [at EXCEPT ![w] = @ + 1]
         /\ busy' = [busy EXCEPT ![w] = claimed]
         /\ UNCHANGED failed
    ELSE Return(w, IF claimed THEN "top" ELSE "sleep")

\* ClaimDue for the state at hand.  Each job gets a fresh claim.
Claimable(s) == {j \in Jobs : /\ runState[j] = s /\ fence[j] < MaxFence
                              /\ status[j] = "ready" \/ (status[j] = "running" /\ expired[j])}
Take(B) ==
    /\ status' = [j \in Jobs |-> IF j \in B THEN "running" ELSE status[j]]
    /\ fence' = [j \in Jobs |-> IF j \in B THEN fence[j] + 1 ELSE fence[j]]
    /\ expired' = [j \in Jobs |-> expired[j] /\ j \notin B]
    /\ UNCHANGED <<runState, values, net>>
Batches(s) == {B \in SUBSET Claimable(s) : Cardinality(B) <= BatchSize}

ClaimNone(w) ==
    /\ loop[w] = "claim" /\ ~stopped[w]
    /\ NextState(w, busy[w])
    /\ UNCHANGED <<server, stopped, task, commits>>

Claim(w) ==
    /\ loop[w] = "claim" /\ ~stopped[w]
    /\ \E B \in Batches(States[at[w]]) \ {{}} :
          LET mine == {w} \X B
          IN /\ Take(B)
             /\ pc' = [t \in Tasks |-> IF t \in mine THEN "queued" ELSE pc[t]]
             /\ ctx' = [t \in Tasks |-> IF t \in mine
                            THEN Context(fence[t[2]] + 1, runState[t[2]], {}, FALSE)
                            ELSE ctx[t]]
    /\ busy' = [busy EXCEPT ![w] = TRUE]
    /\ GotoLoop(w, "batch")
    /\ UNCHANGED <<at, failed, stopped, req, answer, commits, unknown>>

\* The claim fails, as it must when the context is done, or its answer is lost:
\* what it claimed waits for its lease to run out.  RunOnce returns the error and
\* the worker ends.
ClaimFails(w) ==
    /\ loop[w] = "claim"
    /\ \E B \in Batches(States[at[w]]) : Take(B)
    /\ Return(w, "ended")
    /\ UNCHANGED <<stopped, task, commits>>

\* Mutant: a handler that is through keeps its slot of the semaphore.
StartTaskKeepsSlot(t) ==
    /\ pc[t] = "queued"
    /\ Cardinality({u \in TasksOf(t[1]) : pc[u] \notin {"none", "queued"}}) < Concurrency
    /\ Goto(t, "handler")
    /\ UNCHANGED <<server, worker, ctx, req, answer, unknown, commits>>

\* runConcurrent starts the next handler.
StartTask(t) ==
    /\ pc[t] = "queued"
    /\ Cardinality({u \in TasksOf(t[1]) : pc[u] \notin {"none", "queued", "done"}}) < Concurrency
    /\ Goto(t, "handler")
    /\ UNCHANGED <<server, worker, ctx, req, answer, unknown, commits>>

\* All handlers of the batch are through; the first error ends RunOnce, and the
\* worker with it.
BatchDone(w) ==
    /\ loop[w] = "batch"
    /\ \A t \in TasksOf(w) : pc[t] \in {"none", "done"}
    /\ pc' = [t \in Tasks |-> IF t[1] = w THEN "none" ELSE pc[t]]
    /\ IF failed[w] THEN Return(w, "ended") ELSE NextState(w, TRUE)
    /\ UNCHANGED <<server, stopped, ctx, req, answer, unknown, commits>>

\* sleepOrDone.
Sleep(w) ==
    /\ loop[w] = "sleep"
    /\ GotoLoop(w, IF stopped[w] THEN "ended" ELSE "top")
    /\ UNCHANGED <<server, at, busy, failed, stopped, task, commits>>

\* Stop.
Stop(w) ==
    /\ w \in Stoppable /\ loop[w] # "ended" /\ ~stopped[w]
    /\ stopped' = [stopped EXCEPT ![w] = TRUE]
    /\ UNCHANGED <<server, loop, at, busy, failed, task, commits>>

\* The process dies at any point.
Crash(w) ==
    /\ loop[w] # "ended"
    /\ Return(w, "ended")
    /\ pc' = [t \in Tasks |-> IF t[1] = w THEN "none" ELSE pc[t]]
    /\ Forget(TasksOf(w))
    /\ UNCHANGED <<server, stopped, commits>>

----------------------------------------------------------------------------
\* The handler calls WorkflowContext.Advance or WorkflowContext.Step, which take
\* the claim from the context.
CallAdvance(t) ==
    /\ pc[t] = "handler"
    /\ \E s \in StateNames : req' = [req EXCEPT ![t] = Request(t, "continue", s, NoStep)]
    /\ Goto(t, "commit")
    /\ UNCHANGED <<server, worker, ctx, answer, unknown, commits>>

CallStep(t) ==
    /\ pc[t] = "handler"
    /\ \E s \in StateNames, n \in Steps :
          req' = [req EXCEPT ![t] = Request(t, "continue", s, n)]
    /\ Goto(t, "preflight")
    /\ UNCHANGED <<server, worker, ctx, answer, unknown, commits>>

\* A claim is good while it is the current one of a running job.
Current(j, f) == status[j] = "running" /\ fence[j] = f

\* ExtendLease, validated: the claim is good and the job in the expected state.
Extend(t) ==
    /\ Current(t[2], req[t].fence) /\ runState[t[2]] = req[t].from
    /\ expired' = [expired EXCEPT ![t[2]] = FALSE]

\* Mutant: the stored result is not looked for.
PreflightRuns(t) ==
    /\ pc[t] = "preflight"
    /\ Extend(t)
    /\ Goto(t, "closure")
    /\ UNCHANGED <<req, answer, ctx, status, runState, fence, values, net, worker, unknown, commits>>

\* Step renews the lease and looks for a stored result.  Without one the closure
\* is run.
Preflight(t) ==
    /\ pc[t] = "preflight"
    /\ Extend(t)
    /\ req[t].name \notin values[t[2]]
    /\ Goto(t, "closure")
    /\ UNCHANGED <<req, answer, ctx, status, runState, fence, values, net, worker, unknown, commits>>

\* A stored result is replayed if the job is in the target state, otherwise Step
\* fails: the claim stays as it is either way.
Replay(t) ==
    /\ pc[t] = "preflight"
    /\ Extend(t)
    /\ req[t].name \in values[t[2]]
    /\ BackInHandler(t)
    /\ UNCHANGED <<ctx, status, runState, fence, values, net, worker, unknown, commits>>

\* A request of the preflight fails, before or after the lease was renewed, the
\* caller's context is done, or the claim is no longer good.
PreflightFails(t) ==
    /\ pc[t] = "preflight"
    /\ Extend(t) \/ UNCHANGED expired
    /\ BackInHandler(t)
    /\ UNCHANGED <<ctx, status, runState, fence, values, net, worker, unknown, commits>>

\* The closure runs, for as long as it likes, and fails or has a result.
Closure(t) ==
    /\ pc[t] = "closure"
    /\ \/ Goto(t, "commit") /\ UNCHANGED <<req, answer>>
       \/ BackInHandler(t)
    /\ UNCHANGED <<server, worker, ctx, unknown, commits>>

\* advanceClaim sends STEP_CONTINUE.
SendCommit(t) ==
    /\ pc[t] = "commit" /\ Cardinality(net) < MaxNet
    /\ net' = net \cup {req[t]}
    /\ Goto(t, "commitWait")
    /\ UNCHANGED <<status, runState, fence, expired, values, worker, ctx, req, answer, unknown,
                   commits>>

\* A definite failure: the request was not sent, or the server rejected it.
CommitFails(t) ==
    /\ pc[t] = "commit" \/ (pc[t] = "commitWait" /\ answer[t] = "rejected")
    /\ BackInHandler(t)
    /\ UNCHANGED <<server, worker, ctx, unknown, commits>>

\* STEP_CONTINUE succeeded: adopt the refreshed claim.
CommitAnswered(t) ==
    /\ pc[t] = "commitWait"
    /\ answer[t] = "ok"
    /\ ctx' = [ctx EXCEPT ![t] = Context(req[t].fence + 1, req[t].to,
                                         @.applied \cup {req[t].fence + 1}, @.uncertain)]
    /\ BackInHandler(t)
    /\ UNCHANGED <<server, worker, unknown, commits>>

\* Mutant: the context does not remember that an outcome is unknown.
CommitUnansweredForgets(t) ==
    /\ pc[t] = "commitWait"
    /\ unknown' = [unknown EXCEPT ![t] = @ \cup {req[t].fence}]
    /\ BackInHandler(t)
    /\ UNCHANGED <<server, worker, ctx, commits>>

\* No usable answer: timeout, lost connection, undecodable response.  The
\* mutation may have been applied, or may yet be.
CommitUnanswered(t) ==
    /\ pc[t] = "commitWait"
    /\ ctx' = [ctx EXCEPT ![t] = Context(@.fence, @.run, @.applied, TRUE)]
    /\ unknown' = [unknown EXCEPT ![t] = @ \cup {req[t].fence}]
    /\ BackInHandler(t)
    /\ UNCHANGED <<server, worker, commits>>

----------------------------------------------------------------------------
\* The handler returns, and apply reads the context's job.
Done(t, ok) ==
    /\ Goto(t, "done")
    /\ Forget({t})
    /\ failed' = [failed EXCEPT ![t[1]] = @ \/ ~ok]

\* The worker sends a mutation with the claim of the context's job, or cannot:
\* its context is done, the options do not validate or there is no connection.
Fails(t) == Done(t, FALSE) /\ UNCHANGED server

Send(t, m) ==
    /\ ~stopped[t[1]] /\ Cardinality(net) < MaxNet
    /\ req' = [req EXCEPT ![t] = m]
    /\ net' = net \cup {m}
    /\ Goto(t, "outcomeWait")
    /\ UNCHANGED <<status, runState, fence, expired, values, failed, ctx, answer, unknown>>

Mutate(t, kind, to) == Fails(t) \/ Send(t, Request(t, kind, to, NoStep))

\* Uncertainty ends the task with an error, whatever the handler made of it.
ReturnUncertain(t) ==
    /\ pc[t] = "handler" /\ ctx[t].uncertain
    /\ Fails(t)
    /\ UNCHANGED <<loop, at, busy, stopped, commits>>

\* The handler returns an error or panics: the error policy applies.
ReturnError(t) ==
    /\ pc[t] = "handler" /\ ~ctx[t].uncertain
    /\ \/ "return" \in Policies /\ Fails(t)
       \/ "fail" \in Policies /\ Mutate(t, "end", ctx[t].run)
       \/ "retry" \in Policies /\ Mutate(t, "release", ctx[t].run)
    /\ UNCHANGED <<loop, at, busy, stopped, commits>>

\* A CompleteResult or FailResult; a TransitionResult or RetryResult.
ReturnOutcome(t) ==
    /\ pc[t] = "handler" /\ ~ctx[t].uncertain
    /\ \/ Mutate(t, "end", ctx[t].run)
       \/ \E s \in StateNames : Mutate(t, "release", s)
    /\ UNCHANGED <<loop, at, busy, stopped, commits>>

\* An AppliedOutcome the handler was given, or one it made up (0).  That of the
\* current claim releases the job into its run state; any other is an error, and
\* so is a missing or unknown outcome.
ReturnApplied(t) ==
    /\ pc[t] = "handler" /\ ~ctx[t].uncertain
    /\ \E f \in ctx[t].applied \cup {0} :
          IF f = ctx[t].fence THEN Mutate(t, "release", ctx[t].run) ELSE Fails(t)
    /\ UNCHANGED <<loop, at, busy, stopped, commits>>

\* The mutation's answer, or none: RunOnce counts the one and keeps the other as
\* its error.
OutcomeAnswered(t) ==
    /\ pc[t] = "outcomeWait"
    /\ answer[t] # "none"
    /\ Done(t, answer[t] = "ok")
    /\ UNCHANGED <<server, loop, at, busy, stopped, commits>>

OutcomeUnanswered(t) ==
    /\ pc[t] = "outcomeWait"
    /\ Done(t, FALSE)
    /\ UNCHANGED <<server, loop, at, busy, stopped, commits>>

----------------------------------------------------------------------------
\* The server processes a mutation and answers whoever still waits for it.
Reply(m, a) ==
    answer' = [t \in Tasks |-> IF pc[t] \in {"commitWait", "outcomeWait"} /\ req[t] = m
                                  /\ answer[t] = "none"
                               THEN a ELSE answer[t]]

Accept(m) ==
    /\ Current(m.job, m.fence)
    /\ m.kind = "continue" => m.from = runState[m.job] /\ m.fence < MaxFence
    /\ status' = [status EXCEPT ![m.job] =
                    IF m.kind = "continue" THEN "running"
                    ELSE IF m.kind = "release" THEN "ready" ELSE "terminal"]
    /\ runState' = [runState EXCEPT ![m.job] = m.to]
    /\ fence' = [fence EXCEPT ![m.job] = IF m.kind = "continue" THEN @ + 1 ELSE @]
    /\ expired' = [expired EXCEPT ![m.job] = FALSE]
    /\ values' = [values EXCEPT ![m.job] = @ \cup ({m.name} \ {NoStep})]
    /\ commits' = IF m.name = NoStep THEN commits
                  ELSE [commits EXCEPT ![m.job][m.name] = @ + 1]
    /\ net' = net \ {m}
    /\ Reply(m, "ok")
    /\ UNCHANGED <<worker, pc, ctx, req, unknown>>

Reject(m) ==
    /\ \/ ~Current(m.job, m.fence) \/ expired[m.job]
       \/ m.kind = "continue" /\ m.from # runState[m.job]
    /\ net' = net \ {m}
    /\ Reply(m, "rejected")
    /\ UNCHANGED <<status, runState, fence, expired, values, worker, pc, ctx, req, unknown, commits>>

Lose(m) ==
    /\ net' = net \ {m}
    /\ UNCHANGED <<status, runState, fence, expired, values, worker, task, commits>>

Expire(j) ==
    /\ status[j] = "running" /\ ~expired[j]
    /\ expired' = [expired EXCEPT ![j] = TRUE]
    /\ UNCHANGED <<status, runState, fence, values, net, worker, task, commits>>

----------------------------------------------------------------------------
LoopStep(w) ==
    Begin(w) \/ ClaimNone(w) \/ Claim(w) \/ ClaimFails(w) \/ BatchDone(w) \/ Sleep(w)
HandlerReturns(t) ==
    ReturnUncertain(t) \/ ReturnError(t) \/ ReturnOutcome(t) \/ ReturnApplied(t)
TaskStep(t) ==
    \/ StartTask(t) \/ Preflight(t) \/ Replay(t) \/ PreflightFails(t) \/ Closure(t)
    \/ SendCommit(t) \/ CommitFails(t) \/ CommitAnswered(t) \/ CommitUnanswered(t)
    \/ OutcomeAnswered(t) \/ OutcomeUnanswered(t)

Next ==
    \/ \E w \in Workers : LoopStep(w) \/ Stop(w) \/ Crash(w)
    \/ \E t \in Tasks : TaskStep(t) \/ HandlerReturns(t) \/ CallAdvance(t) \/ CallStep(t)
    \/ \E m \in net : Accept(m) \/ Reject(m) \/ Lose(m)
    \/ \E j \in Jobs : Expire(j)

\* Goroutines run, requests end within their timeout, answered or not, and a
\* handler returns in the end, however often it calls the context before.
Fairness ==
    /\ \A w \in Workers : WF_vars(LoopStep(w))
    /\ \A t \in Tasks : WF_vars(TaskStep(t)) /\ SF_vars(HandlerReturns(t))

Spec == Init /\ [][Next]_vars /\ Fairness

----------------------------------------------------------------------------
\* The result of a durable step is stored once, whatever handlers, lost answers,
\* late mutations, expired leases and crashes do: a second run of the closure
\* never replaces the result the first one left (client_durable_step.go:98-111).
StepCommittedOnce == \A j \in Jobs, s \in Steps : commits[j][s] <= 1

\* "A committed result is replayed without executing run again"
\* (client_durable_step.go:58): a worker whose claim is still good never runs the
\* closure of a step whose result is stored.  Only a worker that has lost its
\* claim since the preflight may.
ReplayNotRerun ==
    \A t \in Tasks :
        pc[t] = "closure" /\ req[t].name \in values[t[2]] => ~Current(t[2], req[t].fence)

\* The worker's own mutation, for an outcome or by error policy, goes out on the
\* latest claim the handler's durable operations obtained, and never on a claim
\* that a mutation of unknown fate may have used up, also when the handler
\* ignored the error (workflow.go:346-355).
OutcomeOnLatestClaim ==
    \A t \in Tasks : pc[t] = "outcomeWait" =>
        /\ req[t].fence \notin unknown[t]
        /\ \A f \in ctx[t].applied : f <= req[t].fence

\* After Stop the worker ends and Join returns, also from a claim, from within a
\* batch of handlers, or from sleep.
StopEnds == \A w \in Workers : stopped[w] ~> loop[w] = "ended"
=============================================================================
