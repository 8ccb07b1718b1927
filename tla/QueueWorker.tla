----------------------------- MODULE QueueWorker -----------------------------
(* Queue workers: RunOnce of queue.go and the loop of worker_lifecycle.go.     *)
(*                                                                             *)
(* RunOnce claims due jobs and runs their handlers, at most Concurrency at a   *)
(* time.  A success goes into a channel, from which the caller of RunOnce      *)
(* takes batches to complete; an error is answered by the error policy.  The   *)
(* server knows the latest claim of a job by its fencing token and refuses     *)
(* every other; the client itself refuses a batch of several jobs one of which *)
(* has no partition key, and sends nothing of it.                              *)
(*                                                                             *)
(* No name of this module is one of Workflow, so that the two kinds of workers *)
(* can be checked, and reasoned about, side by side.                           *)
EXTENDS Naturals, Sequences, FiniteSets

CONSTANTS
    Queuers,            \* the queue workers
    QueueJobs,
    QueuePolicies,      \* the values of ErrorPolicy: "retry", "fail" and "return"
    QueueBatchSize, QueueConcurrency,
    Stoppables,         \* the queue workers that somebody may Stop
    MaxClaims           \* bound on the claims of a job

ASSUME QueueConstants ==
    /\ IsFiniteSet(QueueJobs) /\ MaxClaims \in Nat
    /\ QueuePolicies \subseteq {"retry", "fail", "return"}
    /\ Stoppables \subseteq Queuers

VARIABLES
    policy,         \* WorkerOptions.ErrorPolicy
    keyless,        \* the jobs whose record has no partition key
    \* The server.
    jobs,           \* job -> [st, fence]
    \* A worker.
    runOnce,        \* worker -> "idle", "running", "completing", "stopped"
    claims,         \* worker -> job -> the fencing token of this run, or 0
    hs,             \* worker -> job -> the state of its handler
    succeeded,      \* worker -> the channel successfulJobs
    batch,          \* worker -> the batch being collected or completed
    counts,         \* worker -> [completed, retried, failed] of this run
    err,            \* worker -> an error has been recorded
    ended,          \* worker -> Stop has ended the context of its loop
    \* History.
    handled,        \* the claims whose handler has succeeded
    requests,       \* claim -> completions requested of the server
    refused         \* the claims in batches that were refused and not sent

queueVars == <<policy, keyless, jobs, runOnce, claims, hs, succeeded, batch, counts, err, ended,
               handled, requests, refused>>
given == <<policy, keyless>>

\* A claim is a job and its fencing token.
Claims == QueueJobs \X (1..MaxClaims)
Counts(completed, retried, failed) ==
    [completed |-> completed, retried |-> retried, failed |-> failed]
NoCounts == Counts(0, 0, 0)
Items(s) == {s[n] : n \in DOMAIN s}

QueueInit ==
    /\ policy \in QueuePolicies /\ keyless \in SUBSET QueueJobs
    /\ jobs = [j \in QueueJobs |-> [st |-> "due", fence |-> 0]]
    /\ runOnce = [w \in Queuers |-> "idle"]
    /\ claims = [w \in Queuers |-> [j \in QueueJobs |-> 0]]
    /\ hs = [w \in Queuers |-> [j \in QueueJobs |-> "none"]]
    /\ succeeded = [w \in Queuers |-> <<>>]
    /\ batch = [w \in Queuers |-> <<>>]
    /\ counts = [w \in Queuers |-> NoCounts]
    /\ err = [w \in Queuers |-> FALSE]
    /\ ended = [w \in Queuers |-> FALSE]
    /\ handled = {} /\ refused = {}
    /\ requests = [c \in Claims |-> 0]

-----------------------------------------------------------------------------
(* The server (external).                                                     *)

CurrentClaim(c) == jobs[c[1]].st = "claimed" /\ jobs[c[1]].fence = c[2]

\* The jobs of js become st, under the fencing tokens they have.
Become(js, st) ==
    [j \in QueueJobs |-> IF j \in js THEN [st |-> st, fence |-> jobs[j].fence] ELSE jobs[j]]

LeaseExpires(j) ==
    /\ jobs[j].st = "claimed"
    /\ jobs' = Become({j}, "due")
    /\ UNCHANGED <<given, runOnce, claims, hs, succeeded, batch, counts, err, handled,
                   requests, ended, refused>>

-----------------------------------------------------------------------------
(* RunOnce.                                                                   *)

Running(w) == runOnce[w] \in {"running", "completing"}

DueBatches == {js \in SUBSET {j \in QueueJobs : jobs[j].st = "due" /\ jobs[j].fence < MaxClaims} :
                Cardinality(js) \in 1..QueueBatchSize}
TakeDue(js) ==
    jobs' = [j \in QueueJobs |-> IF j \in js THEN [st |-> "claimed", fence |-> jobs[j].fence + 1]
                            ELSE jobs[j]]

\* ClaimDue.  A run starts with a new result.
ClaimDue(w) ==
    /\ runOnce[w] = "idle" /\ ~ended[w]
    /\ \E js \in DueBatches :
         /\ TakeDue(js)
         /\ claims' = [claims EXCEPT ![w] =
              [j \in QueueJobs |-> IF j \in js THEN jobs[j].fence + 1 ELSE 0]]
         /\ hs' = [hs EXCEPT ![w] = [j \in QueueJobs |-> IF j \in js THEN "new" ELSE "none"]]
    /\ runOnce' = [runOnce EXCEPT ![w] = "running"]
    /\ counts' = [counts EXCEPT ![w] = NoCounts]
    /\ err' = [err EXCEPT ![w] = FALSE]
    /\ UNCHANGED <<given, succeeded, batch, handled, requests, ended, refused>>

\* The claim fails, or its answer is lost and what it claimed must wait for its
\* lease to run out.  RunOnce returns the error, and Start with it.
ClaimDueFails(w) ==
    /\ runOnce[w] = "idle"
    /\ \E js \in DueBatches \cup {{}} : TakeDue(js)
    /\ runOnce' = [runOnce EXCEPT ![w] = "stopped"]
    /\ UNCHANGED <<given, claims, hs, succeeded, batch, counts, err, handled,
                   requests, ended, refused>>

InHandler(w) == {j \in QueueJobs : hs[w][j] \in {"run", "policy"}}

\* runConcurrent starts a handler when the semaphore has room.
StartHandler(w, j) ==
    /\ Running(w) /\ hs[w][j] = "new"
    /\ Cardinality(InHandler(w)) < QueueConcurrency
    /\ hs' = [hs EXCEPT ![w][j] = "run"]
    /\ UNCHANGED <<given, jobs, runOnce, claims, succeeded, batch, counts, err, handled,
                   requests, ended, refused>>

ClaimOf(w, j) == <<j, claims[w][j]>>

HandlerSucceeds(w, j) ==
    /\ hs[w][j] = "run"
    /\ hs' = [hs EXCEPT ![w][j] = "end"]
    /\ succeeded' = [succeeded EXCEPT ![w] = Append(@, ClaimOf(w, j))]
    /\ handled' = handled \cup {ClaimOf(w, j)}
    /\ UNCHANGED <<given, jobs, runOnce, claims, batch, counts, err,
                   requests, ended, refused>>

\* An error or a panic.
HandlerFails(w, j) ==
    /\ hs[w][j] = "run"
    /\ IF policy = "return"
       THEN hs' = [hs EXCEPT ![w][j] = "end"] /\ err' = [err EXCEPT ![w] = TRUE]
       ELSE hs' = [hs EXCEPT ![w][j] = "policy"] /\ UNCHANGED err
    /\ UNCHANGED <<given, jobs, runOnce, claims, succeeded, batch, counts, handled,
                   requests, ended, refused>>

\* Retry or Fail with the job's token: it is applied if the token is current;
\* the answer may be lost.
ApplyPolicy(w, j) ==
    /\ hs[w][j] = "policy"
    /\ hs' = [hs EXCEPT ![w][j] = "end"]
    /\ LET to == IF policy = "retry" THEN "due" ELSE "failed"
           n == counts[w]
           more == IF policy = "retry" THEN Counts(n.completed, n.retried + 1, n.failed)
                   ELSE Counts(n.completed, n.retried, n.failed + 1)
       IN \/ /\ CurrentClaim(ClaimOf(w, j)) /\ jobs' = Become({j}, to)
             /\ counts' = [counts EXCEPT ![w] = more] /\ UNCHANGED err
          \/ /\ jobs' = jobs \/ (CurrentClaim(ClaimOf(w, j)) /\ jobs' = Become({j}, to))
             /\ err' = [err EXCEPT ![w] = TRUE] /\ UNCHANGED counts
    /\ UNCHANGED <<given, runOnce, claims, succeeded, batch, handled,
                   requests, ended, refused>>

\* Mutant: the channel is closed once every handler has started.
ClosedEarly(w) == \A j \in QueueJobs : hs[w][j] # "new"

\* The channel is closed once every handler has ended.
Closed(w) == \A j \in QueueJobs : hs[w][j] \in {"none", "end"}

-----------------------------------------------------------------------------
(* The completion loop.                                                       *)

\* nextQueueCompletionBatch: wait for one success, then take more until the
\* batch is full, the window ends or the channel is closed.
Collect(w) ==
    /\ runOnce[w] = "running"
    /\ succeeded[w] # <<>> /\ Len(batch[w]) < QueueBatchSize
    /\ batch' = [batch EXCEPT ![w] = Append(@, Head(succeeded[w]))]
    /\ succeeded' = [succeeded EXCEPT ![w] = Tail(@)]
    /\ UNCHANGED <<given, jobs, runOnce, claims, hs, counts, err, handled,
                   requests, ended, refused>>

\* A single success goes out with Complete, which needs no partition key; several go
\* out with CompleteMany, as mixed items that must have one.
Sendable(b) == Len(b) = 1 \/ \A c \in Items(b) : c[1] \notin keyless

\* Complete or CompleteMany is sent.
SendBatch(w) ==
    /\ runOnce[w] = "running"
    /\ batch[w] # <<>> /\ Sendable(batch[w])
    /\ runOnce' = [runOnce EXCEPT ![w] = "completing"]
    /\ requests' = [c \in Claims |->
                      requests[c] + Cardinality({n \in DOMAIN batch[w] : batch[w][n] = c})]
    /\ UNCHANGED <<given, jobs, claims, hs, succeeded, batch, counts, err,
                   handled, ended, refused>>

\* CompleteMany returns an error before it sends anything: the whole batch is lost.
RefuseBatch(w) ==
    /\ runOnce[w] = "running"
    /\ batch[w] # <<>> /\ ~Sendable(batch[w])
    /\ err' = [err EXCEPT ![w] = TRUE]
    /\ batch' = [batch EXCEPT ![w] = <<>>]
    /\ refused' = refused \cup Items(batch[w])
    /\ UNCHANGED <<given, jobs, runOnce, claims, hs, succeeded, counts, ended, handled, requests>>

\* The server completes what is still claimed by these tokens, all of it if it
\* answers without an error.
Complete(w) ==
    /\ runOnce[w] = "completing"
    /\ LET sent == Items(batch[w])
       IN \/ /\ \A c \in sent : CurrentClaim(c)
             /\ jobs' = Become({c[1] : c \in sent}, "done")
             /\ counts' = [counts EXCEPT ![w] = Counts(counts[w].completed + Len(batch[w]),
                                                          counts[w].retried, counts[w].failed)]
             /\ UNCHANGED err
          \/ /\ \E some \in SUBSET {c \in sent : CurrentClaim(c)} :
                   jobs' = Become({c[1] : c \in some}, "done")
             /\ err' = [err EXCEPT ![w] = TRUE]
             /\ UNCHANGED counts
    /\ batch' = [batch EXCEPT ![w] = <<>>]
    /\ runOnce' = [runOnce EXCEPT ![w] = "running"]
    /\ UNCHANGED <<given, claims, hs, succeeded, handled, requests, ended, refused>>

\* The channel is closed and empty: RunOnce returns.  The loop of Start goes on,
\* unless there was an error or the context has ended.
ReturnRun(w) ==
    /\ runOnce[w] = "running"
    /\ Closed(w) /\ succeeded[w] = <<>> /\ batch[w] = <<>>
    /\ runOnce' = [runOnce EXCEPT ![w] = IF err[w] THEN "stopped" ELSE "idle"]
    /\ UNCHANGED <<given, jobs, claims, hs, succeeded, batch, counts, err, handled,
                   requests, ended, refused>>

\* Stop, at any time: the context of the loop, which is that of the handlers and of
\* their requests too, ends.
StopQueue(w) ==
    /\ w \in Stoppables /\ ~ended[w] /\ runOnce[w] # "stopped"
    /\ ended' = [ended EXCEPT ![w] = TRUE]
    /\ UNCHANGED <<given, jobs, runOnce, claims, hs, succeeded, batch, counts, err, handled,
                   requests, refused>>

\* Between two runs, or in its sleep, the loop sees that its context has ended.
LoopEnds(w) ==
    /\ runOnce[w] = "idle" /\ ended[w]
    /\ runOnce' = [runOnce EXCEPT ![w] = "stopped"]
    /\ UNCHANGED <<given, jobs, claims, hs, succeeded, batch, counts, err, handled,
                   requests, ended, refused>>

\* What the goroutines of a worker do next: the loop, RunOnce, and the handlers.
QueueStep(w) ==
    \/ ClaimDue(w) \/ ClaimDueFails(w) \/ Collect(w) \/ SendBatch(w) \/ RefuseBatch(w)
    \/ Complete(w) \/ ReturnRun(w) \/ LoopEnds(w)
    \/ \E j \in QueueJobs :
         StartHandler(w, j) \/ HandlerSucceeds(w, j) \/ HandlerFails(w, j) \/ ApplyPolicy(w, j)

QueueNext ==
    \/ \E j \in QueueJobs : LeaseExpires(j)
    \/ \E w \in Queuers : StopQueue(w) \/ QueueStep(w)

\* Goroutines run, requests end within their timeout, and handlers return.
QueueFairness == \A w \in Queuers : WF_queueVars(QueueStep(w))

QueueSpec == QueueInit /\ [][QueueNext]_queueVars /\ QueueFairness

QueueTypeOK ==
    /\ policy \in QueuePolicies /\ keyless \subseteq QueueJobs
    /\ jobs \in [QueueJobs -> [st : {"due", "claimed", "done", "failed"}, fence : 0..MaxClaims]]
    /\ runOnce \in [Queuers -> {"idle", "running", "completing", "stopped"}]
    /\ claims \in [Queuers -> [QueueJobs -> 0..MaxClaims]]
    /\ hs \in [Queuers -> [QueueJobs -> {"none", "new", "run", "policy", "end"}]]
    /\ succeeded \in [Queuers -> Seq(Claims)] /\ batch \in [Queuers -> Seq(Claims)]
    /\ counts \in [Queuers -> [completed : Nat, retried : Nat, failed : Nat]]
    /\ err \in [Queuers -> BOOLEAN] /\ ended \in [Queuers -> BOOLEAN]
    /\ handled \subseteq Claims /\ refused \subseteq Claims
    /\ requests \in [Claims -> Nat]

-----------------------------------------------------------------------------
(* Properties.                                                                *)

Mine(w) == {j \in QueueJobs : claims[w][j] # 0}

\* A run that has returned has requested the completion of each of its successes
\* once, in whatever batches the window cut them, and has left no handler
\* running: the channel is closed only after the last of them.  What it has not
\* requested was in a batch that the client refused, because one of its jobs has no
\* partition key, and then the run has returned an error.
SuccessesCompletedOnce ==
    \A w \in Queuers : runOnce[w] \in {"idle", "stopped"} =>
        /\ \A j \in QueueJobs : hs[w][j] \in {"none", "end"}
        /\ \A j \in Mine(w) :
             /\ requests[ClaimOf(w, j)] =
                  IF ClaimOf(w, j) \in handled \ refused THEN 1 ELSE 0
             /\ ClaimOf(w, j) \in refused => err[w] /\ Mine(w) \cap keyless # {}

\* A job is completed only by the claim under which its handler has succeeded,
\* although its lease may have passed to another worker in between.
DoneMeansHandled == \A j \in QueueJobs : jobs[j].st = "done" => <<j, jobs[j].fence>> \in handled

\* The result of a run counts what the server has done for it, and each claimed
\* job at most once.
CountsTrue ==
    \A w \in Queuers :
        /\ counts[w].completed + counts[w].retried + counts[w].failed <= Cardinality(Mine(w))
        /\ counts[w].completed <= Cardinality({j \in Mine(w) : /\ jobs[j].st = "done"
                                                               /\ jobs[j].fence = claims[w][j]})

\* The three: RunOnce requests the completion of each success once, in whatever
\* batches (queue.go:226), or reports the batch that could not be sent; a job is
\* completed only by the claim whose handler has succeeded, although its lease may
\* have passed on (queue.go:175); the counts are what the server has done.
SuccessesCompleted == SuccessesCompletedOnce /\ DoneMeansHandled /\ CountsTrue

\* Join returns after Stop, whether that comes in a run, between two or in the
\* sleep, and a run that was begun returns with or without it
\* (worker_lifecycle.go:71, queue.go:226).
StopJoins ==
    \A w \in Queuers : /\ ended[w] ~> runOnce[w] = "stopped"
                       /\ Running(w) ~> ~Running(w)
=============================================================================
