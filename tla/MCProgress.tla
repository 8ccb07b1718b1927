----------------------------- MODULE MCProgress -----------------------------
(* Four parts where goroutines wait for each other, and everything in them    *)
(* that must come to an end: a workflow worker and a queue worker that        *)
(* somebody stops, the session gate, and the calls and Close of a topology    *)
(* executor.  MCInit picks one of them and only that one takes steps.         *)
(*                                                                            *)
(* worker: one worker, two jobs, one of which waits for the other's slot.     *)
(* queue: the same, with a queue worker that completes its jobs in batches.   *)
(* gate: three goroutines, each a request or a transaction; when not picked,  *)
(* the gate stays in its initial state.                                       *)
(* topology: one caller, the event loop and two refresh flights; the layout   *)
(* moves the caller's key from one endpoint to the other.                     *)
EXTENDS SessionGate

CONSTANTS
    goroutine,                             \* one of the gate's
    Workers, Jobs, States, Steps, Policies, BatchSize, Concurrency, Stoppable, MaxFence, MaxNet,
    queuer,                                \* the queue worker
    caller, loopProc, nodeA, nodeB         \* of the topology executor, and its endpoints

VARIABLES
    component,
    \* the worker
    status, runState, fence, expired, values, net, loop, at, busy, failed, stopped, taskPc, ctx,
    req, answer, commits, unknown,
    \* the queue worker
    policy, keyless, jobs, runOnce, claims, hs, successes, batch, counts, err, stopAsked,
    succeededOnce, requests, refused,
    \* the topology executor
    serverEpoch, closed, topology, version, lastSuccessful, adapters, retiringAdapters,
    adapterState, closePc, toClose, refreshInFlight, waiters, abandoned, succeeded, fetched,
    dropped, signal, announced, handled, procPc, snap, target, held, cands, awaits, why, tries,
    refreshed, attempt, ended, calls, applied

MCStates == <<"charge">>

W == INSTANCE Workflow WITH pc <- taskPc
Q == INSTANCE QueueWorker WITH
        Queuers <- {queuer}, QueueJobs <- Jobs, QueuePolicies <- {"retry", "fail", "return"},
        QueueBatchSize <- BatchSize, QueueConcurrency <- Concurrency, Stoppables <- {queuer},
        MaxClaims <- MaxFence, succeeded <- successes, ended <- stopAsked, handled <- succeededOnce
T == INSTANCE Topology WITH
        Callers <- {caller}, ReplayNever <- {}, Flights <- {1, 2}, EventLoop <- loopProc,
        Endpoints <- {nodeA, nodeB}, Seeds <- {nodeA}, Adapters <- 1..4,
        Layout <- << [x \in {caller} |-> nodeB], [x \in {caller} |-> nodeA] >>,
        MaxPlanning <- 1, MaxCalls <- 1, pc <- procPc, cancelled <- ended

ofWorker ==
    <<status, runState, fence, expired, values, net, loop, at, busy, failed, stopped, taskPc, ctx,
      req, answer, commits, unknown>>
ofQueue ==
    <<policy, keyless, jobs, runOnce, claims, hs, successes, batch, counts, err, stopAsked,
      succeededOnce, requests, refused>>
ofTopology ==
    <<serverEpoch, closed, topology, version, lastSuccessful, adapters, retiringAdapters,
      adapterState, closePc, toClose, refreshInFlight, waiters, abandoned, succeeded, fetched,
      dropped, signal, announced, handled, procPc, snap, target, held, cands, awaits, why, tries,
      refreshed, attempt, ended, calls, applied>>

\* A part that was not picked.
NoWorker ==
    /\ status = "idle" /\ runState = "idle" /\ fence = "idle" /\ expired = "idle"
    /\ values = "idle" /\ net = "idle" /\ loop = "idle" /\ at = "idle" /\ busy = "idle"
    /\ failed = "idle" /\ stopped = "idle" /\ taskPc = "idle" /\ ctx = "idle" /\ req = "idle"
    /\ answer = "idle" /\ commits = "idle" /\ unknown = "idle"
NoQueue ==
    /\ policy = "idle" /\ keyless = "idle" /\ jobs = "idle" /\ runOnce = "idle"
    /\ claims = "idle" /\ hs = "idle" /\ successes = "idle" /\ batch = "idle"
    /\ counts = "idle" /\ err = "idle" /\ stopAsked = "idle" /\ succeededOnce = "idle"
    /\ requests = "idle" /\ refused = "idle"
NoTopology ==
    /\ serverEpoch = "idle" /\ closed = "idle" /\ topology = "idle" /\ version = "idle"
    /\ lastSuccessful = "idle" /\ adapters = "idle" /\ retiringAdapters = "idle"
    /\ adapterState = "idle" /\ closePc = "idle" /\ toClose = "idle"
    /\ refreshInFlight = "idle" /\ waiters = "idle" /\ abandoned = "idle"
    /\ succeeded = "idle" /\ fetched = "idle" /\ dropped = "idle" /\ signal = "idle"
    /\ announced = "idle" /\ handled = "idle" /\ procPc = "idle" /\ snap = "idle"
    /\ target = "idle" /\ held = "idle" /\ cands = "idle" /\ awaits = "idle" /\ why = "idle"
    /\ tries = "idle" /\ refreshed = "idle" /\ attempt = "idle" /\ ended = "idle"
    /\ calls = "idle" /\ applied = "idle"

MCInit ==
    /\ Init
    /\ component \in {"gate", "worker", "queue", "topology"}
    /\ IF component = "worker" THEN W!Init ELSE NoWorker
    /\ IF component = "queue" THEN Q!QueueInit ELSE NoQueue
    /\ IF component = "topology" THEN T!Init ELSE NoTopology

MCNext ==
    /\ UNCHANGED component
    /\ \/ component = "gate" /\ Next /\ UNCHANGED <<ofWorker, ofQueue, ofTopology>>
       \/ component = "worker" /\ W!Next /\ UNCHANGED <<vars, ofQueue, ofTopology>>
       \/ component = "queue" /\ Q!QueueNext /\ UNCHANGED <<vars, ofWorker, ofTopology>>
       \/ component = "topology" /\ T!Next /\ UNCHANGED <<vars, ofWorker, ofQueue>>

\* The fairness that each component states for itself.
MCFairness ==
    /\ \A g \in Callers : WF_vars(component = "gate" /\ Progress(g))
    /\ \A w \in Workers : WF_(W!vars)(component = "worker" /\ W!LoopStep(w))
    /\ \A t \in W!Tasks :
          /\ WF_(W!vars)(component = "worker" /\ W!TaskStep(t))
          /\ SF_(W!vars)(component = "worker" /\ W!HandlerReturns(t))
    /\ WF_(Q!queueVars)(component = "queue" /\ Q!QueueStep(queuer))
    /\ \A p \in {caller, loopProc, 1, 2} : WF_(T!vars)(component = "topology" /\ T!Step(p))
    /\ WF_(T!vars)(component = "topology" /\ T!CloseAdapters)
    /\ WF_(T!vars)(component = "topology" /\ T!CloseReturns)

MCSpec ==
    MCInit /\ [][MCNext]_<<component, vars, ofWorker, ofQueue, ofTopology>> /\ MCFairness

-----------------------------------------------------------------------------
(* Property.                                                                  *)

\* What must end, and when it has: Workflow!StopEnds, the two of QueueWorker!StopJoins,
\* the three promises of SessionGate!NobodyStuck for one goroutine (they are all alike),
\* and the two of Topology!NobodyHangs.
Begun(i) ==
    CASE component = "worker" -> i = 1 /\ \E w \in Workers : stopped[w]
      [] component = "queue" ->
            \/ i = 1 /\ stopAsked[queuer]
            \/ i = 2 /\ Q!Running(queuer)
      [] component = "gate" ->
            LET at1 == pc[goroutine]
            IN \/ i = 1 /\ at1 \in Registered
               \/ i = 2 /\ cancelled[goroutine] /\ at1 \notin {"idle", "reading", "writing"}
               \/ i = 3 /\ at1 = "rWait"
      [] component = "topology" ->
            \/ i = 1 /\ procPc[caller] # "idle"
            \/ i = 2 /\ closePc # "open"
Over(i) ==
    CASE component = "worker" -> \A w \in Workers : loop[w] = "ended"
      [] component = "queue" ->
            \/ i = 1 /\ runOnce[queuer] = "stopped"
            \/ i = 2 /\ ~Q!Running(queuer)
      [] component = "gate" ->
            LET at1 == pc[goroutine]
            IN \/ i = 1 /\ (writer \/ at1 \notin Registered)
               \/ i = 2 /\ at1 = "idle"
               \/ i = 3 /\ (at1 # "rWait" \/ writer \/ At({"wNew"} \cup Registered) # {})
      [] component = "topology" ->
            \/ i = 1 /\ procPc[caller] = "idle"
            \/ i = 2 /\ closePc = "returned"

\* Whoever waits gets an end of it: Join on a worker of either kind that was stopped in
\* a claim, within a batch of handlers or in its sleep (worker_lifecycle.go:70); RunOnce
\* of a queue worker, whose completion loop waits for a channel that another goroutine
\* closes behind the last handler (queue.go:219); a transaction
\* that waits for the gate, although requests keep arriving, a cancelled call of the
\* gate, a request parked behind transactions that are gone (session.go:82); a call and
\* Close of the topology executor, although refreshes are abandoned by their last waiter
\* over and over (topology_refresh.go:36).
EveryCallReturns == \A i \in 1..3 : Begun(i) ~> Over(i)
=============================================================================
