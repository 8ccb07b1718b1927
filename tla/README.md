# A TLA+ model of the FerricStore Go client

This directory models `ferricstore-go`, the Go client of FerricStore: how many
goroutines share one connection, how requests get credits, how connections are
opened, drained, retried and closed, how commands are collected into pipelines,
split, routed over a cluster whose layout changes and put together again, how
transactions and subscriptions live on a connection that may be lost, how workers
run jobs and durable steps, and how every call of the library becomes a request
that the router, the builders and the wire format have to understand.
TLC checks the modules on small instances; TLAPS proves theorems about thirteen
of them for every value of their constants. `PROJECT.json` lists runs, mutants,
theorems, hazards, and for each definition the source lines it stands for.

To check a run: `tlc -config MCFlowController.cfg MCFlowController`.
To check the proofs: `tlapm FlowControllerProofs.tla`.

## 1. The system and its parts

| Part | Source | State it keeps | Operations | Module |
|---|---|---|---|---|
| Session gate | `session.go` | readers, writer, waiting writers, change channel | lock, unlock, readLock, tryReadLock, readUnlock | `SessionGate` |
| Flow controller | `native_limits.go` | limits, active counts, a wait queue per lane, round-robin list | acquire, release, updateLimits, close | `FlowController` |
| Native connection and requests | `native.go`, `native_connection.go`, `native_request.go`, `native_pending.go`, `native_reader.go` | current connection, drain state, single-flight attempt, pending table, write lock | request, heartbeat, answer, cancel, GOAWAY, Close, retire | `NativeConn` |
| Frames, response assembly | `native_frame.go`, the read loop of `native_reader.go` | chunks of unfinished answers, their bytes and frames | read a frame, cancel a request | `Frames` |
| Native pipelines | `native_pipeline.go`, `native.go` | none between calls | split, send, assemble results | `NativePipeline` |
| Wire format | `native_codec_*.go`, `native_compact*.go` | none | encode, decode, compact answers | `Codec`, `CompactCodec` |
| Auto-batch executor | `auto_batch*.go` | admission tokens, channel, current batch, pipeline slot | Do, flush, Close, the loop goroutine | `AutoBatch` |
| Buffered executor | `buffered*.go` | queue and its bytes, a flush lock | Do, Flush | `Buffered` |
| HTTP executor | `http_*.go` | closed flag, requests in flight | Do, pipeline, redirects, Close | `Http` |
| Topology executor | `topology.go`, `_refresh`, `_adapter`, `_snapshot`, `_reroute` | layout and its version, adapter cache, refresh in flight, event signal | Do, RefreshTopology, event loop, Close | `Topology` |
| Topology pipelines, scatter | `topology_scatter*.go`, `topology_kv.go`, `topology_tasks.go` | the wave, routed groups, a bounded task pool | pipeline, scatter commands and their retries | `TopologyBatch` |
| Routing and command policy | `topology_routing.go`, `topology_command_policy.go`, `topology_flow_routing.go`, `internal_key.go` | none | keys, slot, refusal and blocking time of a command | `KeyRouting`, `FlowNative` |
| Transactions | `transaction*.go`, `client.go` | legacy session of the client, Transaction objects, session of the executor | WATCH, MULTI, EXEC, DISCARD, plain commands, Close | `Transactions` |
| Publish/subscribe | `pubsub*.go` | connection stamp, tracked subscriptions, one shared reader and its buffers | Subscribe, Unsubscribe, Next, NextEvent, replay | `PubSub` |
| Durable steps, workflow workers | `client_durable_step.go`, `workflow*.go`, `worker_*.go` | claim of the context (lease and fencing token), uncertainty, in-flight handlers | Advance, Step, claim, apply an outcome, Stop, Join | `Workflow` |
| Queue worker | `queue.go`, `worker_lifecycle.go` | successes waiting for completion, in-flight handlers | RunOnce, complete in batches, retry, Start, Stop | `QueueWorker` |
| Typed stores, client facade | `stores*.go`, `client*.go`, `probabilistic*.go`, ... | none | one request per call | `Stores` |
| Flow client | `client_flow*.go`, `native_flow*.go` | none | one request per call, its native form | `FlowCommands`, `FlowNative` |
| Publish/subscribe decoding, query results | `pubsub_decode.go`, `flow_query_*.go`, `native_flow_query_*_codec.go` | none | conversions of answers | not modelled |
| Benchmarks, examples | `cmd/`, `examples/` | - | - | not modelled |

How they interact. A `Client` delegates each call to an executor. A
`TopologyNativeExecutor` picks the adapter of the endpoint that leads the key's
shard; an adapter is a `NativeExecutor`. A `NativeExecutor` lets a request pass
the session gate as a reader (a transaction as the writer), obtains a connection
from the single-flight attempt, takes a credit from the connection's flow
controller, registers in `e.pending`, writes under `writeMu` and waits for the
reader goroutine to hand it its response. Failures, GOAWAY and heartbeats reach
every request of a connection through `e.pending`. `AutoBatchExecutor` and
`BufferedExecutor` sit in front of a client and turn single calls into pipelines.
A subscriber's view replays its subscriptions whenever the number of the
connection has changed. Workers are users of a client: they claim jobs, run
handlers and send mutations. The executors share nothing but these calls; the
modules below follow those boundaries.

What is hard: cancellation is possible at every blocking point and races with the
event waited for (a grant, an answer, a signal, a dial); the connection in use is
read under `e.mu`, given up and used later; errors of one request are delivered to
others; at-most-once delivery rests on classifying errors as "not sent"; a refresh
or a dial may outlive everybody who waited for it; state of the server (WATCH,
MULTI, subscriptions) is bound to a connection the client may lose; groups of one
pipeline fail one by one; Close meets all of these. And in the conversions: texts
of the caller travel in the same argument list as the words of the grammar that
three readers (router, builder, deadline) parse again.

What makes each part correct:

- gate: a transaction excludes everything else; nobody sleeps through a wakeup;
- flow controller: credits are conserved, queues intact, nobody waits for a free
  credit, lanes are served in order and none starves;
- connection: nobody waits for an answer that cannot come, no socket leaks, a
  drain ends, a request that may have been applied is not written again, an error
  that says "not sent" tells the truth, every request returns by its deadline;
- frames: an answer is its own chunks in order, memory is bounded and truly
  counted, and only a bound that is really exceeded costs the connection;
- every executor: `Delivery`, a command is executed at most once, answered once,
  and the answer is true; commands on one key keep their order, but for those whose
  outcome the caller was told is unknown;
- auto-batch: every accepted request is answered once, a flush is a barrier,
  pipelines are sent one after the other in the order of acceptance, Close ends;
- topology: requests go to the leader of the current layout, layouts are installed
  in order, no event is missed, no adapter leaks, nothing is applied twice;
- transactions: no WATCH or MULTI outlives its session, a session has one owner,
  client and server agree, what was acknowledged as QUEUED is executed by EXEC;
- publish/subscribe: a connection taken for up to date has every subscription; an
  event reaches one caller of its kind, in the order of the executor it came
  through, or is counted as dropped, or is left with an executor nobody reads;
- durable steps and workers: a step's result is stored once and replayed instead of
  run again, no mutation goes out on a claim that may be used up, every success is
  completed once or the run reports the batch it could not send, Stop ends;
- requests: each argument reaches the field it was meant for, the node that has the
  key, and comes back from the wire as it went in.

## 2. Modules

Each component module has its state as variables, one action per operation or
critical section, and the properties at its end. Operators whose comment starts
with *Mutant* are not used by the specification: each is a variant of the
definition below it, changed the way a plausible bug would, that makes one of the
properties fail. `MC*` modules give the constants of the runs. `MCSessions`,
`MCRequests`, `MCBatches`, `MCTopology`, `MCWorkers` and `MCProgress` hold several
components side by side: `MCInit` picks one, only that one takes steps, and what the others
own keeps its value ("idle", or that of the initial state). They are disjoint
unions, not compositions: the state space is the sum of the parts.

**SessionGate.** `readers`, `writer`, `waitingWriters` are the gate's fields. The
channel `changed` is represented by one Boolean per sleeper, since `signalLocked`
always closes the current channel and installs a new one. `lock` is
`WriteRegister`, `WriteTry`, `WriteWake` and `WriteDeregister` (the deferred
function), `readLock` is `ReadTry` and `ReadWake`; a context may end anywhere
(`Cancel`).

**FlowController.** One action per critical section of `f.mu`, except that every
iteration of `pumpLocked` is an action of its own while `mu = "pump"`. A waiter is
the request that made it; its `settled`, `granted` and `err` fields are the
request's program point. Limits are those of the handshake and of every later
WINDOW_UPDATE, drawn from `ConnLimits` and `LaneLimits`.

**NativeConn.** Requests run `requestWithDirectPayload`'s loop: connect (or wait
for an attempt or for a drain), capture the connection, wait for a credit,
register, lock the writer, check, write, await, decide about a retry.
`Dial`/`Install` are the attempt's goroutine, `Respond`, `ConnectionFails` and
`HandleGoAway` the reader, `DrainTimeout` the drain timer. Heartbeats are control
requests whose failure closes the connection. Errors are classes: those that say
"not sent" and those that do not.

**Frames.** The server cuts answers into chunks and interleaves them; the read
loop adds each to `nativeResponseAssembler`, which keeps them apart, compacts them
into a growing buffer once there are many, drops those of a cancelled request and
refuses what exceeds the bounds. A body is a sequence of chunks, a chunk its
answer, its place and its length.

**NativePipeline.** A pipeline is cut by the command limit and by frame size, an
oversized chunk is halved, a command that cannot be built is reported on its own,
and the fate of each request (answered, short answer, refused, lost) is drawn from
a list. What the whole call returns is one function of pipeline and fates, so each
state holds one call.

**AutoBatch.** Callers reserve a token, send into the channel under `submitMu` and
wait; the loop takes requests, starts pipelines when the batch is full, the timer
fires or a flush arrives, waits for the result or its timeout, drains the channel
after Close and waits for the pipeline still running. A batch is a sequence of
requests; payloads and results are left out.

**Buffered.** `Do` looks at the bounds, retains the command and looks again under
the lock; `Flush` takes the queue out and sends it as one pipeline under the flush
lock. A flush that fails leaves its commands unknown; they may be executed late.

**Http.** A batch is one POST. The caller's or the library's HTTP client follows a
chain of hops; the policy decides about each hop from the whole chain, keeps or
strips headers and body; deadline, decoding and error classes follow. A redirect
other than 307 and 308 turns the batch into a GET without a body (`ServeGet`). The
code does not ask which request an answer came back on: a 200 with results is
success, as `http_redirect_regression_test.go` expects, although the server that
gave it never saw the batch. Whether the server that redirected had executed it is
open (`Redirect` to GET may perform any of it); one that answers 307 or 308 is assumed to
have executed nothing.

**Topology.** Callers, the event loop and refresh flights are processes; sections
of `e.mu` and `e.refreshMu` are actions. A layout is a number; what it says about
each caller's key is the constant `Layout`; `EventLoop` names the loop's process.
Adapters are identities with a state (open, retired or closed) and the requests
that hold them. Servers are external: the layout changes, an endpoint answers
SHARDS with the current one, and may be unreachable.

**TopologyBatch.** One pipeline call: routed commands are collected into a wave,
planned on a snapshot, replanned while the layout moves on, and sent in one group
per leader through a task pool of bounded size; a scatter command or a command
without a key flushes the wave first. Groups are answered, refused in part or as a
whole, or lost; a lone group that was refused as a whole is sent once more. A group
whose connection breaks or whose time is over leaves its request behind
(`Break`, `stranded`): the protocol has no frame that takes a request back, the old
connection is drained, the loop goes on with the next wave on a new one, and the
server may execute what was left at any later time or never (`StrandedRuns`). Units
are a position with a key, so a key of a scatter command is one too. `Longest` bounds
the pipelines of `Pipelines`; the wave's commands stay in ascending order
(`Ascending`), as `waveCommands` has them.

**Transactions.** Two callers use one client: its legacy session (`legacy`,
`legacyMulti`, under `legacyGate` and `legacyMu`), explicit `Transaction` objects
and plain commands. A session owns the gate and is pinned to the connection that
was current when it was made. The server keeps WATCH, MULTI and the queue of the
connection; requests travel in order in `wire` and are lost with the connection.
It may refuse a request, answer EXEC with nil after WATCH, and answer something the
client does not expect. A caller that gives up leaves its request on the wire, and
the late answer goes to nobody, not to the caller's next request.

**PubSub.** A view keeps what it tracks and the stamp `last` of the connection it
believes to be subscribed on; replay, request and recording are separate steps
under `replayMu`, between which the connection may break or be replaced by another
user. A step that uses the connection keeps its subscriptions, or starts with none if
it had to make one (`Carried`). `Next` and `NextEvent` share one reader, who keeps events of the other kind
in a buffer that may be full. Each executor has an event channel of its own (`events`).
When the topology replaces the executor, the view moves (`exec`) while the reader may
still be at the old one (`reading`) until it loads the current one again (`Load`); what
is left in the channel of an executor the view has left is read by nobody unless the
view comes back to it, and is not counted as dropped.

**Workflow.** A worker is `Start`'s loop around `RunOnce`; a task is the run of a
handler for a job by a worker, with the `WorkflowContext` as `ctx[t]`. The handler
is any program over `Advance`, `Step` and the outcomes: it may call them in any
order, ignore their errors and return an outcome it was given before. The server
(external) keeps one record per job and accepts a mutation only with the current
fencing token; leases run out at any time (`Expire`). Mutations travel in `net`:
they are processed, rejected or lost, also after the sender stopped waiting or
died (`Crash`). An error that says "not sent" or "rejected" is assumed to be true,
which `native_conn_notsent` shows the connection does not always guarantee. RETRY
always releases the job; that a server ends it after too many attempts is left out.

**QueueWorker.** `RunOnce` claims, runs handlers at most `Concurrency` at a time,
sends successes into the channel that the caller drains in batches, and applies
the error policy; `Start`'s loop repeats it. Leases run out as above. A job may have
no partition key (`keyless`, fixed at the start); a batch of several with such a job is refused by the
client before anything is sent (`RefuseBatch`), and the run ends with an error. `Stop`
may come in a run, between two, or in the sleep.

**Codec, CompactCodec, CodecConversions.** Bytes are numbers, a body is a sequence
of them. `WriteValue` and `ReadValue` count nesting and items as the code does;
the payloads of MGET, MSET, key commands and FLOW.QUERY are written without their
map; compact answers are read by trying layouts. `CodecConversions` has the inputs
and the reference: what a value means.

**KeyRouting, Stores.** A command is its argument list; each argument has a text or
a number, which the code sees, and a role, which only the properties see. `Stores`
lists the argument list of every method with its options, `KeyRouting` the policy
table, the grammars with options, the decision (one slot, scatter, refuse, control
connection), the reserved-key check and the time budget of blocking commands.

**FlowCommands, FlowNative, CommandConversions.** The same for FLOW commands:
`FlowNative` translates the builders of native requests and the routing by
partition, whose walks over the options are separate in the code too;
`CommandConversions` states what both should find.

**Delivery, Executors.** `Delivery` is the abstract specification: `executed` and
`outcome` per unit. `TopologyBatch`, `Buffered` and `Http` implement it under the
mapping given in each (`BatchImplements`, `BufferedImplements`, `HttpImplements`): an
execution is an entry in the servers' log, an outcome the class of the answer. The
mapping of `Http` counts the success of a batch that became a GET as an unknown outcome
(`Vouched`): `Delivery` asks that an "ok" be true, and this one need not be (section 4).
`Executors` puts the three together: `ImplementsDelivery` and `BatchesKept` are the
properties that the run `batches` checks and `DeliveryProofs` proves.

**SessionGateProofs, FlowControllerProofs, NativeConnProofs, AutoBatchProofs,
WorkflowProofs, TopologyProofs, DeliveryProofs, TransactionsProofs.** The theorems
of section 5. Each extends the modules it is about: `SessionGateProofs` also
`PubSub`, `NativeConnProofs` also `Frames`, `WorkflowProofs` also `QueueWorker`;
`DeliveryProofs` is about `Executors`. Modules that are extended together share no
names: their specifications are `Spec` and `FramesSpec`, `BufferedSpec`, `HttpSpec`
and `BatchSpec`, and so on.

## 3. Runs

| Run | Instance | States | What it shows |
|---|---|---|---|
| `sessions` | transactions: 2 callers (symmetric), a Transaction, 2 sessions, 2 connections, 2 requests under way; subscriptions: 2 targets, 3 connections, 1 retry; readers: 2 kinds of events, 3 events, a buffer of 1, 2 executors (symmetric) | 1.95 million | `SessionStateContained`, `SessionHasOneOwner`, `ClientAgreesWithServer`, `StampMeansSubscribed`, `EventsReachCallers` |
| `flow` | 3 requests, 2 lanes, 0 to 2 credits, lane windows 1 or 2 | 14 364 | `CreditsConserved`, `QueuesConsistent`, `NoStrandedWaiter`, `NoOvertaking`, `EveryWaiterServed` |
| `requests` | connection: a data request and a heartbeat, 2 connections, 1 retry; frames: 2 answers of up to 4 chunks; pipeline: up to 4 commands in frames of 3 bytes | 2.57 million | `NoLostRequest`, `ResentOnlyByBeat`, `DrainHasLive`, `NoLeakedConnection`, `AnswersAssembled`, `OnlyBoundsClose`, `ResultsTrue` |
| `native_conn_progress` | a data request and a heartbeat, 1 connection | 278 107 | `EveryRequestReturns` |
| `batches` | automatic: 2 commands, 1 flush, queue and batch of 2; topology: 8 pipelines of up to 3 commands, 3 layouts of 2 keys, 2 tasks at a time; buffered: 3 writers, 2 flushers; http: 2 commands, 4 hops | 396 304 | `AcceptedAnswered`, `WaitingIsTrue`, `PipelinesInOrder`, `NobodyHangs`, `BatchesKept`, `CredentialsStayHome`, `ImplementsDelivery` |
| `topology` | 1 caller with 2 calls, the event loop, 2 flights, 2 layouts, a seed and a learned endpoint; every command of the client's methods, one at a time (36 177) | 2.68 million | `LayoutsMoveForward`, `RoutedByCurrent`, `NoLeakedAdapter`, `AppliedOnce`, `KeysAndTimesFound`, `BuiltAsAsked`, `RoutedToItsFlow` |
| `progress` | a worker with 2 jobs on 1 slot; a queue worker with 2 jobs; the gate with 3 goroutines; the topology executor with 1 call | 125 825 | `Exclusion`, `NoLostWakeup`, `EveryCallReturns` |
| `workers` | workflow: 2 workers (symmetric), 1 job, 2 states, 1 step, 3 claims, 2 mutations under way; queue: 2 workers (symmetric), 2 jobs, 2 claims of each; conversions: one value, payload or answer at a time | 1.96 million | `StepCommittedOnce`, `ReplayNotRerun`, `OutcomeOnLatestClaim`, `SuccessesCompleted`, `WireRoundTrips` |
| `native_conn_resend` | as the connection of `requests` | stops at the violation | `AtMostOnce` fails |
| `native_conn_notsent` | a data request that is never replayed and a control request | stops at the violation | `NotSentIsTrue` fails |
| `pubsub_replay` | a subscriber of 2 targets, a reader, 3 connections | stops at the violation | `ExistingReplayedFirst` fails |
| `pipeline_build` | up to 3 commands in frames of 3 bytes | stops at the violation | `BuildErrorIsLocal` fails |

A property of a union such as `ResultsTrue` is the conjunction of the named
properties of the components it lists, each under the condition that its component
was picked. Each module with variables has a type invariant (`TypeOK`, or a name of
its own such as `FramesTypeOK`); those of the modules with proofs are proved, the
others hold on the instances above (add it as an INVARIANT to a cfg to see it).

**Why the bounds are enough.** Two kinds of bound occur. The number of actors is
chosen so that every pair (in the gate and the flow controller, triple) of roles
that can interfere occurs: a holder, a waiter and a newcomer for the gate; two
waiters on a lane and a lane at its own limit in front of one that is not, for the
flow controller; the request that fails a connection and the one in flight on it,
for the connection; a call that ends a session and one that uses it, for the
transactions; two commands on one key around one on another leader, for the waves.
The bounds on repetition (`MaxAttempts`, `MaxRetries`, `MaxCalls`, `MaxGen`,
`MaxConns`, the identities of `Adapters` and `Flights`) let each event happen
once more than the code's reaction to it needs: a second connection after the
first failed, a second refresh while the first is abandoned but running.
`MaxFence` is 3: a claim, the commit of a step, and the claim of the worker that
takes over and must find the result. `MaxPlanning` is 1 or 2 where the code has 8;
the count matters only in that it ends. Frames of 3 bytes
with commands of up to 2 make a chunk of four be split twice. Identities of
adapters and flights are reused once nothing refers to them. In the conversions
the texts of arguments are a plain one and the words of the grammar that matter
to the readers under test (`STREAMS`, `BLOCK`; `PARTITION`, `ITEMS`), one tricky
text at a time; options are present or absent, for FLOW commands one at a time
beyond the required ones (`MaxOptions`).

**Deadlock.** It is checked for the flow controller, whose callers come and go for
ever. In the other runs at least one part really ends: every call has returned and
the executor is closed, all workers have ended, a conversion is done. That nobody
is stuck half way is what the liveness properties and `NoLostWakeup`,
`DrainHasLive` and `EventsReachCallers` say.

**Fairness.** Weak fairness of goroutines that can run. Beyond it:

- `FlowController`: strong fairness of the goroutines that need `f.mu` to return
  or to release a credit. The mutex is free again and again but may be taken each
  time by others; Go's mutex hands over to a waiter starved for 1 ms. That a
  holder releases its credit follows from request deadlines. `EveryWaiterServed`
  lets a request wait on only if the server takes all credit away again and again.
- `NativeConn`: every request has a deadline (`NativeOptions.Timeout`), a dial
  ends within it, a drain timer fires. The server need never answer.
- `AutoBatch`: flush and shutdown timeouts expire; a pipeline need never end.
- `Workflow`: a request is answered or times out, and a handler returns in the end,
  however often it calls its context before (strong fairness of its return). The
  server need not answer.
- `QueueWorker`: its goroutines run, a request is answered or times out, a handler
  returns (weak fairness of all steps of a worker). Nobody need call Stop.
- `SessionGate`: a goroutine that was woken or cancelled runs. Nobody need ask for the
  gate or be cancelled.
- `Topology`: every request of an adapter ends, which is `EveryRequestReturns` of
  `NativeConn`. No context need end and no event need come.

The remaining components are checked for safety only and state no fairness.

## 4. Findings

Four runs show the code doing other than its comments or tests say.

- `native_conn_resend`: `heartbeatLoop` delivers the error of its PING to every
  request in flight. If the PING failed with the GOAWAY error, requests that were
  already written receive that error, and their retry loop, which takes it to
  mean "not written yet" (`native_request.go:86`), writes them again. A PING that the
  server answered with BUSY takes the same way: the requests in flight receive its
  `NativeError` and take it for a refusal of their own (`native_request.go:91-97`).
  `ResentOnlyByBeat`, which holds, says that there is no third way, and how often: a
  request is written at most once, once more for each time the server answered this
  request itself with BUSY, and once more for each heartbeat that failed with GOAWAY or BUSY.
- `native_conn_notsent`: a request about to retry closes whatever connection is
  current, also one opened meanwhile for somebody else, and fails the requests in
  flight on it with its own error, which is marked "not sent"
  (`native_request.go:109`). They report `RequestDeliveryNotSent` although their
  bytes were written.
- `pubsub_replay`: a subscription call brings the view up to date and then reads
  the number of the connection (`pubsub_replay.go:44`). If the connection is
  replaced in between, the new subscription is the first request on it, is
  recorded as current, and the older ones are never replayed there.
  `StampMeansSubscribed`, which holds, says that this is the only way.
- `pipeline_build`: when a chunk is split for its size and its right half holds a
  command that cannot be built, the index in the error counts from the half
  (`native_pipeline.go:73`); the caller takes it from the start of the chunk, sends
  the commands before that index again and blames the command at it. Of two commands
  that fit one frame each and a third that cannot be built, the first is executed
  twice, and the second, a sound one that was never sent, is reported as the one that
  cannot be built. `ResultsTrue` holds for all other pipelines.

Observations without a line of the repository that says otherwise, made while the
modules were written:

- A batch that a 301, 302 or 303 turned into a GET is reported as a success if the
  GET's answer holds results (`http_executor.go:284-303`; the redirect tests expect
  it). Nothing in the code knows whether any server has executed it.
- A command whose group timed out may be executed after a later command of the same
  pipeline on the same key (`topology_scatter.go:130`): its request stays on the drained connection
  while the next wave goes out on a new one. The caller knows of it only that the
  outcome is unknown. `PipelineOrderKept` excepts exactly such commands.
- Events that are still in the channel of an executor when the view moves to a
  replacement (`pubsub_replay.go:260`) reach nobody, and `DroppedEvents` does not
  count them. `EventsReachCallers` lets them wait there.
- A queue worker whose batch of several successes holds a job without a partition key
  sends none of them: the client refuses the batch, the run returns the error, and the
  jobs, whose handlers have succeeded, are run again when their leases expire.
- `Client.Close` waits for `legacyMu`, which `Watch` and `Multi` hold while they
  wait for the gate and the server; Close then takes as long as they do.
- A reader asleep on a lost connection does not replay if another user has
  reconnected before it woke (`native_pending.go:230`); the next call of the view
  repairs it.
- `FLOW.CLAIM_DUE` is searched for `BLOCK` at every position
  (`native_command.go:243`), so a type, state or worker of that name stretches the
  deadline.
- `RoutedToItsFlow` makes two exceptions (`misread`): a claim with PAYLOAD that asks
  for a value named PARTITION, and RUN_STEPS_MANY with a payload, result, type or
  worker of that text. The walk over the options then takes the next argument for
  the partition.
- The inputs of `BuiltAsAsked` leave out four texts that the argument list cannot
  tell from the grammar: a child of SPAWN_CHILDREN whose ID is `MIXED`
  (`native_flow_extended.go:207`), a partition called `MIXED`, `AUTO`, `NONE` or
  `-`, and a reference of VALUE.MGET called `MAX_BYTES`.
- The reader of compact pipelines (`native_compact_pipeline.go:254`) finds the
  layout of each job by trying. From four jobs on, of mixed layouts and with empty
  run states, two readings can consume the same bytes; `WireRoundTrips` checks up
  to three.

## 5. What is proved

The constants are arbitrary, under the assumptions the modules name:

| Module | Assumption | What it says |
|---|---|---|
| `SessionGate` | `CallersFinite` | finitely many goroutines |
| `FlowController` | `FlowConstants` | finitely many requests, at least one lane, limits are natural numbers |
| `NativeConn` | `ConnConstants` | finitely many requests, control and data apart, heartbeats are control requests |
| `Frames` | `FramesConstants` | FLOW.QUERY is not a control request, the bounds on bytes and frames are positive, sizes are natural numbers |
| `Buffered` | `BufferedConstants` | sizes of commands and the bounds of the buffer are natural numbers |
| `TopologyBatch` | `BatchConstants` | finitely many keys, "no key" and "no route" apart from keys and leaders, the layout before the first has no route, bounds are natural numbers, every pipeline is a sequence of at most `Longest` commands of the three kinds, a routed one with one key, a scatter command with at least one |
| `AutoBatch` | `AutoBatchConstants` | finitely many calls, commands and flushes apart, sizes at least 1 |
| `Workflow` | `WorkflowConstants` | finitely many workers and jobs, the states of a worker in a nonempty list |
| `QueueWorker` | `QueueConstants` | finitely many jobs, the bound on claims is a natural number, the policies are the three of the code, whoever may be stopped is a queue worker |
| `Topology` | `TopologyConstants` | finitely many processes, at least one seed, layouts numbered from 1, each names an endpoint for every key |
| `PubSub` | `PubSubConstants` | subscribers and readers apart, nobody and no kind of event called "none", bounds are natural numbers |
| `Transactions` | `TransactionConstants` | finitely many callers and Transactions, none of them called "none", bounds are natural numbers |

TLC evaluates them in the runs of these modules. `Http` needs none. Proof modules
share a layout: the parts of the inductive invariant, lemmas about the operators,
one lemma per part of the invariant with one step per action, the invariant
theorem, and the properties as its consequences.

**SessionGateProofs.** `GateInv` is the conjunction of `TypeOK`, `CountersExact`
(the counters are the goroutines inside the sections they count), `Exclusion` and
`NoLostWakeup`. `Exclusion` alone is not inductive: that `readers = 0` means
nobody reads is what the counters' exactness says. `NoLostWakeup` needs the same
of `waitingWriters`, so that a positive count is a goroutine that will signal.
Results: `GateTypes`, `GateCounters`, `GateExclusion`, `GateNoLostWakeup`.

Publish/subscribe is in the same module. `StampMeansSubscribed` speaks of moments
at which nobody holds `replayMu`; what carries it over a call is `SubscribedOK`, what
each step has established for the next one: a replay in progress has subscribed, on
the connection of its stamp, everything it has not still to do; before the request
and after it is recorded the connection of the request's stamp has all that is
tracked; between the two, all that will be. `HolderOK` says which call this is
about, `StampsOK` that no stamp is of a connection yet to come, so that a new
connection agrees with none. For the events, `OrderOK` orders the places an event
passes through: what was given or kept is older than what the reader holds, which is
older than the queue, each among the events of one executor, since events that came
through two of them have no order to keep. Without it "given in order" is not inductive. It needs
`ReadingOK`: the one reader found the buffer of its own kind empty, and nobody else
fills it, so the event it takes from the queue is the next of its kind.
`ParkedAreRemembered` follows from the reader's signal on every way out. The proof
attempt found an error of an earlier version of the model: the step that connects
also fixed the subscriptions, so a request could only be served for targets that
were subscribed already, and the properties held for the wrong reason.
Results: `PubSubInvariant`, `SubscriptionsFollowTheConnection`,
`EventsAreGivenOnce`, `EventsWithinCapacity`.

**FlowControllerProofs.** `FlowInv` is the conjunction of `TypeOK`, `Credits` and
`Waiters` (`CreditsConserved` and `QueuesConsistent`, written with the sets of
requests at given program points), `NoStrandedWaiter` and `ClosedQuiet` (a closed
controller has no waiter and is not pumped). Each part needs others: that a
release finds a positive counter comes from the credits; that the pump's end
leaves nobody stranded needs every lane with waiters on the round-robin list, and
the controller open, since a closed one has nothing eligible; that a grant keeps
the credits needs the head of a lane's queue to be a queued request of that lane.
The proof has a lemma for each action. Underneath lie lemmas about sequences (what
appending, taking the head, cutting out an element and rotating do to the elements
of a sequence without repetition) and about counting (what one request's move does
to the sets and their cardinalities).
Results: `FlowTypes`, `FlowCredits`, `FlowQueues`, `FlowNoStrandedWaiter`, and the
action property `FlowNoOvertaking`: a grant takes the head of a queue that has no
repetition, and a newcomer is granted at once only when nobody of its lane waits,
which is `NoStrandedWaiter` for a lane whose credit is free.
`FlowQueues` also justifies a simplification: a lane is on the round-robin list
exactly when it has waiters, so the branches of `pumpLocked` that drop stale
entries never run and `PumpStep` has none.

**NativeConnProofs.** `ConnInv` has six parts beside the types. `CountsOK`:
`activeRequests` and the waiters of each attempt are cardinalities. `SocketsOK`:
who owns an open socket. `CapturedOK`: what a request relies on after it gave up
`e.mu` with a captured connection; it is registered alive until it has an answer,
and once its bytes are out only on the current connection, which is
`NoLostRequest` with the points before it. `DrainOK` needs `CapturedOK`, because
the last live request to leave must find that it is the last. `ErrorsOK` says which
error classes occur at which point of the retry loop, and `WritesOK` uses it to
count writes: before its write, and whenever it is about to be resubmitted, a
request has been written no more often than the server refused it and heartbeats
failed. That a heartbeat allows one write and not one for each time it is looked at
needs `Beats`, which counts it at the step that hands its error over (`BeatsGrow`).
Results: `ConnInvariant`, `NoLostRequestHolds`, `DrainHasLiveHolds`,
`NoLeakedConnectionHolds`, `ResentOnlyByBeatHolds`. The last one is the complement
of the finding `native_conn_resend`: no other way to a second write exists, for any
number of requests and heartbeats, and each failed PING allows one.

The same module has the assembler of answers. `FramesInv` is, beside the types,
`AssemblyOK` (an answer has a state exactly while the server is in the middle of it,
with its chunks so far, in the mode they were begun in, and a data request is known
until it is answered), `ChunksOK` (each answer counts its own chunks and keeps no more
memory than twice its bytes), `SumsOK` (the two counters are the sums over the
answers) and `AnswersWhole`. Sums are cardinalities here: the total of a function is
the number of pairs of an argument and one of its units (`Ones`), so what a chunk
adds, a finished answer takes away and an injection bounds is a fact about finite
sets. `RetainedBounded` follows with the factor two of `ChunksOK`: a growing buffer
has spare capacity. `OnlyBoundsClose` is an action property: when a connection is
closed, the answers the server is in the middle of, with the frame just read, do
exceed a bound. It needs counters that are exact and not only upper bounds, hence
that a cancelled answer keeps its state and its mode until its last chunk has come.
Results: `FramesInvariant`, `AnswersAreAssembled`, `ClosesOnlyOverABound`.

**AutoBatchProofs.** The argument is about positions. In the order of acceptance
come the answered requests, the batch, the request of a pending flush and the
channel (`LayoutOK`); `AnswersOK` says of each position whether it has its answer,
`PipelinesOK` how far the pipelines reach. `ControlOK` and `RunningOK` say in which
places of the loop the parts may be nonempty. `AcceptedAnswered`, `FlushIsBarrier`
and `PipelinesInOrder` are then statements about the same four intervals. What the
filter of cancelled requests (`Live`) keeps is proved for batches of every length.
Results: `BatchInvariant`, `AcceptedAnsweredHolds`, `WaitingIsTrueHolds`,
`PipelinesInOrderHolds`.

**WorkflowProofs.** `WorkflowInv` follows a claim. `ClaimsOK`: the claim of a
context is one the server has handed out and the latest the task has obtained, and
its mutations carry it. `FreshOK`: a mutation under way whose claim is still the
job's latest stores a step only if there is no result for it; this is what the
preflight establishes and what survives until the commit, since every commit
replaces the claim. `ValuesOK`: a step has one commit exactly when it has a result.
Results: `WorkflowInvariant`, `StepCommittedOnceHolds`, `ReplayNotRerunHolds`,
`OutcomeOnLatestClaimHolds`.

The same module has the queue workers. `QueueInvariant` follows a success:
`TokensIssued` and `ClaimsApart` (a token is handed out once, so no two runs share a
claim), `HandlersOfClaims` and `SuccessesOfRun` (what is in the channel or the batch
are claims of this run whose handlers have succeeded), `SuccessesApart` (each is in
one of the two, once) and `RequestsCounted` (and is requested once when it is in
neither). `Counted` bounds the counts by two sets of jobs: the ones the server has
completed for this run, and the ones whose handler ended without success. They are
disjoint because a job is done only when its handler succeeded; `CountsTrue` alone is
not inductive, since nothing in it says that a completion and a retry are of
different jobs. `RefusedReported` is the batch that could not be sent: its successes
wait nowhere any more, and the run they belong to has its error set, which no later
step of the run takes back.
Results: `QueueCorrect`, `QueueSuccessesCompleted`.

**TopologyProofs.** `TopologyInv`: where processes can be and what they hold there
(`ProcsOK`), `AdaptersOK`, `AppliedOK`, `FlightsOK` (one flight at a time; a layout
that is fetched but not installed is not older than the installed one), `RoutesOK`
(a snapshot whose version is the current one was taken of the installed layout) and
`EventsOK` (once the event loop has looked, only the flight it found then may have
fetched a layout from before the event). `RoutedByCurrent` and `LayoutsMoveForward`
are action properties and follow step by step from `RoutesOK`, `FlightsOK` and
`EventsOK`.
Results: `TopologyInvariant`, `NoLeakedAdapterHolds`, `AppliedOnceHolds`,
`LayoutsMoveForwardHolds`, `RoutedByCurrentHolds`.

**TransactionsProofs.** `TxInv` has twenty parts beside the types. The first say who
holds what: `LocksOK`, `PlacesOK` and `ReadersOK` (a call holds the locks of its
method), `SessionsOK` (the only session that is not finished is the one at the gate),
`SpeakersOK`, `TransactionsOK` and `OwnerOK` (on which session each call speaks and
who owns it). The next are about the connection: `ConnOK`, `AwaitedOK` (an answer
goes to the call whose request it answers, or to nobody), `OrderOK` (no message of an
ended session is left) and `LastOK`: the request that ends a session, or starts its
MULTI, is the last one of it, because whoever could send another is kept out by
`legacyGate`, by `opMu` or by the closed flag (`Quiet`). The others are what both
sides know: `ServerOK` (WATCH and MULTI are of the session at the gate and nothing
else is on the way), `ReadyOK`, `TurnsOK`, `AcceptedOK` (an accepted request has had
its effect), `LegacyOK`, and `NotYetOK`, `QueueOK`, `ExecutedOK`, which follow an
acknowledgement from QUEUED into the answer of EXEC. None of the three properties is
inductive: that a released connection carries no MULTI needs the order of the wire,
and the order needs the locks. The bodies of the actions nest, so every action is
first shown to imply a flat description of its effect (the operators whose names end
in `Does`, lemma `Steps`), and each part of the invariant is proved from those.
Results: `TxInvariant`, `TransactionTypes`, `StateContained`, `OneOwner`,
`ClientAndServerAgree`.

**DeliveryProofs.** The buffered executor, the HTTP executor and the pipelines of the
topology executor implement `Delivery`. `BufferedInv` divides the order of admission:
commands that have left, the batch of the flusher who holds `flushMu`, the queue. The
server's log holds only commands that have left or are served, none twice; those that
may run late are uncertain (`ServedOK`, `OutcomesOK`), so every step of the executor
and of the server is a step of `Delivery` or changes nothing it sees. `OrderOK`
extends the order of successes to commands that may yet succeed, without which it is
not inductive. `HttpInv` says that nothing is executed before the request is sent and
that answers are true, where they answer the batch itself: of a batch that became a
GET it keeps that errors are true and nothing is executed twice, while a success counts
as unknown; `CredentialsStayHome` is inductive as it stands.

`BatchInv` follows the units of a pipeline. `WaveOK` and `TasksOK` say where they are:
behind the loop, in the wave, in one task, or still to come; two tasks share no key.
`FreshOK` and `AnsweredOK` say which of them have no answer yet and which have one.
`HistoryOK` is at-most-once: nothing in the servers' log is there twice, and what is
there without an answer to the caller has one in its task that is not "moved"; so
a task whose answers are all "moved" may be sent again, which is where the mutant
`SomeRefused` breaks it. `TrueOK` says that "ok" is true, `CountOK` the same of the
count of a scatter command. `StrandedRuns` adds to the log what a broken connection had
left; it concerns only units that are uncertain and not in the log yet, which
`HistoryOK` keeps of what is stranded. `SequenceOK` is the order of execution of
the other units.
`PipelineOrderKept` alone is not inductive: it lacks that nothing executed is of the
wave that waits or of a later command, and that for a unit of a task nothing of its
key outside the task is later. Actions are first reduced to their effect on loop,
tasks, log and answers (`Looks`, `Joins`, `Turns`, `Passes`, `WaveEnds`, `Begins`,
`Gathers`, `Replaces`, `Serves`, `Ends`), and each part of the invariant is preserved
by each effect. `TimesRun`, the mapping of `executed`, is a cardinality; by
`HistoryOK` it is 1 or 0, according to `Ran`. Of the planner the proof uses
only that its tasks divide the units, share no key and keep the order of the pipeline
(`Planned`).
Results: `BufferedInvariant`, `BufferedImplementsDelivery`, `BufferedOrder`,
`BufferedWithinBounds`, `HttpImplementsDelivery`, `HttpCredentials`, `PipelineInvariant`,
`BatchImplementsDelivery`, `PipelinesKept`, and for all of them together
`ExecutorsImplementDelivery` and `ExecutorsKeepBatches`.

**Induction over data.** Two operators are recursive functions on positions:
`Live` of `AutoBatch` and `BytesOf` of `Buffered`. What they compute is proved by
least counterexample: a nonempty set of numbers has a least element (`LeastNat`,
from the well-foundedness of the natural numbers), so the first position at which a
claim failed would have a predecessor at which it holds.

**Only model-checked.**

- all liveness properties (`EveryWaiterServed`, `EveryRequestReturns`,
  `NobodyHangs`, `EveryCallReturns`): fairness is beyond the proof system. The
  invariants above are the safety half of each: somebody is there to wake, answer
  or close;
- the conversions (`WireRoundTrips`, `KeysAndTimesFound`, `BuiltAsAsked`,
  `RoutedToItsFlow`): RECURSIVE operators, out of the prover's reach;
- `ResultsTrue`: the cutting of `NativePipeline` is a RECURSIVE operator, and what it
  computes for every pipeline is an induction over the ways of cutting it.

## 6. What is left out of the modelled parts

- `NativeConn`: connection-level error frames handed to all pending requests;
  `writeEncodeMu`, which only bounds memory; the event buffer; HELLO, TLS and
  authentication, which are one step of a dial that may fail.
  The credits and the session gate are modules of their own: in `NativeConn`
  waiting for a credit is a step that may take any time.
- `FlowController`: parsing of limits out of HELLO and WINDOW_UPDATE maps.
- `Frames`: servers that break the protocol, beyond exceeding a bound.
- `AutoBatch`: merging of key/value requests into MGET and MSET groups, and the
  direct path of blocking commands.
- `Topology`: endpoint policy, validation of SHARDS answers.
  An outdated node that answers SHARDS with an old layout is not modelled; the
  code accepts a lower epoch by design (`topology_regression_test.go:13`).
- `TopologyBatch`: queries over several shards, explicit routes, Close.
- `Transactions`: that a request given up makes its connection drain. The connection
  of the model may be used on or be lost, which covers both ends of a drain.
- `PubSub`: Close; connections are numbered through over all executors, since the
  code's stamp is the executor together with its own number.
- `Buffered`: the copy of an argument's memory, arguments being values here.
- `Http`: the JSON envelope and the checks of options; what a server does with a GET.
- `Workflow`, `QueueWorker`: decoding and validation of answers beyond their three
  classes (done, definitely refused, unknown); policies, FIFO checks and payloads;
  handlers that use their context from several goroutines at once.
- `Codec`: floating-point numbers are their eight bytes; reflection is reduced to
  the kinds of values it tells apart. The codecs of query results are left out.
- `KeyRouting`: the hash function, a constant function from texts to slots here.
- `FlowNative`: opcodes and request contexts; administration commands that are not
  FLOW commands.

**Not modelled.** `pubsub_decode.go`, the decoding of typed answers and of query
results, the query builder, and the checks of options (lengths, ranges, required
fields): they keep no state, do not depend on an order of events, and compare one
value with a table, which unit tests reach as well as a model would.
`cmd/` and `examples/` are programs that use the library.

## 7. Plan

Theorems worth proving next: `ResultsTrue`, with the cutting of `NativePipeline`
written as recursive functions on positions.

Worth modelling next: Close of a topology executor under a running pipeline, and
the merge of key/value requests in `AutoBatch`. Abstract specifications worth
stating: a counting semaphore per lane that `FlowController` implements, and a
queue that answers each request once and in order for `AutoBatch`.
