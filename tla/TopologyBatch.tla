---------------------------- MODULE TopologyBatch ----------------------------
(* A pipeline on the topology executor: pipelineDetailedUnlocked of            *)
(* topology_scatter.go, and the scatter commands of                            *)
(* topology_scatter_command.go, topology_scatter_retry.go and topology_kv.go.  *)
(*                                                                             *)
(* Routed commands are collected in a wave, planned on one snapshot of the     *)
(* layout.  A wave is flushed before every command that has no single route,   *)
(* and at the end: it is planned again while the layout has moved on, then its *)
(* groups, one for each leader, run concurrently.  A group whose commands were *)
(* all refused by a leader that is none any more is sent a second time, but    *)
(* only if it is the only group of its wave.  A scatter command (DEL, UNLINK,  *)
(* MGET, EXISTS, TOUCH) is one request for each leader of its keys; a refused  *)
(* one is planned once more on its own.  A request that was lost or given up   *)
(* stays behind on its old connection, where a server may come to it yet.      *)
(*                                                                             *)
(* Layouts are numbered.  `known' is the one the executor has, `epoch' the one *)
(* the servers use.  Other users of the executor refresh `known' at any time;  *)
(* how they do is the subject of Topology, and so is Close.                    *)
EXTENDS Naturals, Sequences, FiniteSets

CONSTANTS
    Keys,
    Leaders,
    NoRoute,            \* the leader of a slot the layout does not cover
    Layout,             \* layout number -> key -> leader; layout 0 covers nothing
    Pipelines,          \* the pipelines the caller may send
    MaxPlanning,        \* maxTopologyPlanningAttempts
    MaxTasks,           \* maxTopologyConcurrentTasks
    MaxEpoch,           \* bound on the layouts of the servers
    Longest             \* bound on the length of a pipeline

\* A command has one key ("routed", with `never' for nativeReplayNever), several
\* in different slots ("scatter"), or none ("control").  A `typed' scatter command
\* comes from the key/value store: while its keys have one leader it is a single
\* request, routed by its first key.
NoKey == "control"
Spoken ==
    [kind : {"routed"}, keys : {{k} : k \in Keys}, never : BOOLEAN, destructive : BOOLEAN,
     typed : BOOLEAN]
    \cup [kind : {"scatter"}, keys : (SUBSET Keys) \ {{}}, never : BOOLEAN, destructive : BOOLEAN,
          typed : BOOLEAN]
    \cup [kind : {"control"}, keys : {{}}, never : BOOLEAN, destructive : BOOLEAN, typed : BOOLEAN]

ASSUME BatchConstants ==
    /\ IsFiniteSet(Keys) /\ NoKey \notin Keys /\ NoRoute \notin Leaders
    /\ MaxEpoch \in Nat \ {0} /\ Longest \in Nat /\ MaxPlanning \in Nat /\ MaxTasks \in Nat
    /\ Layout \in [0..MaxEpoch -> [Keys -> Leaders \cup {NoRoute}]]
    /\ \A k \in Keys : Layout[0][k] = NoRoute
    /\ \A p \in Pipelines : p \in Seq(Spoken) /\ Len(p) <= Longest

VARIABLES
    pipeline,
    perShard,   \* WithTopologyCrossShardWritePolicy(CrossShardWritePerShard)
    known, epoch,
    where,      \* "route", "flush", "wave", "scatter", "gather", "end"
    index,      \* the command being looked at
    refreshed,  \* a lookup of this command has refreshed the layout
    wave,       \* commands collected; their order is that of the pipeline
    snap,       \* waveSnapshot: a layout number, or 0
    planning,   \* planning attempts of this flush
    tasks,      \* the running groups
    total,      \* keys acknowledged by the groups of the scatter command
    failed,     \* one of its groups has failed
    told,       \* the outcome of each unit: a command and one of its keys
    history,    \* the units executed by the servers, in order
    stranded    \* requests nobody waits for, which a server may still execute

batchVars == <<pipeline, perShard, known, epoch, where, index, refreshed, wave, snap, planning,
               tasks, total, failed, told, history, stranded>>

Units == (1..Longest) \X (Keys \cup {NoKey})
UnitsOf(i) == {i} \X (IF pipeline[i].kind = "control" THEN {NoKey} ELSE pipeline[i].keys)

Answers == {"ok", "moved", "suspect", "lost"}
Task == [kind : {"wave", "scatter", "typed"}, units : Seq(Units), leader : Leaders,
         snap : 1..MaxEpoch, single : BOOLEAN, first : BOOLEAN, origin : Leaders,
         st : {"new", "sent", "replan"}, answers : Seq(Answers)]
Stranded == [kind : {"wave", "scatter", "typed", "control"}, leader : Leaders, units : Seq(Units)]

BatchInit ==
    /\ pipeline \in Pipelines
    /\ perShard \in BOOLEAN
    /\ known \in {0, 1}
    /\ epoch = 1
    /\ where = "route"
    /\ index = 1
    /\ refreshed = FALSE
    /\ wave = {}
    /\ snap = 0
    /\ planning = 0
    /\ tasks = {}
    /\ total = 0
    /\ failed = FALSE
    /\ told = [u \in Units |-> "none"]
    /\ history = <<>>
    /\ stranded = {}

-----------------------------------------------------------------------------

Command == pipeline[index]
TheKey(i) == CHOOSE k \in pipeline[i].keys : TRUE
Routes(n, keys) == \A k \in keys : Layout[n][k] # NoRoute
WaveKeys == {TheKey(i) : i \in wave}

Learn(units, what) == [u \in Units |-> IF u \in units THEN what ELSE told[u]]
WaveUnits == UNION {UnitsOf(i) : i \in wave}

RangeOf(s) == {s[n] : n \in DOMAIN s}

\* Numbers in ascending order.
Ascending(S) ==
    CHOOSE s \in [1..Cardinality(S) -> S] :
        RangeOf(s) = S /\ \A m, n \in DOMAIN s : m < n => s[m] < s[n]

\* The commands of a wave that go to one leader, in order, and its task.
GroupUnits(n, l) ==
    LET mine == Ascending({i \in wave : Layout[n][TheKey(i)] = l})
    IN [m \in DOMAIN mine |-> <<mine[m], TheKey(mine[m])>>]
NewTask(kind, units, l, n, single, first, origin) ==
    [kind |-> kind, units |-> units, leader |-> l, snap |-> n, single |-> single,
     first |-> first, origin |-> origin, st |-> "new", answers |-> <<>>]
WaveLeaders(n) == {Layout[n][k] : k \in WaveKeys}
WaveTasks(n) ==
    {NewTask("wave", GroupUnits(n, l), l, n, Cardinality(WaveLeaders(n)) = 1, TRUE, l)
     : l \in WaveLeaders(n)}

\* planScatterRoutes: the groups of some keys of the command, each with its keys
\* in some fixed order.
Order(keys) ==
    CHOOSE s \in [1..Cardinality(keys) -> keys] :
        RangeOf(s) = keys /\ \A m, n \in DOMAIN s : m < n => s[m] # s[n]
ScatterUnits(n, keys, l) ==
    LET mine == Order({k \in keys : Layout[n][k] = l})
    IN [m \in DOMAIN mine |-> <<index, mine[m]>>]
ScatterKind(n, keys, first) ==
    IF first /\ Command.typed /\ Cardinality({Layout[n][k] : k \in keys}) = 1
    THEN "typed" ELSE "scatter"
ScatterTasks(n, keys, first, origin) ==
    {NewTask(ScatterKind(n, keys, first), ScatterUnits(n, keys, l), l, n, FALSE, first,
             IF first THEN l ELSE origin)
     : l \in {Layout[n][k] : k \in keys}}

\* A command that writes goes to several shards only if that was asked for.
CrossShardAllowed(n, keys) ==
    Cardinality({Layout[n][k] : k \in keys}) = 1 \/ perShard \/ ~ Command.destructive

-----------------------------------------------------------------------------
(* The loop over the commands.                                                *)

ToNext == index' = index + 1 /\ refreshed' = FALSE

\* The command joins the wave, which takes the current layout if it has none.
Collect ==
    /\ where = "route" /\ index <= Len(pipeline) /\ Command.kind = "routed"
    /\ LET n == IF snap = 0 THEN known ELSE snap
       IN /\ n # 0
          /\ Routes(n, Command.keys)
          /\ snap' = n
    /\ wave' = wave \cup {index}
    /\ ToNext
    /\ UNCHANGED <<pipeline, perShard, known, epoch, where, planning, tasks, total, failed,
                   told, history, stranded>>

\* No route in the current layout: it is refreshed once.
CollectRefreshes ==
    /\ where = "route" /\ index <= Len(pipeline) /\ Command.kind = "routed"
    /\ snap = 0
    /\ ~ Routes(known, Command.keys) /\ ~ refreshed
    /\ \/ known' = epoch /\ refreshed' = TRUE /\ UNCHANGED <<index, told>>
       \/ ToNext /\ told' = Learn(UnitsOf(index), "not") /\ UNCHANGED known
    /\ UNCHANGED <<pipeline, perShard, epoch, where, wave, snap, planning, tasks, total, failed,
                   history, stranded>>

\* No route after all, or none in the layout of the wave, which is still current.
CollectFails ==
    /\ where = "route" /\ index <= Len(pipeline) /\ Command.kind = "routed"
    /\ ~ Routes(known, Command.keys)
    /\ IF snap = 0 THEN refreshed ELSE snap = known
    /\ told' = Learn(UnitsOf(index), "not")
    /\ ToNext
    /\ UNCHANGED <<pipeline, perShard, known, epoch, where, wave, snap, planning, tasks, total,
                   failed, history, stranded>>

StaleLookup == snap # 0 /\ ~ Routes(snap, Command.keys) /\ snap # known

\* The wave is flushed: its layout is no longer current and has no route for
\* this command, the command has no single route, or there is none left.
Flush ==
    /\ where = "route"
    /\ IF index > Len(pipeline) THEN TRUE ELSE Command.kind # "routed" \/ StaleLookup
    /\ wave # {}
    /\ where' = "flush"
    /\ planning' = 0
    /\ UNCHANGED <<pipeline, perShard, known, epoch, index, refreshed, wave, snap, tasks, total,
                   failed, told, history, stranded>>

\* flushRoutedWave does nothing without groups, and the snapshot stays.  The
\* lookup that follows a stale snapshot captures the layout anew.
FlushNothing ==
    /\ where = "route" /\ wave = {}
    /\ \/ index > Len(pipeline) /\ where' = "end" /\ UNCHANGED snap
       \/ index <= Len(pipeline) /\ Command.kind # "routed" /\ where' = "scatter" /\ UNCHANGED snap
       \/ /\ index <= Len(pipeline) /\ Command.kind = "routed" /\ StaleLookup
          /\ snap' = 0 /\ UNCHANGED where
    /\ UNCHANGED <<pipeline, perShard, known, epoch, index, refreshed, wave, planning, tasks,
                   total, failed, told, history, stranded>>

\* After a flush the loop is where it was, with an empty wave.
WaveOver == wave' = {} /\ snap' = 0 /\ where' = "route"

\* The layout has moved on: plan again, at most MaxPlanning times.
Replan ==
    /\ where = "flush" /\ snap # known /\ planning < MaxPlanning
    /\ Routes(known, WaveKeys)
    /\ snap' = known
    /\ planning' = planning + 1
    /\ UNCHANGED <<pipeline, perShard, known, epoch, where, index, refreshed, wave, tasks,
                   total, failed, told, history, stranded>>

PlanningFails ==
    /\ where = "flush" /\ snap # known
    /\ planning = MaxPlanning \/ ~ Routes(known, WaveKeys)
    /\ told' = Learn(WaveUnits, "not")
    /\ WaveOver
    /\ UNCHANGED <<pipeline, perShard, known, epoch, index, refreshed, planning, tasks, total,
                   failed, history, stranded>>

Launch ==
    /\ where = "flush" /\ snap = known
    /\ tasks' = WaveTasks(snap)
    /\ where' = "wave"
    /\ UNCHANGED <<pipeline, perShard, known, epoch, index, refreshed, wave, snap, planning,
                   total, failed, told, history, stranded>>

WaveDone ==
    /\ where = "wave" /\ tasks = {}
    /\ WaveOver
    /\ UNCHANGED <<pipeline, perShard, known, epoch, index, refreshed, planning, tasks, total,
                   failed, told, history, stranded>>

-----------------------------------------------------------------------------
(* The tasks.                                                                 *)

Put(t, new) == tasks' = (tasks \ {t}) \cup new
Active == {t \in tasks : t.st # "new" \/ ~ t.first}
LoopUnchanged == UNCHANGED <<pipeline, perShard, where, index, refreshed, wave, snap, planning>>
NoCount == UNCHANGED <<total, failed>>

\* What the caller learns of a unit from the server's answer to it.
AnswerTo(t, u) == t.answers[CHOOSE m \in DOMAIN t.units : t.units[m] = u]
Told(a) == IF a = "ok" THEN "ok" ELSE IF a = "moved" THEN "not" ELSE "unknown"

\* A task ends without an answer: none of its units has been executed.
Fails(t) ==
    /\ Put(t, {})
    /\ told' = Learn(RangeOf(t.units), "not")
    /\ failed' = (failed \/ t.kind # "wave")
    /\ UNCHANGED total

\* runBoundedTopologyTasks starts a task; adapterForTopologyRoute finds the
\* layout it was planned on current, or not.
Start(t) ==
    /\ t.st = "new"
    /\ t.first => Cardinality({a.origin : a \in Active}) < MaxTasks
    /\ \/ /\ t.snap = known
          /\ Put(t, {[t EXCEPT !.st = "sent"]})
          /\ NoCount /\ UNCHANGED told
       \/ t.snap # known /\ Fails(t)
    /\ LoopUnchanged /\ UNCHANGED <<known, epoch, history, stranded>>

Served(t) == Len(t.answers) = Len(t.units)
Owner(l, u) == IF u[2] = NoKey THEN TRUE ELSE Layout[epoch][u[2]] = l
Replies(t, answers) == Put(t, {[t EXCEPT !.answers = @ \o answers]})

\* The leader serves the next command of a group, or a scatter request at once.
\* It refuses what is not its own.  An error that does not say "safe to retry"
\* may come before or after the execution.
ServeTask(t) ==
    /\ t.st = "sent" /\ ~ Served(t)
    /\ LET n == IF t.kind = "wave" THEN 1 ELSE Len(t.units)
           us == SubSeq(t.units, Len(t.answers) + 1, Len(t.answers) + n)
           all(a) == [m \in 1..n |-> a]
           mine == \A u \in RangeOf(us) : Owner(t.leader, u)
       IN \/ mine /\ Replies(t, all("ok")) /\ history' = history \o us
          \/ ~ mine /\ Replies(t, all("moved")) /\ UNCHANGED history
          \/ Replies(t, all("suspect")) /\ (UNCHANGED history \/ (mine /\ history' = history \o us))
    /\ LoopUnchanged /\ NoCount /\ UNCHANGED <<known, epoch, told, stranded>>

\* What is left of a request when nobody waits for it any more.
Strand(kind, leader, units) ==
    IF units = <<>> THEN {} ELSE {[kind |-> kind, leader |-> leader, units |-> units]}

\* The connection is lost, or the time of the group is over: there is no frame that
\* cancels a request, the connection is only drained, and what comes next goes out on
\* another one.  Some of the commands behind have been executed, and the others may be
\* at any time, or never.
Break(t) ==
    /\ t.st = "sent" /\ ~ Served(t)
    /\ LET from == Len(t.answers) + 1
       IN /\ Replies(t, [m \in 1..(Len(t.units) - Len(t.answers)) |-> "lost"])
          /\ \E to \in from - 1 .. Len(t.units) :
               /\ t.kind # "wave" => to \in {from - 1, Len(t.units)}
               /\ \A m \in from..to : Owner(t.leader, t.units[m])
               /\ history' = history \o SubSeq(t.units, from, to)
               /\ stranded' = stranded \cup
                    Strand(t.kind, t.leader, SubSeq(t.units, to + 1, Len(t.units)))
    /\ LoopUnchanged /\ NoCount /\ UNCHANGED <<known, epoch, told>>

RouteError(t) == \E a \in RangeOf(t.answers) : a # "ok"

\* Mutant: one refused command is enough to replay the group.
SomeRefused(t) == "moved" \in RangeOf(t.answers)

AllRefused(t) == RangeOf(t.answers) = {"moved"}
ReplayAllowed(t) == \A u \in RangeOf(t.units) : ~ pipeline[u[1]].never

\* topologyPipelineRouteDisposition and the switch after it: may this group be
\* sent again?
MayRetry(t) ==
    /\ t.first /\ AllRefused(t)
    /\ t.kind = "wave" => t.single /\ ReplayAllowed(t)

\* A refresh for a retry that succeeds.
RefreshToRetry(t) ==
    /\ t.st = "sent" /\ Served(t) /\ MayRetry(t)
    /\ known' = epoch
    /\ Put(t, {[t EXCEPT !.st = "replan"]})
    /\ LoopUnchanged /\ NoCount /\ UNCHANGED <<epoch, told, history, stranded>>

\* The caller's context ends before the second attempt.
ExpireTask(t) ==
    /\ t.st = "sent" /\ Served(t) /\ MayRetry(t)
    /\ Put(t, {})
    /\ told' = Learn(RangeOf(t.units), "unknown")
    /\ failed' = (failed \/ t.kind # "wave")
    /\ LoopUnchanged /\ UNCHANGED <<known, epoch, total, history, stranded>>

\* The results stand.  A route error refreshes the layout, if it can.
Settle(t) ==
    /\ t.st = "sent" /\ Served(t)
    /\ \/ known' = known
       \/ known' = epoch /\ RouteError(t) /\ (t.first \/ t.kind = "scatter")
    /\ MayRetry(t) => known' = known
    /\ Put(t, {})
    /\ told' = [u \in Units |-> IF u \in RangeOf(t.units) THEN Told(AnswerTo(t, u)) ELSE told[u]]
    /\ failed' = (failed \/ (t.kind # "wave" /\ RouteError(t)))
    /\ total' = IF t.kind = "wave" \/ RouteError(t) THEN total ELSE total + Len(t.units)
    /\ LoopUnchanged /\ UNCHANGED <<epoch, history, stranded>>

\* A group that may be sent again is planned again on the new layout, and has to
\* be one group still; a typed request follows its first key; the keys of a
\* scatter request are planned on their own.
RetryPlan(t) ==
    /\ t.st = "replan"
    /\ LET keys == IF t.kind = "typed" THEN {t.units[1][2]} ELSE {u[2] : u \in RangeOf(t.units)}
           leaders == {Layout[known][k] : k \in keys}
           planned == /\ Routes(known, keys)
                      /\ t.kind = "wave" => Cardinality(leaders) = 1
                      /\ t.kind = "scatter" => CrossShardAllowed(known, keys)
       IN \/ ~ planned /\ Fails(t)
          \/ /\ planned
             /\ Put(t, IF t.kind = "scatter" THEN ScatterTasks(known, keys, FALSE, t.origin)
                       ELSE {[t EXCEPT !.leader = CHOOSE l \in leaders : TRUE, !.snap = known,
                                       !.first = FALSE, !.st = "new", !.answers = <<>>]})
             /\ NoCount /\ UNCHANGED told
    /\ LoopUnchanged /\ UNCHANGED <<known, epoch, history, stranded>>

-----------------------------------------------------------------------------
(* Commands without a single route.                                           *)

\* scatterCommandAttempt, or the control endpoint.
Scatter ==
    /\ where = "scatter" /\ Command.kind = "scatter"
    /\ Routes(known, Command.keys)
    /\ IF CrossShardAllowed(known, Command.keys)
       THEN /\ tasks' = ScatterTasks(known, Command.keys, TRUE, CHOOSE l \in Leaders : TRUE)
            /\ where' = "gather" /\ total' = 0 /\ failed' = FALSE
            /\ UNCHANGED <<index, refreshed, told>>
       ELSE /\ told' = Learn(UnitsOf(index), "not")
            /\ where' = "route" /\ ToNext
            /\ UNCHANGED <<tasks, total, failed>>
    /\ UNCHANGED <<pipeline, perShard, known, epoch, wave, snap, planning, history, stranded>>

ScatterRefreshes ==
    /\ where = "scatter" /\ Command.kind = "scatter"
    /\ ~ Routes(known, Command.keys)
    /\ \/ /\ ~ refreshed
          /\ known' = epoch /\ refreshed' = TRUE
          /\ UNCHANGED <<where, index, told>>
       \/ /\ told' = Learn(UnitsOf(index), "not")
          /\ where' = "route" /\ ToNext
          /\ UNCHANGED known
    /\ UNCHANGED <<pipeline, perShard, epoch, wave, snap, planning, tasks, total, failed,
                   history, stranded>>

\* The count, or TopologyPartialWriteError with the count as Succeeded.
Gather ==
    /\ where = "gather" /\ tasks = {}
    /\ where' = "route" /\ ToNext
    /\ UNCHANGED <<pipeline, perShard, known, epoch, wave, snap, planning, tasks, total, failed,
                   told, history, stranded>>

\* A command for the control endpoint.
ControlCommand ==
    /\ where = "scatter" /\ Command.kind = "control"
    /\ \/ /\ history' = Append(history, <<index, NoKey>>) /\ told' = Learn(UnitsOf(index), "ok")
          /\ UNCHANGED stranded
       \/ /\ told' = Learn(UnitsOf(index), "unknown")
          /\ \/ history' = Append(history, <<index, NoKey>>) /\ UNCHANGED stranded
             \/ /\ UNCHANGED history
                /\ \E l \in Leaders :
                     stranded' = stranded \cup Strand("control", l, <<<<index, NoKey>>>>)
       \/ told' = Learn(UnitsOf(index), "not") /\ UNCHANGED <<history, stranded>>
    /\ where' = "route" /\ ToNext
    /\ UNCHANGED <<pipeline, perShard, known, epoch, wave, snap, planning, tasks, total,
                   failed>>

-----------------------------------------------------------------------------
(* The rest of the world.                                                     *)

\* A server comes to the next command of a request that nobody waits for, or to all
\* keys of a scatter request, and executes it, if it still owns the key, or not.
StrandedRuns(c) ==
    /\ LET n == IF c.kind = "wave" THEN 1 ELSE Len(c.units)
           us == SubSeq(c.units, 1, n)
       IN /\ \/ UNCHANGED history
             \/ history' = history \o us /\ \A u \in RangeOf(us) : Owner(c.leader, u)
          /\ stranded' = (stranded \ {c}) \cup
               Strand(c.kind, c.leader, SubSeq(c.units, n + 1, Len(c.units)))
    /\ LoopUnchanged /\ NoCount /\ UNCHANGED <<known, epoch, told, tasks>>

\* The servers change the layout; another user of the executor installs it.
LayoutChanges ==
    /\ where # "end" /\ epoch < MaxEpoch
    /\ epoch' = epoch + 1
    /\ UNCHANGED <<known, history, stranded, told, tasks>> /\ LoopUnchanged /\ NoCount

OtherRefresh ==
    /\ where # "end" /\ known # epoch
    /\ known' = epoch
    /\ UNCHANGED <<epoch, history, stranded, told, tasks>> /\ LoopUnchanged /\ NoCount

BatchNext ==
    \/ Collect \/ CollectRefreshes \/ CollectFails
    \/ Flush \/ FlushNothing \/ Replan \/ PlanningFails \/ Launch \/ WaveDone
    \/ Scatter \/ ScatterRefreshes \/ Gather \/ ControlCommand
    \/ LayoutChanges \/ OtherRefresh
    \/ \E t \in tasks : \/ Start(t) \/ ServeTask(t) \/ Break(t)
                        \/ RefreshToRetry(t) \/ ExpireTask(t) \/ Settle(t) \/ RetryPlan(t)
    \/ \E c \in stranded : StrandedRuns(c)

BatchSpec == BatchInit /\ [][BatchNext]_batchVars

BatchTypeOK ==
    /\ {known, epoch} \subseteq 0..MaxEpoch
    /\ index \in 1..(Len(pipeline) + 1)
    /\ tasks \subseteq Task
    /\ RangeOf(history) \subseteq Units
    /\ stranded \subseteq Stranded

-----------------------------------------------------------------------------
(* Properties.                                                                *)

\* Each command, and each key of a scatter command, is executed at most once,
\* answered once and truthfully: however often a wave was planned, refused and
\* sent again, an error that stands for "not dispatched" or "refused" means that
\* no server has executed it.
TimesRun == [u \in Units |-> Cardinality({n \in DOMAIN history : history[n] = u})]
BatchDelivery == INSTANCE Delivery WITH executed <- TimesRun, outcome <- told
BatchImplements == BatchDelivery!Spec

\* The caller has no answer to this unit, or will get none.
Uncertain(u) ==
    \/ told[u] = "unknown"
    \/ \E t \in tasks : \E n \in 1..Len(t.answers) : t.units[n] = u /\ t.answers[n] = "lost"

\* Two commands of a pipeline on the same key are executed in the order of the
\* pipeline, and a command without a key after all before it: waves are flushed
\* before scatter commands, and retries keep the order.  Only a command whose outcome
\* is not known may come late: the loop goes on when the time of a group is over,
\* and a server may execute the old command after a newer one.
PipelineOrderKept ==
    \A m, n \in DOMAIN history :
        /\ m < n
        /\ history[m][2] = history[n][2] \/ NoKey \in {history[m][2], history[n][2]}
        => history[m][1] <= history[n][1] \/ Uncertain(history[n])

\* The count of a scatter command, and Succeeded of a partial failure, is the
\* number of keys whose groups have answered; without a failure it is all.
SucceededIsTrue ==
    where = "gather" /\ tasks = {} =>
        /\ total = Cardinality({u \in UnitsOf(index) : told[u] = "ok"})
        /\ ~ failed => total = Cardinality(UnitsOf(index))
        /\ total <= Cardinality({u \in UnitsOf(index) : TimesRun[u] = 1})

\* Every command of the pipeline has its answer at the end.
AllAnswered == where = "end" => \A i \in DOMAIN pipeline : \A u \in UnitsOf(i) : told[u] # "none"
=============================================================================
