------------------------------ MODULE Topology ------------------------------
(* TopologyNativeExecutor: topology.go, topology_refresh.go,                  *)
(* topology_adapter.go, topology_snapshot.go and topology_reroute.go.         *)
(*                                                                            *)
(* Commands are routed by a snapshot of the learned layout to the adapter (a  *)
(* NativeExecutor) of the endpoint that leads the key's shard.  The layout is *)
(* learned by single-flight SHARDS requests: on first use, after an error     *)
(* that makes it suspect, and after a TOPOLOGY_CHANGED event.                 *)
(*                                                                            *)
(* Callers, the event loop and refresh flights are processes.  Every section  *)
(* of e.mu or e.refreshMu is one action; a layout is immutable, so looking a  *)
(* key up in a snapshot belongs to the section that captured it.  The servers *)
(* are external: the layout changes, and an endpoint asked for SHARDS answers *)
(* with the current one.                                                      *)
EXTENDS Integers, FiniteSets

CONSTANTS
    Callers,      \* goroutines that call Do, each with a key of its own
    ReplayNever,  \* those whose command is nativeReplayNever
    Flights,      \* slots for topologyRefresh values: a bound on those in use
    EventLoop,         \* topologyEventRefreshLoop
    Endpoints,
    Seeds,        \* endpoints of the seed URLs
    Adapters,     \* NativeExecutors: a bound on those in use
    Layout,       \* Layout[n][c]: the leader of caller c's key in the n-th layout
    MaxPlanning,  \* maxTopologyPlanningAttempts
    MaxCalls      \* bound on the calls of each caller

Epochs == DOMAIN Layout
Refreshers == Callers \cup {EventLoop}
Procs == Refreshers \cup Flights
None == 0
NoSnapshot == -1

ASSUME TopologyConstants ==
    /\ IsFiniteSet(Procs) /\ EventLoop \notin Callers \cup Flights /\ Callers \cap Flights = {}
    /\ ReplayNever \subseteq Callers
    /\ Seeds # {} /\ Seeds \subseteq Endpoints /\ None \notin Endpoints \cup Flights \cup Adapters
    /\ IsFiniteSet(Epochs) /\ Epochs = 1..Cardinality(Epochs) /\ 1 \in Epochs
    /\ \A n \in Epochs : Layout[n] \in [Callers -> Endpoints]
    /\ MaxPlanning \in Nat /\ MaxCalls \in Nat

VARIABLES
    serverEpoch,      \* the layout the servers are in
    \* the executor, under e.mu
    closed,           \* e.closed, and eventContext is cancelled
    topology,         \* e.topology: the number of the installed layout, 0 if empty
    version,          \* e.topologyVersion
    lastSuccessful,   \* e.lastSuccessfulURL
    adapters,         \* e.adapters
    retiringAdapters, \* e.retiringAdapters
    adapterState,     \* of each NativeExecutor; an identity not in use is "closed"
    closePc, toClose, \* Close, and its adapterSet
    \* refreshes, under e.refreshMu
    refreshInFlight,  \* e.refreshInFlight
    waiters, abandoned, succeeded,   \* of each topologyRefresh
    fetched, dropped, \* of each flight: the layout it got, the adapters it retires
    \* events
    signal,           \* e.refreshSignals, a channel of one
    announced,        \* the newest layout a delivered event spoke of
    handled,          \* announced, when the event loop last took the signal
    \* processes
    pc,
    snap,             \* the version of the snapshot in use, or NoSnapshot
    target, held,     \* the endpoint chosen and the adapter found for it
    cands,            \* candidate URLs not tried yet
    awaits,           \* the flight a refresher waits for
    why,              \* what a refresher does afterwards
    tries, refreshed, attempt,       \* routeData's loop, doUnlocked's loop
    cancelled,        \* ctx.Done() of a call
    calls,            \* how many calls were begun
    applied           \* how many times the servers may have applied the command

exec == <<closed, topology, version, lastSuccessful, adapters, retiringAdapters>>
flight == <<refreshInFlight, waiters, abandoned, succeeded, fetched, dropped>>
events == <<signal, announced, handled>>
route == <<snap, target, held, cands>>
call == <<tries, refreshed, attempt, cancelled, calls, applied>>
wait == <<awaits, why>>
closing == <<closePc, toClose>>
vars == <<serverEpoch, exec, adapterState, closing, flight, events, pc, route, wait, call>>

PCs == {"idle", "plan", "verify", "pick", "lookup", "insert", "recheck", "send", "inflight",
        "refresh", "refreshWait", "refreshAbandoned", "done",
        "select", "look", "waitFlight",
        "begin", "install", "retire", "finish"}

\* The types, by what belongs together.
ExecTypes ==
    /\ serverEpoch \in Epochs /\ topology \in Epochs \cup {0} /\ version \in Nat
    /\ closed \in BOOLEAN /\ signal \in BOOLEAN
    /\ lastSuccessful \in Endpoints \cup {None}
    /\ closePc \in {"open", "adapters", "wait", "returned"}
    /\ announced \in Epochs /\ handled \in Epochs

AdapterTypes ==
    /\ adapters \in [Endpoints -> Adapters \cup {None}]
    /\ retiringAdapters \subseteq Adapters /\ toClose \subseteq Adapters
    /\ adapterState \in [Adapters -> {"live", "retiring", "closed"}]

FlightTypes ==
    /\ refreshInFlight \in Flights \cup {None}
    /\ waiters \in [Flights -> Nat]
    /\ abandoned \in [Flights -> BOOLEAN] /\ succeeded \in [Flights -> BOOLEAN]
    /\ fetched \in [Flights -> Epochs \cup {0}] /\ dropped \in [Flights -> SUBSET Adapters]

PcTypes == pc \in [Procs -> PCs]

RouteTypes ==
    /\ snap \in [Procs -> Nat \cup {NoSnapshot}]
    /\ target \in [Procs -> Endpoints \cup {None}]
    /\ held \in [Procs -> Adapters \cup {None}]
    /\ cands \in [Procs -> SUBSET Endpoints]

WaitTypes ==
    /\ awaits \in [Refreshers -> Flights \cup {None}]
    /\ why \in [Refreshers -> {"plan", "replay", "giveUp", "event"}]

CallTypes ==
    /\ tries \in [Callers -> 0..MaxPlanning] /\ attempt \in [Callers -> 0..1]
    /\ refreshed \in [Callers -> BOOLEAN] /\ cancelled \in [Callers -> BOOLEAN]
    /\ applied \in [Callers -> Nat] /\ calls \in [Callers -> 0..MaxCalls]

TypeOK ==
    /\ ExecTypes /\ AdapterTypes /\ FlightTypes /\ PcTypes /\ RouteTypes /\ WaitTypes
    /\ CallTypes

\* NewTopologyNativeExecutor.
Init ==
    /\ serverEpoch = 1
    /\ closed = FALSE /\ topology = 0 /\ version = 0 /\ lastSuccessful = None
    /\ adapters = [e \in Endpoints |-> None]
    /\ retiringAdapters = {}
    /\ adapterState = [a \in Adapters |-> "closed"]
    /\ closePc = "open" /\ toClose = {}
    /\ refreshInFlight = None
    /\ waiters = [f \in Flights |-> 0]
    /\ abandoned = [f \in Flights |-> FALSE] /\ succeeded = [f \in Flights |-> FALSE]
    /\ fetched = [f \in Flights |-> 0] /\ dropped = [f \in Flights |-> {}]
    /\ signal = FALSE /\ announced = 1 /\ handled = 1
    /\ pc = [p \in Procs |-> IF p = EventLoop THEN "select" ELSE "idle"]
    /\ snap = [p \in Procs |-> NoSnapshot]
    /\ target = [p \in Procs |-> None] /\ held = [p \in Procs |-> None]
    /\ cands = [p \in Procs |-> {}]
    /\ awaits = [p \in Refreshers |-> None]
    /\ why = [p \in Refreshers |-> IF p = EventLoop THEN "event" ELSE "plan"]
    /\ tries = [c \in Callers |-> 0] /\ attempt = [c \in Callers |-> 0]
    /\ refreshed = [c \in Callers |-> FALSE] /\ cancelled = [c \in Callers |-> FALSE]
    /\ applied = [c \in Callers |-> 0] /\ calls = [c \in Callers |-> 0]

Goto(p, label) == pc' = [pc EXCEPT ![p] = label]

EndpointsOf(n) == IF n = 0 THEN {} ELSE {Layout[n][c] : c \in Callers}

\* refreshCandidateURLs; every learned endpoint passes the endpoint policy.
Candidates ==
    Seeds \cup EndpointsOf(topology) \cup (IF lastSuccessful = None THEN {} ELSE {lastSuccessful})

\* routingSnapshotErrorLocked, and routingSnapshotCurrent's negation.
Unusable(p) == closed \/ (snap[p] # NoSnapshot /\ snap[p] # version)

\* A failed lookup: the next candidate URL, or the error is returned.
Failed(p) == IF snap[p] = NoSnapshot THEN "pick" ELSE "done"

----------------------------------------------------------------------------
\* doUnlocked begins, with a command that has a routing key or with one that has
\* none: controlDo, which uses no snapshot.
Begin(c) ==
    /\ pc[c] = "idle" /\ calls[c] < MaxCalls
    /\ calls' = [calls EXCEPT ![c] = @ + 1]
    /\ \/ Goto(c, IF closed THEN "done" ELSE "plan") /\ UNCHANGED cands
       \/ /\ ~closed
          /\ Goto(c, "pick")
          /\ cands' = [cands EXCEPT ![c] = Candidates]
    /\ UNCHANGED <<serverEpoch, exec, adapterState, closing, flight, events,
                   snap, target, held, wait, tries, refreshed, attempt, cancelled, applied>>

\* Do returns, and its local variables end; the caller may call again.
Return(c) ==
    /\ pc[c] = "done"
    /\ Goto(c, "idle")
    /\ snap' = [snap EXCEPT ![c] = NoSnapshot]
    /\ target' = [target EXCEPT ![c] = None]
    /\ cands' = [cands EXCEPT ![c] = {}]
    /\ why' = [why EXCEPT ![c] = "plan"]
    /\ tries' = [tries EXCEPT ![c] = 0] /\ attempt' = [attempt EXCEPT ![c] = 0]
    /\ refreshed' = [refreshed EXCEPT ![c] = FALSE]
    /\ cancelled' = [cancelled EXCEPT ![c] = FALSE]
    /\ applied' = [applied EXCEPT ![c] = 0]
    /\ UNCHANGED <<serverEpoch, exec, adapterState, closing, flight, events, held, awaits, calls>>

Cancel(c) ==
    /\ pc[c] \notin {"idle", "done"} /\ ~cancelled[c]
    /\ cancelled' = [cancelled EXCEPT ![c] = TRUE]
    /\ UNCHANGED <<serverEpoch, exec, adapterState, closing, flight, events, pc, route, wait,
                   tries, refreshed, attempt, calls, applied>>

\* routeData: captureRoutingTopology and the lookup in that snapshot.  A key
\* without a route refreshes once, unless the layout has changed since.
Plan(c) ==
    /\ pc[c] = "plan"
    /\ \/ /\ closed \/ tries[c] = MaxPlanning
          /\ Goto(c, "done")
          /\ UNCHANGED <<snap, target, why, tries, refreshed>>
       \/ /\ ~closed /\ tries[c] < MaxPlanning
          /\ tries' = [tries EXCEPT ![c] = @ + 1]
          /\ snap' = [snap EXCEPT ![c] = version]
          /\ IF topology # 0
             THEN /\ target' = [target EXCEPT ![c] = Layout[topology][c]]
                  /\ Goto(c, "verify")
                  /\ UNCHANGED <<why, refreshed>>
             ELSE /\ Goto(c, IF refreshed[c] THEN "done" ELSE "refresh")
                  /\ why' = [why EXCEPT ![c] = "plan"]
                  /\ refreshed' = [refreshed EXCEPT ![c] = TRUE]
                  /\ UNCHANGED target
    /\ UNCHANGED <<serverEpoch, exec, adapterState, closing, flight, events,
                   held, cands, awaits, attempt, cancelled, calls, applied>>

Verify(c) ==
    /\ pc[c] = "verify"
    /\ Goto(c, IF Unusable(c) THEN "plan" ELSE "lookup")
    /\ UNCHANGED <<serverEpoch, exec, adapterState, closing, flight, events, route, wait, call>>

----------------------------------------------------------------------------
\* The loop over candidate URLs of controlAdapter and refreshTopologyOnce, the
\* last successful one first, and the loop of warmTopologyConnections.
Pick(p) ==
    /\ pc[p] = "pick"
    /\ \/ \E e \in cands[p] :
             /\ lastSuccessful \in cands[p] => e = lastSuccessful
             /\ target' = [target EXCEPT ![p] = e]
             /\ cands' = [cands EXCEPT ![p] = @ \ {e}]
             /\ Goto(p, "lookup")
       \/ /\ \/ cands[p] = {}
             \/ p \in Flights /\ fetched[p] # 0 /\ (closed \/ abandoned[p])
          /\ Goto(p, IF p \in Flights THEN "finish" ELSE "done")
          /\ UNCHANGED <<target, cands>>
    /\ UNCHANGED <<serverEpoch, exec, adapterState, closing, flight, events,
                   snap, held, wait, call>>

\* An identity for a new adapter: nobody refers to the one that had it before.
Fresh(a) ==
    /\ adapterState[a] = "closed"
    /\ a \notin retiringAdapters \cup toClose
    /\ \A p \in Procs : held[p] # a
    /\ \A f \in Flights : a \notin dropped[f]

\* adapterForEndpointAtSnapshot and adapterForURL up to the creation of an
\* adapter, which connects to nothing yet.  For a seed the code looks at the
\* snapshot in a section of its own just before; Recheck repeats that look.
Lookup(p) ==
    LET existing == adapters[target[p]] IN
    /\ pc[p] = "lookup"
    /\ \/ /\ Unusable(p)
          /\ Goto(p, Failed(p))
          /\ UNCHANGED <<held, adapterState>>
       \/ /\ ~Unusable(p) /\ existing # None
          /\ held' = [held EXCEPT ![p] = existing]
          /\ Goto(p, IF target[p] \in Seeds THEN "recheck" ELSE "send")
          /\ UNCHANGED adapterState
       \/ /\ ~Unusable(p) /\ existing = None
          /\ \E a \in Adapters :
                /\ Fresh(a) /\ \A b \in Adapters : Fresh(b) => a <= b
                /\ held' = [held EXCEPT ![p] = a]
                /\ adapterState' = [adapterState EXCEPT ![a] = "live"]
          /\ Goto(p, "insert")
    /\ UNCHANGED <<serverEpoch, exec, closing, flight, events,
                   snap, target, cands, wait, call>>

\* Mutant: the snapshot is not looked at again before the adapter is cached.
InsertUnchecked(p) ==
    LET existing == adapters[target[p]] IN
    /\ pc[p] = "insert"
    /\ adapters' = IF existing = None THEN [adapters EXCEPT ![target[p]] = held[p]] ELSE adapters
    /\ adapterState' =
          IF existing = None THEN adapterState ELSE [adapterState EXCEPT ![held[p]] = "closed"]
    /\ held' = IF existing = None THEN held ELSE [held EXCEPT ![p] = existing]
    /\ Goto(p, IF target[p] \in Seeds THEN "recheck" ELSE "send")
    /\ UNCHANGED <<serverEpoch, closed, topology, version, lastSuccessful, retiringAdapters,
                   closing, flight, events, snap, target, cands, wait, call>>

\* The section that caches the new adapter, or closes it: the executor was
\* closed, the route is stale, or somebody else was faster.
Insert(p) ==
    LET existing == adapters[target[p]]
        refused == closed \/ (target[p] \notin Seeds /\ Unusable(p))
        mine == ~refused /\ existing = None
    IN
    /\ pc[p] = "insert"
    /\ adapters' = IF mine THEN [adapters EXCEPT ![target[p]] = held[p]] ELSE adapters
    /\ adapterState' = IF mine THEN adapterState ELSE [adapterState EXCEPT ![held[p]] = "closed"]
    /\ held' = IF mine THEN held ELSE [held EXCEPT ![p] = IF refused THEN None ELSE existing]
    /\ Goto(p, IF refused THEN Failed(p) ELSE IF target[p] \in Seeds THEN "recheck" ELSE "send")
    /\ UNCHANGED <<serverEpoch, closed, topology, version, lastSuccessful, retiringAdapters,
                   closing, flight, events, snap, target, cands, wait, call>>

Recheck(p) ==
    /\ pc[p] = "recheck"
    /\ IF snap[p] # NoSnapshot /\ Unusable(p)
       THEN Goto(p, Failed(p)) /\ held' = [held EXCEPT ![p] = None]
       ELSE Goto(p, "send") /\ UNCHANGED held
    /\ UNCHANGED <<serverEpoch, exec, adapterState, closing, flight, events,
                   snap, target, cands, wait, call>>

----------------------------------------------------------------------------
\* The request is begun on the adapter, unless it is retired or closed.  A
\* flight that warms connections only opens one.
Send(p) ==
    LET warming == p \in Flights /\ fetched[p] # 0
        begun == adapterState[held[p]] = "live" /\ ~warming
        suspect == ~begun /\ snap[p] # NoSnapshot /\ attempt[p] = 0 /\ ~cancelled[p]
    IN
    /\ pc[p] = "send"
    /\ Goto(p, IF begun THEN "inflight" ELSE IF suspect THEN "refresh" ELSE Failed(p))
    /\ why' = IF suspect THEN [why EXCEPT ![p] = "giveUp"] ELSE why
    /\ held' = IF begun THEN held ELSE [held EXCEPT ![p] = None]
    /\ UNCHANGED <<serverEpoch, exec, adapterState, closing, flight, events,
                   snap, target, cands, awaits, call>>

\* endRequest: the last request of a retiring adapter closes it.
EndRequest(p) ==
    LET a == held[p] IN
    /\ adapterState' =
          IF adapterState[a] = "retiring"
                /\ \A q \in Procs \ {p} : ~(pc[q] = "inflight" /\ held[q] = a)
          THEN [adapterState EXCEPT ![a] = "closed"] ELSE adapterState
    /\ held' = [held EXCEPT ![p] = None]

\* Mutant: a reroute is replayed whether or not the server calls it safe.
AnswerReplaysAll(c) ==
    /\ pc[c] = "inflight" /\ snap[c] # NoSnapshot
    /\ EndRequest(c)
    /\ \E outcome \in {"ok", "reroute", "unsafe"}, took \in {0, 1} :
          /\ outcome \in {"ok", "reroute"} => adapterState[held[c]] # "closed" /\ ~cancelled[c]
          /\ outcome = "ok" => took = 1
          /\ outcome = "reroute" => took = 0
          /\ took = 1 => Layout[serverEpoch][c] = target[c]
          /\ applied' = [applied EXCEPT ![c] = @ + took]
          /\ Goto(c, IF outcome # "ok" /\ attempt[c] = 0 /\ ~cancelled[c] THEN "refresh" ELSE "done")
          /\ why' = [why EXCEPT ![c] = IF c \in ReplayNever THEN "giveUp" ELSE "replay"]
    /\ UNCHANGED <<serverEpoch, exec, closing, flight, events, snap, target, cands,
                   awaits, tries, refreshed, attempt, cancelled, calls>>

\* The end of a routed request.  "ok": the leader of the key applied it.
\* "reroute": REROUTE with retryable and safe_to_retry, so nothing was applied.
\* "unsafe": a REROUTE without both, or the connection went away.  "other": any
\* other error, the context's included.  The last two may hide a commit.
Answer(c) ==
    /\ pc[c] = "inflight" /\ snap[c] # NoSnapshot
    /\ EndRequest(c)
    /\ \E outcome \in {"ok", "reroute", "unsafe", "other"}, took \in {0, 1} :
          /\ outcome \in {"ok", "reroute"} => adapterState[held[c]] # "closed" /\ ~cancelled[c]
          /\ outcome = "ok" => took = 1
          /\ outcome = "reroute" => took = 0
          /\ took = 1 => Layout[serverEpoch][c] = target[c]
          /\ applied' = [applied EXCEPT ![c] = @ + took]
          /\ LET suspect == outcome \in {"reroute", "unsafe"} /\ attempt[c] = 0 /\ ~cancelled[c]
                 replay == outcome = "reroute" /\ c \notin ReplayNever
             IN /\ Goto(c, IF suspect THEN "refresh" ELSE "done")
                /\ why' = [why EXCEPT ![c] = IF replay THEN "replay" ELSE "giveUp"]
    /\ UNCHANGED <<serverEpoch, exec, closing, flight, events, snap, target, cands,
                   awaits, tries, refreshed, attempt, cancelled, calls>>

ControlAnswer(c) ==
    /\ pc[c] = "inflight" /\ snap[c] = NoSnapshot
    /\ EndRequest(c)
    /\ Goto(c, "done")
    /\ UNCHANGED <<serverEpoch, exec, closing, flight, events, snap, target, cands, wait, call>>

\* SHARDS is answered with the current layout, or fails.
Fetch(f) ==
    /\ pc[f] = "inflight"
    /\ EndRequest(f)
    /\ \/ /\ adapterState[held[f]] # "closed" /\ ~closed /\ ~abandoned[f]
          /\ fetched' = [fetched EXCEPT ![f] = serverEpoch]
          /\ Goto(f, "install")
       \/ Goto(f, "pick") /\ UNCHANGED fetched
    /\ UNCHANGED <<serverEpoch, exec, closing, refreshInFlight, waiters, abandoned, succeeded,
                   dropped, events, snap, target, cands, wait, call>>

\* Mutant: a retired adapter is not remembered for Close.
InstallForgets(f) ==
    LET gone == {e \in Endpoints \ (Seeds \cup EndpointsOf(fetched[f])) : adapters[e] # None} IN
    /\ pc[f] = "install"
    /\ ~closed
    /\ adapters' = [e \in Endpoints |-> IF e \in gone THEN None ELSE adapters[e]]
    /\ dropped' = [dropped EXCEPT ![f] = {adapters[e] : e \in gone}]
    /\ topology' = fetched[f]
    /\ version' = IF topology = fetched[f] THEN version ELSE version + 1
    /\ Goto(f, "retire")
    /\ UNCHANGED <<serverEpoch, closed, lastSuccessful, retiringAdapters, adapterState, closing,
                   refreshInFlight, waiters, abandoned, succeeded, fetched, events, route, wait, call>>

\* installTopology: adapters of endpoints that are neither seeds nor in the new
\* layout leave the cache; an identical layout keeps its version.
Install(f) ==
    LET gone == {e \in Endpoints \ (Seeds \cup EndpointsOf(fetched[f])) : adapters[e] # None}
        out == {adapters[e] : e \in gone}
    IN
    /\ pc[f] = "install"
    /\ IF closed
       THEN Goto(f, "finish") /\ UNCHANGED <<topology, version, adapters, retiringAdapters, dropped>>
       ELSE /\ adapters' = [e \in Endpoints |-> IF e \in gone THEN None ELSE adapters[e]]
            /\ retiringAdapters' = retiringAdapters \cup out
            /\ dropped' = [dropped EXCEPT ![f] = out]
            /\ topology' = fetched[f]
            /\ version' = IF topology = fetched[f] THEN version ELSE version + 1
            /\ Goto(f, "retire")
    /\ UNCHANGED <<serverEpoch, closed, lastSuccessful, adapterState, closing, refreshInFlight,
                   waiters, abandoned, succeeded, fetched, events, route, wait, call>>

\* adapter.retire() for each, then lastSuccessfulURL, then warm connections.
Retire(f) ==
    /\ pc[f] = "retire"
    /\ adapterState' =
          [a \in Adapters |->
              IF a \notin dropped[f] \/ adapterState[a] # "live" THEN adapterState[a]
              ELSE IF \E p \in Procs : pc[p] = "inflight" /\ held[p] = a THEN "retiring"
              ELSE "closed"]
    /\ dropped' = [dropped EXCEPT ![f] = {}]
    /\ lastSuccessful' = target[f]
    /\ succeeded' = [succeeded EXCEPT ![f] = TRUE]
    /\ cands' = [cands EXCEPT ![f] = EndpointsOf(fetched[f])]
    /\ Goto(f, "pick")
    /\ UNCHANGED <<serverEpoch, closed, topology, version, adapters, retiringAdapters, closing,
                   refreshInFlight, waiters, abandoned, fetched, events,
                   snap, target, held, wait, call>>

\* forgetRetiredWhenClosed.
Forget(a) ==
    /\ a \in retiringAdapters /\ adapterState[a] = "closed"
    /\ retiringAdapters' = retiringAdapters \ {a}
    /\ UNCHANGED <<serverEpoch, closed, topology, version, lastSuccessful, adapters, adapterState,
                   closing, flight, events, pc, route, wait, call>>

----------------------------------------------------------------------------
\* A flight slot nobody refers to.
Idle(f) ==
    /\ pc[f] \in {"idle", "done"}
    /\ \A p \in Refreshers : awaits[p] # f

\* refreshTopology returns to its caller.
Returned(p, ok) ==
    /\ awaits' = [awaits EXCEPT ![p] = None]
    /\ IF p = EventLoop THEN Goto(p, "select") /\ UNCHANGED <<attempt, tries, refreshed>>
       ELSE IF ok /\ why[p] \in {"plan", "replay"}
            THEN /\ Goto(p, "plan")
                 /\ IF why[p] = "plan" THEN UNCHANGED <<attempt, tries, refreshed>>
                    ELSE /\ attempt' = [attempt EXCEPT ![p] = 1]
                         /\ tries' = [tries EXCEPT ![p] = 0]
                         /\ refreshed' = [refreshed EXCEPT ![p] = FALSE]
       ELSE Goto(p, "done") /\ UNCHANGED <<attempt, tries, refreshed>>

Done(p) == IF p = EventLoop THEN closed ELSE cancelled[p]

\* refreshTopology's section of refreshMu.  The check of the context on entry is
\* the first disjunct.
Refresh(p) ==
    LET cur == refreshInFlight IN
    /\ pc[p] = "refresh"
    /\ \/ /\ Done(p) \/ (why[p] = "plan" /\ version # snap[p])
          /\ Returned(p, ~Done(p))
          /\ UNCHANGED <<flight, why, cancelled, calls, applied>>
       \/ /\ why[p] = "plan" => version = snap[p]
          /\ cur # None /\ abandoned[cur]
          /\ awaits' = [awaits EXCEPT ![p] = cur]
          /\ Goto(p, "refreshAbandoned")
          /\ UNCHANGED <<flight, why, call>>
       \/ /\ why[p] = "plan" => version = snap[p]
          /\ cur # None /\ ~abandoned[cur]
          /\ awaits' = [awaits EXCEPT ![p] = cur]
          /\ waiters' = [waiters EXCEPT ![cur] = @ + 1]
          /\ Goto(p, "refreshWait")
          /\ UNCHANGED <<refreshInFlight, abandoned, succeeded, fetched, dropped, why, call>>
       \/ /\ why[p] = "plan" => version = snap[p]
          /\ cur = None
          /\ \E f \in Flights :
                /\ Idle(f) /\ \A g \in Flights : Idle(g) => f <= g
                /\ refreshInFlight' = f
                /\ waiters' = [waiters EXCEPT ![f] = 1]
                /\ abandoned' = [abandoned EXCEPT ![f] = FALSE]
                /\ succeeded' = [succeeded EXCEPT ![f] = FALSE]
                /\ fetched' = [fetched EXCEPT ![f] = 0]
                /\ awaits' = [awaits EXCEPT ![p] = f]
                /\ pc' = [pc EXCEPT ![f] = "begin", ![p] = "refreshWait"]
          /\ UNCHANGED <<dropped, why, call>>
    /\ UNCHANGED <<serverEpoch, exec, adapterState, closing, events, route>>

RefreshAbandoned(p) ==
    /\ pc[p] = "refreshAbandoned"
    /\ \/ /\ pc[awaits[p]] = "done"
          /\ awaits' = [awaits EXCEPT ![p] = None]
          /\ Goto(p, "refresh")
          /\ UNCHANGED <<tries, refreshed, attempt>>
       \/ Done(p) /\ Returned(p, FALSE)
    /\ UNCHANGED <<serverEpoch, exec, adapterState, closing, flight, events, route, why,
                   cancelled, calls, applied>>

\* The select and releaseTopologyRefreshWaiter: the last waiter to leave a
\* running flight abandons and cancels it.
RefreshWait(p) ==
    LET f == awaits[p] IN
    /\ pc[p] = "refreshWait"
    /\ pc[f] = "done" \/ Done(p)
    /\ waiters' = [waiters EXCEPT ![f] = IF @ > 0 THEN @ - 1 ELSE @]
    /\ abandoned' = [abandoned EXCEPT ![f] = @ \/ (waiters'[f] = 0 /\ refreshInFlight = f)]
    /\ Returned(p, ~Done(p) /\ succeeded[f])
    /\ succeeded' = [succeeded EXCEPT ![f] = @ /\ \E q \in Refreshers \ {p} : awaits[q] = f]
    /\ UNCHANGED <<serverEpoch, exec, adapterState, closing, refreshInFlight, fetched,
                   dropped, events, route, why, cancelled, calls, applied>>

\* runTopologyRefresh: the candidates are read, ..., and the flight is over.
FlightBegin(f) ==
    /\ pc[f] = "begin"
    /\ cands' = [cands EXCEPT ![f] = IF closed THEN {} ELSE Candidates]
    /\ Goto(f, "pick")
    /\ UNCHANGED <<serverEpoch, exec, adapterState, closing, flight, events,
                   snap, target, held, wait, call>>

\* The section that publishes the flight's error and closes its channel.  Only
\* the error is of interest from then on.
FlightFinish(f) ==
    /\ pc[f] = "finish"
    /\ refreshInFlight' = IF refreshInFlight = f THEN None ELSE refreshInFlight
    /\ waiters' = [waiters EXCEPT ![f] = 0]
    /\ abandoned' = [abandoned EXCEPT ![f] = FALSE]
    /\ fetched' = [fetched EXCEPT ![f] = 0]
    /\ target' = [target EXCEPT ![f] = None] /\ held' = [held EXCEPT ![f] = None]
    /\ cands' = [cands EXCEPT ![f] = {}]
    /\ Goto(f, "done")
    /\ UNCHANGED <<serverEpoch, exec, adapterState, closing, succeeded, dropped, events, snap,
                   wait, call>>

----------------------------------------------------------------------------
\* topologyEventRefreshLoop: take the signal, ...
LoopSelect ==
    /\ pc[EventLoop] = "select"
    /\ \/ signal /\ signal' = FALSE /\ handled' = announced /\ Goto(EventLoop, "look")
       \/ closed /\ Goto(EventLoop, "done") /\ UNCHANGED <<signal, handled>>
    /\ UNCHANGED <<serverEpoch, exec, adapterState, closing, flight, announced, route, wait, call>>

\* Mutant: a refresh that is already under way will do.
LoopLookJoins ==
    /\ pc[EventLoop] = "look"
    /\ Goto(EventLoop, "refresh")
    /\ UNCHANGED <<serverEpoch, exec, adapterState, closing, flight, events, route, wait, call>>

\* ... look for a refresh that may be older than the event, ...
LoopLook ==
    /\ pc[EventLoop] = "look"
    /\ awaits' = [awaits EXCEPT ![EventLoop] = refreshInFlight]
    /\ Goto(EventLoop, IF refreshInFlight = None THEN "refresh" ELSE "waitFlight")
    /\ UNCHANGED <<serverEpoch, exec, adapterState, closing, flight, events, route, why, call>>

\* ... and let it end before RefreshTopology.
LoopWait ==
    /\ pc[EventLoop] = "waitFlight"
    /\ \/ pc[awaits[EventLoop]] = "done" /\ Goto(EventLoop, "refresh")
       \/ closed /\ Goto(EventLoop, "done")
    /\ awaits' = [awaits EXCEPT ![EventLoop] = None]
    /\ UNCHANGED <<serverEpoch, exec, adapterState, closing, flight, events, route, why, call>>

\* The servers move a shard; an event about it reaches some connection (or not).
ServerChange ==
    /\ serverEpoch + 1 \in Epochs
    /\ serverEpoch' = serverEpoch + 1
    /\ UNCHANGED <<exec, adapterState, closing, flight, events, pc, route, wait, call>>

\* handleNativeManagementEvent on a connection of an adapter that is not closed.
ManagementEvent ==
    /\ announced < serverEpoch
    /\ \E a \in Adapters : adapterState[a] # "closed"
    /\ announced' = serverEpoch
    /\ signal' = TRUE
    /\ UNCHANGED <<serverEpoch, exec, adapterState, closing, flight, handled, pc, route, wait, call>>

\* Close: mark, collect, close every adapter, wait for the event loop.
Close ==
    /\ closePc = "open"
    /\ closePc' = "adapters"
    /\ closed' = TRUE
    /\ toClose' = {adapters[e] : e \in {x \in Endpoints : adapters[x] # None}} \cup retiringAdapters
    /\ adapters' = [e \in Endpoints |-> None]
    /\ retiringAdapters' = {}
    /\ UNCHANGED <<serverEpoch, topology, version, lastSuccessful, adapterState, flight, events,
                   pc, route, wait, call>>

CloseAdapters ==
    /\ closePc = "adapters"
    /\ closePc' = "wait"
    /\ adapterState' = [a \in Adapters |-> IF a \in toClose THEN "closed" ELSE adapterState[a]]
    /\ toClose' = {}
    /\ UNCHANGED <<serverEpoch, exec, flight, events, pc, route, wait, call>>

CloseReturns ==
    /\ closePc = "wait"
    /\ pc[EventLoop] = "done"
    /\ closePc' = "returned"
    /\ UNCHANGED <<serverEpoch, exec, adapterState, toClose, flight, events, pc, route, wait, call>>

----------------------------------------------------------------------------
CallStep(c) ==
    Plan(c) \/ Verify(c) \/ Answer(c) \/ ControlAnswer(c) \/ Return(c)
FlightStep(f) ==
    \/ FlightBegin(f) \/ Fetch(f) \/ Install(f) \/ Retire(f) \/ FlightFinish(f)
LoopStep == LoopSelect \/ LoopLook \/ LoopWait

Step(p) ==
    \/ p \in Callers /\ CallStep(p)
    \/ p \in Flights /\ FlightStep(p)
    \/ p = EventLoop /\ LoopStep
    \/ p \in Refreshers /\ (Refresh(p) \/ RefreshAbandoned(p) \/ RefreshWait(p))
    \/ Pick(p) \/ Lookup(p) \/ Insert(p) \/ Recheck(p) \/ Send(p)

Next ==
    \/ \E c \in Callers : Begin(c) \/ Cancel(c)
    \/ \E p \in Procs : Step(p)
    \/ \E a \in Adapters : Forget(a)
    \/ ServerChange \/ ManagementEvent
    \/ Close \/ CloseAdapters \/ CloseReturns

\* Goroutines run, and every request of an adapter ends (NativeConn, property
\* EveryRequestReturns).  No context need expire and the servers need not change.
Fairness ==
    /\ \A p \in Procs : WF_vars(Step(p))
    /\ WF_vars(CloseAdapters) /\ WF_vars(CloseReturns)

Spec == Init /\ [][Next]_vars /\ Fairness

----------------------------------------------------------------------------
\* Routing never returns to an older layout while the servers move on: refreshes
\* do not overlap, also when everybody has left one and it is still running, so
\* an old SHARDS answer is never installed over a newer one
\* (topology_refresh.go:36-45).
InstalledInOrder == [][topology' >= topology]_vars

\* An event is not answered by a snapshot older than the event: when the event
\* loop's refresh succeeds, the layout it announced, or a newer one, is installed,
\* although a SHARDS request may have been in flight when the event arrived
\* (topology.go:403-405).
EventNotMissed ==
    [][pc[EventLoop] = "refreshWait" /\ pc'[EventLoop] = "select" /\ succeeded[awaits[EventLoop]]
          => topology >= handled]_vars

\* Both together: layouts only move forward, and as far as was announced, although
\* refreshes are abandoned, joined and in flight when an event arrives.
LayoutsMoveForward == InstalledInOrder /\ EventNotMissed

\* A request is begun only on the adapter of the endpoint that leads its key in
\* the layout installed at that moment, however the layout changed between
\* planning, the lookup and the creation of the adapter; a call that lost this race
\* leaves no adapter in the cache.
RoutedByCurrent ==
    [][\A c \in Callers :
          snap[c] # NoSnapshot /\ pc[c] # "send" /\ pc'[c] = "send"
              => ~closed /\ target[c] = Layout[topology][c] /\ adapters'[target[c]] = held'[c]]_vars

\* Every adapter that is not closed is cached, or retiring, or about to be cached
\* or closed by whoever created it: Close, once past its adapters, leaves none
\* behind, whatever lookups, refreshes and retirements it raced with.
NoLeakedAdapter ==
    /\ \A a \in Adapters : adapterState[a] \in {"live", "retiring"} =>
          \/ a \in retiringAdapters \cup toClose
          \/ \E e \in Endpoints : adapters[e] = a
          \/ \E p \in Procs : pc[p] = "insert" /\ held[p] = a
    /\ closed => retiringAdapters = {} /\ \A e \in Endpoints : adapters[e] = None

\* "replay at most once, only when the server explicitly returns both retryable and
\* safe_to_retry" (README.md:527): no command is applied twice.
AppliedOnce == \A c \in Callers : applied[c] <= 1

\* Every call and Close return, also when refreshes are abandoned by their last
\* waiter over and over and new callers queue up behind them.
NobodyHangs ==
    /\ \A c \in Callers : pc[c] # "idle" ~> pc[c] = "idle"
    /\ closePc # "open" ~> closePc = "returned"
============================================================================
