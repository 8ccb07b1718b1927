------------------------------- MODULE PubSub -------------------------------
(* A publish/subscribe view over a native executor: pubsub.go,                *)
(* pubsub_replay.go, pubsub_events.go, topology_pubsub.go, and the event      *)
(* queue of native_pending.go.                                                *)
(*                                                                            *)
(* The view tracks the targets (channels, patterns, shard channels and native *)
(* events) it has subscribed to and the connection they are known to be       *)
(* subscribed on, its stamp.  Subscriptions live on the connection, so that a *)
(* new one starts without any; the view replays them.  Every subscription     *)
(* call and every replay runs under replayMu.  Next and NextEvent share one   *)
(* reader of the executor's event queue, who keeps what is of the other kind. *)
(*                                                                            *)
(* A connection is named by its number, whichever executor has it.  The       *)
(* current one breaks, and other users of a shared executor replace it, at    *)
(* any time.  The server is external: it keeps the subscriptions.             *)
(*                                                                            *)
(* Where the executor cannot connect a topology moves the view to another     *)
(* one.  Each has an event queue of its own, and the reader reads that of the *)
(* executor it has loaded: what the queue of an executor holds that the view  *)
(* has left stays there, neither given nor counted as dropped, until the view *)
(* is back.  Of the connections of such an executor only this is said: its    *)
(* reader may find one, make one, or fail.                                    *)
(*                                                                            *)
(* No name of this module is one of Transactions or SessionGate, with which   *)
(* it is checked and proved about side by side.                               *)
EXTENDS Integers, Sequences, FiniteSets

CONSTANTS
    Subscribers,    \* goroutines that subscribe and unsubscribe
    Readers,        \* goroutines that call Next or NextEvent
    Targets,        \* what one may subscribe to
    Kinds,          \* pubSubRedisEvent and pubSubNativeEvent
    Executors,      \* those a topology may select; one where there is none
    ReconnectMaxRetries,
    BufferCapacity, \* nativeEventBufferCapacity: of the queue and of the buffers
    MaxGen,         \* bound on the connections made
    MaxEvents       \* bound on the events the server sends

ASSUME PubSubConstants ==
    /\ Subscribers \cap Readers = {} /\ "none" \notin Subscribers \cup Readers
    /\ "none" \notin Kinds
    /\ ReconnectMaxRetries \in Nat /\ BufferCapacity \in Nat
    /\ MaxGen \in Nat /\ MaxEvents \in Nat

VARIABLES
    \* NativeExecutor
    up, generation, \* of the current one
    events,         \* of each, the queue of events received
    \* PubSub and its pubSubState
    exec,           \* currentExec
    replayMu,       \* who holds it, or "none"
    tracked,        \* channels, patterns, shardChannels and eventReplays
    last,           \* lastGeneration
    replay,         \* the locals of the replay or request under way
    eventReading,   \* the reader, or "none"
    buffer,         \* messageEvents and nativeEvents
    \* the calls
    at, call,
    want,           \* the kind of event a reader asks for
    reading,        \* the executor the reader has loaded
    held,           \* the event a reader has taken from the queue
    seen,           \* the connection whose end a reader waits for
    signalled,      \* the parked readers whose eventChanged is closed
    \* the server: subscriptions of the connection, and of each event sent the
    \* executor it was sent to
    subscribed, sent,
    \* what happened: unsubscriptions of unknown outcome, targets not replayed on the
    \* connection a later request was stamped with, events given to the application,
    \* events dropped
    unknown, slipped, given, dropped

net == <<up, generation, exec, events, subscribed>>
track == <<replayMu, tracked, last, replay, unknown, slipped>>
demux == <<eventReading, reading, buffer, want, held, seen, signalled, given, dropped>>
pubSubVars == <<net, track, demux, at, call, sent>>

Events == [kind : Kinds, n : 1..MaxEvents]
NoEvent == [kind |-> "none", n |-> 0]
Slots == UNION {{k} \X DOMAIN buffer[k] : k \in Kinds}
Buffered == Cardinality(Slots)
Users == Subscribers \cup Readers
\* An unsubscription that names no target is for all of its class.
Calls == [name : {"subscribe", "unsubscribe"}, targets : (SUBSET Targets) \ {{}}]
NoCall == [name |-> "none", targets |-> {}]

\* stamp: the connection the step is about; todo: targets still to be replayed;
\* attempt, retries: what is left of the two budgets; next: what comes after.
Replay(stamp, todo, attempt, retries, next) ==
    [stamp |-> stamp, todo |-> todo, attempt |-> attempt, retries |-> retries, next |-> next]
NoReplay == Replay(0, {}, 0, 0, "none")

ViewTypes ==
    /\ up \in BOOLEAN /\ generation \in 0..MaxGen /\ subscribed \subseteq Targets
    /\ replayMu \in Users \cup {"none"} /\ tracked \subseteq Targets /\ last \in 0..MaxGen
    /\ replay \in [stamp : 0..MaxGen, todo : SUBSET Targets, attempt : 0..ReconnectMaxRetries,
                   retries : 0..ReconnectMaxRetries,
                   next : {"none", "request", "idle", "load", "check"}]
    /\ unknown \cup slipped \subseteq Targets
    /\ at \in [Users -> {"idle", "ensure", "replay", "settle", "stamp", "request", "track",
                         "verify", "top", "parked", "check", "lockThenLoad", "lock", "load",
                         "read", "select", "got", "failed"}]
    /\ call \in [Subscribers -> Calls \cup {NoCall}]
ReaderTypes ==
    /\ want \in [Readers -> Kinds \cup {"none"}] /\ held \in [Readers -> Events \cup {NoEvent}]
    /\ seen \in [Readers -> 0..MaxGen] /\ signalled \subseteq Readers
    /\ eventReading \in Readers \cup {"none"}
EventTypes ==
    /\ events \in [Executors -> Seq(Events)]
    /\ buffer \in [Kinds -> Seq(Events)] /\ sent \in Seq(Executors) /\ Len(sent) <= MaxEvents
    /\ given \in [Kinds -> Seq(1..MaxEvents)] /\ dropped \subseteq 1..MaxEvents
ChannelTypes == exec \in Executors /\ reading \in Executors
WithinCapacity ==
    (\A e \in Executors : Len(events[e]) <= BufferCapacity) /\ Buffered <= BufferCapacity
PubSubTypeOK == ViewTypes /\ ReaderTypes /\ EventTypes /\ ChannelTypes /\ WithinCapacity

PubSubInit ==
    /\ up = FALSE /\ generation = 0 /\ events = [e \in Executors |-> <<>>]
    /\ exec \in Executors /\ reading = exec
    /\ replayMu = "none" /\ tracked = {} /\ last = 0 /\ replay = NoReplay
    /\ eventReading = "none" /\ buffer = [k \in Kinds |-> <<>>]
    /\ at = [c \in Users |-> "idle"] /\ call = [c \in Subscribers |-> NoCall]
    /\ want = [c \in Readers |-> "none"] /\ held = [c \in Readers |-> NoEvent]
    /\ seen = [c \in Readers |-> 0] /\ signalled = {}
    /\ subscribed = {} /\ sent = <<>>
    /\ unknown = {} /\ slipped = {} /\ given = [k \in Kinds |-> <<>>] /\ dropped = {}

Go(c, step) == at' = [at EXCEPT ![c] = step]

-----------------------------------------------------------------------------
(* The connection.                                                            *)

LoseConnection ==
    /\ up /\ up' = FALSE /\ subscribed' = {}
    /\ UNCHANGED <<generation, exec, events, track, demux, at, call, sent>>

\* installNativeConnectionLocked, for a connection that is needed and missing.  A
\* new connection has no subscriptions.
Connected ==
    \/ up /\ UNCHANGED <<up, generation>>
    \/ ~up /\ generation < MaxGen /\ up' = TRUE /\ generation' = generation + 1
Carried == IF up THEN subscribed ELSE {}

\* Another user of the executor connects it.
ReconnectedByOther ==
    /\ ~up /\ Connected /\ subscribed' = Carried
    /\ UNCHANGED <<exec, events, track, demux, at, call, sent>>

\* deliverEvent: into the executor's queue, or dropped when that is full.  The server
\* sends what the connection is subscribed to, so nothing to an executor left behind.
DeliverEvent(k) ==
    /\ up /\ Len(sent) < MaxEvents /\ sent' = Append(sent, exec)
    /\ LET n == Len(sent) + 1 IN
         IF Len(events[exec]) < BufferCapacity
         THEN /\ events' = [events EXCEPT ![exec] = Append(@, [kind |-> k, n |-> n])]
              /\ UNCHANGED dropped
         ELSE dropped' = dropped \cup {n} /\ UNCHANGED events
    /\ UNCHANGED <<up, generation, exec, subscribed, track, eventReading, reading, buffer, want,
                   held, seen, signalled, given, at, call>>

-----------------------------------------------------------------------------
(* Subscription calls and replay, all under replayMu.                         *)

\* pubsubCommand and eventSubscription first bring the view up to date.
Subscribe(c, o) ==
    /\ at[c] = "idle" /\ replayMu = "none"
    /\ replayMu' = c /\ call' = [call EXCEPT ![c] = o]
    /\ replay' = Replay(0, {}, 0, ReconnectMaxRetries, "request")
    /\ Go(c, "ensure")
    /\ UNCHANGED <<net, tracked, last, unknown, slipped, demux, sent>>

\* replayMu is released, and a call returns; a reader goes on, or fails.
Leave(c, step) ==
    /\ replayMu' = "none" /\ replay' = NoReplay /\ Go(c, step)
    /\ call' = IF c \in Subscribers THEN [call EXCEPT ![c] = NoCall] ELSE call
Fail(c) == Leave(c, IF c \in Readers THEN "failed" ELSE "idle")

\* The view is up to date, as r.next wanted it.
UpToDate(c, r) ==
    \/ r.next = "request" /\ Go(c, "stamp") /\ replay' = r /\ UNCHANGED <<replayMu, call>>
    \/ r.next # "request" /\ Leave(c, r.next)

\* Another attempt, if one is left.
TryAgain(c) ==
    \/ /\ replay.attempt < ReconnectMaxRetries
       /\ replay' = Replay(replay.stamp, replay.todo, replay.attempt + 1, replay.retries,
                           replay.next)
       /\ Go(c, "ensure") /\ UNCHANGED <<replayMu, call>>
    \/ replay.attempt >= ReconnectMaxRetries /\ Fail(c)

\* reconnectAndReplayLocked, an attempt: a connection, its stamp, and either
\* nothing to do or the tracked targets to subscribe again.  Where the executor
\* has none and cannot make one, ensureCurrentExecutor takes the view to another.
Ensure(c) ==
    /\ at[c] = "ensure" /\ Connected /\ subscribed' = Carried
    /\ exec' \in IF up THEN {exec} ELSE Executors
    /\ LET r == Replay(generation', tracked, replay.attempt, replay.retries, replay.next) IN
         IF generation' = last THEN UpToDate(c, r)
         ELSE replay' = r /\ Go(c, "replay") /\ UNCHANGED <<replayMu, call>>
    /\ UNCHANGED <<events, tracked, last, unknown, slipped, demux, sent>>

\* One replayed request, with the reconnects exec.command makes on its own.
ReplayOne(c) ==
    /\ at[c] = "replay" /\ replay.todo # {}
    /\ Connected
    /\ \E x \in replay.todo :
         /\ subscribed' = Carried \cup {x}
         /\ replay' = Replay(replay.stamp, replay.todo \ {x}, replay.attempt, replay.retries,
                             replay.next)
    /\ UNCHANGED <<exec, events, replayMu, tracked, last, unknown, slipped, demux, at, call, sent>>

Replayed(c) ==
    /\ at[c] = "replay" /\ replay.todo = {}
    /\ IF replay.stamp = generation
       THEN last' = replay.stamp /\ Go(c, "settle") /\ UNCHANGED <<replay, replayMu, call>>
       ELSE TryAgain(c) /\ UNCHANGED last
    /\ slipped' = IF last' = replay.stamp THEN {} ELSE slipped
    /\ UNCHANGED <<net, tracked, unknown, demux, sent>>

\* The stamp is checked once more after it has been recorded.
SettleStamp(c) ==
    /\ at[c] = "settle"
    /\ IF replay.stamp = generation THEN UpToDate(c, replay) ELSE TryAgain(c)
    /\ UNCHANGED <<net, tracked, last, unknown, slipped, demux, sent>>

\* What the server makes of a request.
Served(o, s) == IF o.name = "subscribe" THEN s \cup o.targets ELSE s \ o.targets

\* requestWithReplayRetryLocked stamps the request with the connection that is
\* current now, which need not be the one that was brought up to date.
Stamp(c) ==
    /\ at[c] = "stamp" /\ Go(c, "request")
    /\ replay' = Replay(generation, replay.todo, replay.attempt, replay.retries, replay.next)
    /\ slipped' = IF generation = last THEN slipped ELSE tracked
    /\ UNCHANGED <<net, replayMu, tracked, last, unknown, demux, call, sent>>

\* The request of the call itself; the executor may connect again on its way.
Request(c) ==
    /\ at[c] = "request" /\ Connected
    /\ subscribed' = Served(call[c], Carried)
    /\ unknown' = IF call[c].name = "subscribe" THEN unknown \ call[c].targets ELSE unknown
    /\ Go(c, "track")
    /\ UNCHANGED <<exec, events, replayMu, tracked, last, replay, slipped, demux, call, sent>>

\* It fails with the connection, before or after the server has seen it, and
\* is made again after a replay while retries are left.
RequestBreaks(c) ==
    /\ at[c] = "request" /\ up /\ up' = FALSE /\ subscribed' = {}
    /\ \/ replay.retries = 0 /\ Leave(c, "idle")
       \/ /\ replay.retries > 0
          /\ replay' = Replay(replay.stamp, replay.todo, 0, replay.retries - 1, replay.next)
          /\ Go(c, "ensure") /\ UNCHANGED <<replayMu, call>>
    /\ UNCHANGED <<generation, exec, events, tracked, last, unknown, slipped, demux, sent>>

\* Its context ends, or the acknowledgement is not what was asked for: nothing
\* is tracked, whatever the server has done.
RequestFails(c) ==
    /\ at[c] = "request" /\ up
    /\ \/ UNCHANGED <<subscribed, unknown>>
       \/ /\ subscribed' = Served(call[c], subscribed)
          /\ unknown' = IF call[c].name = "subscribe" THEN unknown
                        ELSE unknown \cup (tracked \ Served(call[c], tracked))
    /\ Leave(c, "idle")
    /\ UNCHANGED <<up, generation, exec, events, tracked, last, slipped, demux, sent>>

\* No connection, or a request of the replay fails: so does the call.
ReplayFails(c) ==
    /\ at[c] \in {"ensure", "replay"} /\ Fail(c)
    /\ UNCHANGED <<net, tracked, last, unknown, slipped, demux, sent>>

\* trackPubSubCommand and trackEventSubscription record the targets together
\* with the connection that is current by now ...
Track(c) ==
    /\ at[c] = "track"
    /\ tracked' = Served(call[c], tracked)
    /\ last' = generation
    /\ slipped' = slipped \ call[c].targets
    /\ Go(c, "verify")
    /\ UNCHANGED <<net, replayMu, replay, unknown, demux, call, sent>>

\* Mutant: the stamp is not compared after the request.
VerifyTrusts(c) ==
    /\ at[c] = "verify"
    /\ Leave(c, "idle")
    /\ UNCHANGED last
    /\ UNCHANGED <<net, tracked, unknown, slipped, demux, sent>>

\* ... and when that is not the one the request was made on, everything is
\* replayed.
Verify(c) ==
    /\ at[c] = "verify"
    /\ IF replay.stamp = generation THEN Leave(c, "idle") /\ UNCHANGED last
       ELSE /\ last' = replay.stamp
            /\ replay' = Replay(replay.stamp, replay.todo, 0, replay.retries, "idle")
            /\ Go(c, "ensure") /\ UNCHANGED <<replayMu, call>>
    /\ UNCHANGED <<net, tracked, unknown, slipped, demux, sent>>

-----------------------------------------------------------------------------
(* Next and NextEvent.                                                        *)

\* nextDemultiplexedEvent, called for an event of kind k or once more at its
\* loop: from the buffer, or become the reader, or park.
Wants(c, k) == at[c] = "idle" \/ (at[c] = "top" /\ want[c] = k)

Pop(c, k) ==
    /\ Wants(c, k) /\ buffer[k] # <<>>
    /\ given' = [given EXCEPT ![k] = Append(@, Head(buffer[k]).n)]
    /\ buffer' = [buffer EXCEPT ![k] = Tail(@)]
    /\ want' = [want EXCEPT ![c] = "none"] /\ Go(c, "idle")
    /\ UNCHANGED <<net, track, eventReading, reading, held, seen, signalled, dropped, call, sent>>

BecomeReader(c, k) ==
    /\ Wants(c, k) /\ buffer[k] = <<>> /\ eventReading = "none"
    /\ eventReading' = c /\ want' = [want EXCEPT ![c] = k] /\ Go(c, "check")
    /\ UNCHANGED <<net, track, reading, buffer, held, seen, signalled, given, dropped, call, sent>>

Park(c, k) ==
    /\ Wants(c, k) /\ buffer[k] = <<>> /\ eventReading # "none"
    /\ signalled' = signalled \ {c} /\ want' = [want EXCEPT ![c] = k] /\ Go(c, "parked")
    /\ UNCHANGED <<net, track, eventReading, reading, buffer, held, seen, given, dropped, call,
         sent>>

Unpark(c) ==
    /\ at[c] = "parked" /\ c \in signalled
    /\ signalled' = signalled \ {c} /\ Go(c, "top")
    /\ UNCHANGED <<net, track, eventReading, reading, buffer, want, held, seen, given, dropped,
         call, sent>>

ParkedGivesUp(c) ==
    /\ at[c] = "parked"
    /\ signalled' = signalled \ {c} /\ want' = [want EXCEPT ![c] = "none"] /\ Go(c, "idle")
    /\ UNCHANGED <<net, track, eventReading, reading, buffer, held, seen, given, dropped, call,
         sent>>

\* replayAfterExternalReconnect
Check(c) ==
    /\ at[c] = "check"
    /\ Go(c, IF tracked # {} /\ last # 0 /\ generation # 0 /\ generation # last
               THEN "lockThenLoad" ELSE "load")
    /\ UNCHANGED <<net, track, demux, call, sent>>

\* reconnectAndReplay
LockReplay(c) ==
    /\ at[c] \in {"lockThenLoad", "lock"} /\ replayMu = "none"
    /\ replayMu' = c /\ Go(c, "ensure")
    /\ replay' = Replay(0, {}, 0, 0, IF at[c] = "lock" THEN "check" ELSE "load")
    /\ UNCHANGED <<net, tracked, last, unknown, slipped, demux, call, sent>>

\* readNextServerEvent loads the executor, and stays with it in nextEvent.
Load(c) ==
    /\ at[c] = "load" /\ reading' = exec /\ Go(c, "read")
    /\ UNCHANGED <<net, track, eventReading, buffer, want, held, seen, signalled, given, dropped,
                   call, sent>>

\* nextEvent of that executor: an event that is there, or a connection to wait
\* on.  A connection it has to make itself is reported, for the replay.
TakeEvent(c) ==
    /\ at[c] \in {"read", "select"} /\ events[reading] # <<>>
    /\ held' = [held EXCEPT ![c] = Head(events[reading])]
    /\ events' = [events EXCEPT ![reading] = Tail(@)]
    /\ seen' = [seen EXCEPT ![c] = 0] /\ Go(c, "got")
    /\ UNCHANGED <<up, generation, exec, subscribed, track, eventReading, reading, buffer, want,
                   signalled, given, dropped, call, sent>>

\* Left: the view has left the executor its reader is still at.  Whether that one has
\* a connection is not known: the reader may wait on one (seen = 0) ...
Left == reading # exec

WaitOnConnection(c) ==
    /\ at[c] = "read" /\ events[reading] = <<>> /\ (up \/ Left)
    /\ seen' = [seen EXCEPT ![c] = IF Left THEN 0 ELSE generation] /\ Go(c, "select")
    /\ UNCHANGED <<net, track, eventReading, reading, buffer, want, held, signalled, given,
                   dropped, call, sent>>

\* ... or make one, or learn that the executor is retired, and report either.
ConnectToRead(c) ==
    /\ at[c] = "read" /\ events[reading] = <<>>
    /\ \/ Left /\ UNCHANGED <<up, generation, subscribed>> /\ Go(c, "lock")
       \/ /\ ~Left /\ ~up /\ Connected /\ subscribed' = Carried
          /\ Go(c, IF generation = 0 THEN "read" ELSE "lock")
    /\ UNCHANGED <<exec, events, track, demux, call, sent>>

\* The connection the reader waits on ends.
ConnectionDone(c) ==
    /\ at[c] = "select" /\ (Left \/ ~up \/ generation # seen[c])
    /\ seen' = [seen EXCEPT ![c] = 0] /\ Go(c, "read")
    /\ UNCHANGED <<net, track, eventReading, reading, buffer, want, held, signalled, given,
                   dropped, call, sent>>

\* Mutant: a reader that fails leaves without a signal to the others.
ReadFailsSilently(c) ==
    /\ at[c] \in {"read", "select", "failed"}
    /\ eventReading' = "none"
    /\ seen' = [seen EXCEPT ![c] = 0]
    /\ want' = [want EXCEPT ![c] = "none"] /\ Go(c, "idle")
    /\ UNCHANGED <<net, track, reading, buffer, held, given, dropped, call, sent, signalled>>

\* The reader's context ends, or it cannot connect or replay.
ReadFails(c) ==
    /\ at[c] \in {"read", "select", "failed"}
    /\ eventReading' = "none" /\ signalled' = {r \in Readers : at[r] = "parked"}
    /\ seen' = [seen EXCEPT ![c] = 0]
    /\ want' = [want EXCEPT ![c] = "none"] /\ Go(c, "idle")
    /\ UNCHANGED <<net, track, reading, buffer, held, given, dropped, call, sent>>

\* The reader gives up its place, wakes the others and keeps or buffers the
\* event in one critical section.
Dispatch(c) ==
    /\ at[c] = "got"
    /\ eventReading' = "none" /\ signalled' = {r \in Readers : at[r] = "parked"}
    /\ held' = [held EXCEPT ![c] = NoEvent]
    /\ LET e == held[c]
           room == Buffered < BufferCapacity
       IN IF e.kind = want[c]
          THEN /\ given' = [given EXCEPT ![e.kind] = Append(@, e.n)]
               /\ want' = [want EXCEPT ![c] = "none"] /\ Go(c, "idle")
               /\ UNCHANGED <<buffer, dropped>>
          ELSE /\ buffer' = IF room THEN [buffer EXCEPT ![e.kind] = Append(@, e)] ELSE buffer
               /\ dropped' = IF room THEN dropped ELSE dropped \cup {e.n}
               /\ Go(c, "top") /\ UNCHANGED <<given, want>>
    /\ UNCHANGED <<net, track, reading, seen, call, sent>>

PubSubNext ==
    \/ LoseConnection \/ ReconnectedByOther \/ \E k \in Kinds : DeliverEvent(k)
    \/ \E c \in Subscribers :
        \/ \E o \in Calls : Subscribe(c, o)
        \/ Stamp(c) \/ Request(c) \/ RequestBreaks(c) \/ RequestFails(c) \/ Track(c) \/ Verify(c)
    \/ \E c \in Users :
        \/ Ensure(c) \/ ReplayOne(c) \/ Replayed(c) \/ SettleStamp(c) \/ ReplayFails(c)
    \/ \E c \in Readers :
        \/ \E k \in Kinds : Pop(c, k) \/ BecomeReader(c, k) \/ Park(c, k)
        \/ Unpark(c) \/ ParkedGivesUp(c)
        \/ Check(c) \/ LockReplay(c) \/ Load(c) \/ TakeEvent(c) \/ WaitOnConnection(c)
        \/ ConnectToRead(c) \/ ConnectionDone(c) \/ ReadFails(c) \/ Dispatch(c)

PubSubSpec == PubSubInit /\ [][PubSubNext]_pubSubVars

-----------------------------------------------------------------------------
(* Properties.                                                                *)

\* While no call holds replayMu, a view whose stamp is the current connection is
\* subscribed there to everything it tracks, but for an unsubscription that may
\* or may not have reached the server: a subscription acknowledged on one
\* connection is never taken for one on the next (pubsub.go:377).  Only a change
\* of connection between the replay and the stamp of the request slips through.
StampMeansSubscribed ==
    up /\ replayMu = "none" /\ last = generation =>
        tracked \subseteq subscribed \cup unknown \cup slipped

\* pubsub_test.go:200, TestPubSubReplaysExistingSubscriptionsBeforeNewSubscription-
\* AfterReconnect: on a new connection the existing subscriptions are replayed, and
\* the view that takes a connection for up to date has all of them there.
ExistingReplayedFirst ==
    up /\ replayMu = "none" /\ last = generation => tracked \subseteq subscribed \cup unknown

\* The numbers of the events in the queues, in the buffers, in the hands of the
\* reader, and given to the application.
Numbers(s) == {s[i].n : i \in DOMAIN s}
InQueues == UNION {Numbers(events[e]) : e \in Executors}
InBuffers == UNION {Numbers(buffer[k]) : k \in Kinds}
InHands == {held[r].n : r \in {r \in Readers : held[r] # NoEvent}}
GivenOf(k) == {given[k][i] : i \in DOMAIN given[k]}
Given == UNION {GivenOf(k) : k \in Kinds}

\* x came before y, where both came to one executor; two of them give no order.
Before(x, y, origin) == origin[x] = origin[y] => x < y

\* An event is given to the application once, to a caller that asked for its kind,
\* and among the events of one executor in the order of arrival.  It is lost only
\* where one is counted as dropped; but it may wait in the queue of an executor that
\* the view has left and that nobody reads (pubsub_events.go:27: the two kinds share
\* one reader; pubsub_replay.go:260: currentExec is replaced, the channel of the old
\* one stays as it is).
EventsOnceInOrder ==
    LET waiting == InQueues \cup InBuffers \cup InHands
    IN /\ waiting \cup Given \cup dropped = 1..Len(sent)
       /\ waiting \cap Given = {} /\ (waiting \cup Given) \cap dropped = {}
       /\ \A k \in Kinds : \A i, j \in DOMAIN given[k] :
            i < j => Before(given[k][i], given[k][j], sent)

\* A caller parked on eventChanged is not forgotten: unless it has been
\* signalled there is a reader, and nothing for it in the buffer.
ParkedAreRemembered ==
    \A r \in Readers : at[r] = "parked" /\ r \notin signalled =>
        eventReading # "none" /\ buffer[want[r]] = <<>>

\* The two: an event is given once, in its executor's order, to a caller that asked
\* for its kind, or is counted as dropped, or is still in a queue; a caller that is
\* parked has a reader to wake it.
EventsReachCallers == EventsOnceInOrder /\ ParkedAreRemembered
=============================================================================
