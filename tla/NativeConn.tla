----------------------------- MODULE NativeConn -----------------------------
(* Connections and requests of one NativeExecutor: native_connection.go,      *)
(* native_request.go, native_pending.go and native_reader.go.                 *)
(*                                                                            *)
(* Many goroutines multiplex requests over one connection.  The connection is *)
(* opened by a single-flight attempt, replaced after a failure, drained after *)
(* a GOAWAY or after the cancellation of a request that cannot be cancelled   *)
(* on the wire, and closed for good by Close or by retire.                    *)
(*                                                                            *)
(* Every critical section of e.mu is one action.  failNativePending and       *)
(* releaseNativePending run after the section that took the requests out of   *)
(* e.pending; nobody else can reach those requests any more, so they are part *)
(* of that section's action.  writeMu is a lock of its own because it is held *)
(* across the write.  Left out: the flow credits themselves (FlowController), *)
(* the session gate (SessionGate), frames and their decoding, and             *)
(* writeEncodeMu, which is always released before writeMu and only bounds     *)
(* the memory of encoded bodies.                                              *)
EXTENDS Integers, FiniteSets

CONSTANTS
    Data,        \* requests that use a flow credit and drain on cancellation
    Control,     \* requests on lane 0 without a credit; they can be forgotten
    Heartbeats,  \* the PINGs of heartbeatLoop, a subset of Control
    ReplayNever, \* requests issued with nativeReplayNever
    MaxAttempts, \* bound on the number of connection attempts
    MaxRetries   \* NativeOptions.ReconnectMaxRetries

Requests == Data \cup Control
Attempts == 1..MaxAttempts
None == 0

ASSUME ConnConstants ==
    /\ IsFiniteSet(Requests)
    /\ Data \cap Control = {}
    /\ Heartbeats \subseteq Control
    /\ ReplayNever \subseteq Requests
    /\ MaxAttempts \in Nat
    /\ MaxRetries \in Nat

VARIABLES
    \* the executor, under e.mu
    conn,             \* e.conn: the attempt that opened it, or None
    goAway,           \* e.goAway: the connection is draining
    isClosed,         \* e.isClosed
    retiring,         \* e.retiring
    activeRequests,   \* e.activeRequests
    connectInFlight,  \* e.connectInFlight
    pending,          \* e.pending: "none", "live" or "abandoned" per request
    \* connection attempts, and the socket each of them opens
    attempt,          \* "unused", "dialing", "opened", "installed" or "failed"
    waiters,          \* attempt.waiters
    socket,           \* "none", "open" or "closed"
    \* the goroutine of each request
    writeMu,          \* the request that holds e.writeMu, or None
    pc,
    expected,         \* the connection captured by requestOnce
    awaited,          \* the attempt a request waits for
    responseCh,       \* the one-slot response channel
    err,              \* the class of the last error, or the outcome
    cancelled,        \* ctx.Done()
    retries,          \* transportAttempts
    busyRetries,      \* serverRetries
    \* what the server may have seen, and what it said
    writes,           \* how many times bytes of the request were written
    refused           \* how many times the server answered it with a BUSY

executor == <<conn, goAway, isClosed, retiring, activeRequests, connectInFlight, pending>>
dialing  == <<attempt, waiters, socket>>
caller   == <<expected, awaited, cancelled, retries, busyRetries>>
vars == <<executor, dialing, writeMu, pc, responseCh, err, caller, writes, refused>>

\* Classes of errors.  The first three carry commandNotSentError.
\*   "goAway"       draining was seen before the write
\*   "unavailable"  the connection was gone before the write: retryable
\*   "notSent"      any other failure before the write
\*   "context"      ctx.Err() of the caller, unmarked
\*   "transport"    the connection failed; delivery is unknown
\*   "busy"         server status BUSY, retryable and safe to retry
\* An answer of the server, a value or any other error status, is "ok": nothing
\* in this module tells them apart.
NotSentErrors == {"goAway", "unavailable", "notSent"}
Errors == NotSentErrors \cup {"context", "transport", "busy"}

PCs == {"idle", "loop", "connect", "drainWait", "dialWait", "capture", "credit", "add",
        "lock", "check", "write", "remove", "closeCurrent", "await", "cancel",
        "decide", "reset", "end", "beat", "done"}

\* Between beginRequest and endRequest.
Inside == PCs \ {"idle", "beat", "done"}

TypeOK ==
    /\ conn \in Attempts \cup {None} /\ goAway \in BOOLEAN
    /\ isClosed \in BOOLEAN /\ retiring \in BOOLEAN
    /\ activeRequests \in Nat
    /\ connectInFlight \in Attempts \cup {None}
    /\ pending \in [Requests -> {"none", "live", "abandoned"}]
    /\ attempt \in [Attempts -> {"unused", "dialing", "opened", "installed", "failed"}]
    /\ waiters \in [Attempts -> Nat]
    /\ socket \in [Attempts -> {"none", "open", "closed"}]
    /\ writeMu \in Requests \cup {None}
    /\ pc \in [Requests -> PCs]
    /\ expected \in [Requests -> Attempts \cup {None}]
    /\ awaited \in [Requests -> Attempts \cup {None}]
    /\ responseCh \in [Requests -> {"none", "ok"} \cup Errors]
    /\ err \in [Requests -> {"none", "ok"} \cup Errors]
    /\ cancelled \in [Requests -> BOOLEAN]
    /\ retries \in [Requests -> 0..MaxRetries]
    /\ busyRetries \in [Requests -> 0..1]
    /\ writes \in [Requests -> Nat] /\ refused \in [Requests -> Nat]

Init ==
    /\ conn = None /\ goAway = FALSE
    /\ isClosed = FALSE /\ retiring = FALSE
    /\ activeRequests = 0
    /\ connectInFlight = None
    /\ pending = [r \in Requests |-> "none"]
    /\ attempt = [a \in Attempts |-> "unused"]
    /\ waiters = [a \in Attempts |-> 0]
    /\ socket = [a \in Attempts |-> "none"]
    /\ writeMu = None
    /\ pc = [r \in Requests |-> "idle"]
    /\ expected = [r \in Requests |-> None]
    /\ awaited = [r \in Requests |-> None]
    /\ responseCh = [r \in Requests |-> "none"]
    /\ err = [r \in Requests |-> "none"]
    /\ cancelled = [r \in Requests |-> FALSE]
    /\ retries = [r \in Requests |-> 0]
    /\ busyRetries = [r \in Requests |-> 0]
    /\ writes = [r \in Requests |-> 0] /\ refused = [r \in Requests |-> 0]

Goto(r, label) == pc' = [pc EXCEPT ![r] = label]
Fail(r, class) == err' = [err EXCEPT ![r] = class]

\* hasLivePendingLocked, of a pending map.
hasLive(p) == \E r \in Requests : p[r] = "live"

\* closeConnLocked: the socket is closed, a drain is over, and the flow
\* controller of the connection fails whoever waits for a credit.
closeConnLocked ==
    /\ conn' = None
    /\ goAway' = FALSE
    /\ socket' = IF conn = None THEN socket ELSE [socket EXCEPT ![conn] = "closed"]

\* Mutant: the requests are taken out of e.pending and not told.
closeAndForget(class) ==
    /\ closeConnLocked
    /\ pending' = [r \in Requests |-> "none"]
    /\ responseCh' = responseCh

\* takePendingLocked, closeConnLocked and failNativePending(pending, class).
closeAndFail(class) ==
    /\ closeConnLocked
    /\ pending' = [r \in Requests |-> "none"]
    /\ responseCh' = [r \in Requests |-> IF pending[r] = "live" THEN class ELSE responseCh[r]]

\* The end of a drain: when p is what is left of e.pending and nobody alive is
\* in it, the connection is closed and the abandoned entries are dropped.
settle(p, draining) ==
    IF draining /\ ~hasLive(p)
    THEN closeConnLocked /\ pending' = [r \in Requests |-> "none"]
    ELSE pending' = p /\ goAway' = draining /\ UNCHANGED <<conn, socket>>

----------------------------------------------------------------------------
\* beginRequest, and heartbeatLoop's PING: its loop was started when a
\* connection was installed, and its ticker can win against a closed stop.
BeginRequest(r) ==
    /\ pc[r] = "idle"
    /\ r \in Heartbeats => \E a \in Attempts : attempt[a] = "installed"
    /\ IF isClosed \/ retiring
       THEN /\ Fail(r, "notSent")
            /\ Goto(r, IF r \in Heartbeats THEN "beat" ELSE "done")
            /\ UNCHANGED activeRequests
       ELSE /\ activeRequests' = activeRequests + 1
            /\ Goto(r, "loop")
            /\ UNCHANGED err
    /\ UNCHANGED <<conn, goAway, isClosed, retiring, connectInFlight, pending,
                   dialing, writeMu, responseCh, caller, writes, refused>>

\* The caller's context, or the default timeout of the request, ends.
Cancel(r) ==
    /\ pc[r] \in Inside
    /\ ~cancelled[r]
    /\ cancelled' = [cancelled EXCEPT ![r] = TRUE]
    /\ UNCHANGED <<executor, dialing, writeMu, pc, responseCh, err,
                   expected, awaited, retries, busyRetries, writes, refused>>

\* The top of the retry loop: the context's error is returned as it is.
Loop(r) ==
    /\ pc[r] = "loop"
    /\ IF cancelled[r] THEN Fail(r, "context") /\ Goto(r, "end")
                       ELSE Goto(r, "connect") /\ UNCHANGED err
    /\ UNCHANGED <<executor, dialing, writeMu, responseCh, caller, writes, refused>>

\* The top of ensureConnectedLocked's loop: its errors are NotSent.
Connect(r) ==
    /\ pc[r] = "connect"
    /\ \/ /\ cancelled[r]
          /\ Fail(r, "notSent") /\ Goto(r, "decide")
          /\ UNCHANGED <<connectInFlight, dialing, awaited>>
       \/ /\ ~cancelled[r]
          /\ conn # None
          /\ Goto(r, IF goAway THEN "drainWait" ELSE "capture")
          /\ UNCHANGED <<connectInFlight, dialing, awaited, err>>
       \/ /\ ~cancelled[r]
          /\ conn = None
          /\ isClosed \/ retiring
          /\ Fail(r, "unavailable") /\ Goto(r, "decide")
          /\ UNCHANGED <<connectInFlight, dialing, awaited>>
       \/ /\ ~cancelled[r]
          /\ conn = None /\ ~isClosed /\ ~retiring
          /\ \E a \in Attempts :
                /\ IF connectInFlight = None
                   THEN /\ attempt[a] = "unused"
                        /\ \A b \in 1..(a - 1) : attempt[b] # "unused"
                        /\ attempt' = [attempt EXCEPT ![a] = "dialing"]
                   ELSE a = connectInFlight /\ UNCHANGED attempt
                /\ connectInFlight' = a
                /\ waiters' = [waiters EXCEPT ![a] = @ + 1]
                /\ awaited' = [awaited EXCEPT ![r] = a]
          /\ Goto(r, "dialWait")
          /\ UNCHANGED <<socket, err>>
    /\ UNCHANGED <<conn, goAway, isClosed, retiring, activeRequests, pending, writeMu,
                   responseCh, expected, cancelled, retries, busyRetries, writes, refused>>

\* goAwayDone is closed with the connection it belongs to.
DrainWait(r) ==
    /\ pc[r] = "drainWait"
    /\ \/ ~goAway /\ Goto(r, "connect") /\ UNCHANGED err
       \/ cancelled[r] /\ Fail(r, "notSent") /\ Goto(r, "decide")
    /\ UNCHANGED <<executor, dialing, writeMu, responseCh, caller, writes, refused>>

\* releaseConnectWaiter: the last waiter to leave abandons the attempt.  An
\* error of the attempt is reconnectable (EOF, reset, ErrClosed) or final.
DialWait(r) ==
    LET a == awaited[r]
        done == attempt[a] \in {"installed", "failed"}
    IN
    /\ pc[r] = "dialWait"
    /\ done \/ cancelled[r]
    /\ waiters' = [waiters EXCEPT ![a] = @ - 1]
    /\ connectInFlight' =
          IF waiters[a] = 1 /\ connectInFlight = a /\ conn = None THEN None ELSE connectInFlight
    /\ awaited' = [awaited EXCEPT ![r] = None]
    /\ \/ cancelled[r] /\ Fail(r, "notSent") /\ Goto(r, "decide")
       \/ /\ ~cancelled[r] /\ attempt[a] = "failed"
          /\ \E class \in {"unavailable", "notSent"} : Fail(r, class)
          /\ Goto(r, "decide")
       \/ ~cancelled[r] /\ attempt[a] = "installed" /\ Goto(r, "connect") /\ UNCHANGED err
    /\ UNCHANGED <<conn, goAway, isClosed, retiring, activeRequests, pending, attempt, socket,
                   writeMu, responseCh, expected, cancelled, retries, busyRetries, writes, refused>>

\* openNativeConnection ends: the dial and the handshake went through or not.
Dial(a) ==
    /\ attempt[a] = "dialing"
    /\ \/ /\ attempt' = [attempt EXCEPT ![a] = "opened"]
          /\ socket' = [socket EXCEPT ![a] = "open"]
          /\ UNCHANGED connectInFlight
       \/ /\ attempt' = [attempt EXCEPT ![a] = "failed"]
          /\ connectInFlight' = IF connectInFlight = a THEN None ELSE connectInFlight
          /\ UNCHANGED socket
    /\ UNCHANGED <<conn, goAway, isClosed, retiring, activeRequests, pending, waiters,
                   writeMu, pc, responseCh, err, caller, writes, refused>>

\* Mutant: a dial that outlives Close still installs its connection.
InstallAfterClose(a) ==
    /\ attempt[a] = "opened"
    /\ IF connectInFlight # a
       THEN /\ attempt' = [attempt EXCEPT ![a] = "failed"]
            /\ socket' = [socket EXCEPT ![a] = "closed"]
            /\ UNCHANGED conn
       ELSE /\ attempt' = [attempt EXCEPT ![a] = "installed"]
            /\ conn' = a
            /\ UNCHANGED socket
    /\ connectInFlight' = IF connectInFlight = a THEN None ELSE connectInFlight
    /\ UNCHANGED <<goAway, isClosed, retiring, activeRequests, pending, waiters,
                   writeMu, pc, responseCh, err, caller, writes, refused>>

\* runConnectAttempt's critical section: install the connection, or close it
\* because the executor was closed or nobody waits for this attempt any more.
Install(a) ==
    /\ attempt[a] = "opened"
    /\ IF isClosed \/ retiring \/ connectInFlight # a
       THEN /\ attempt' = [attempt EXCEPT ![a] = "failed"]
            /\ socket' = [socket EXCEPT ![a] = "closed"]
            /\ UNCHANGED conn
       ELSE /\ attempt' = [attempt EXCEPT ![a] = "installed"]
            /\ conn' = a
            /\ UNCHANGED socket
    /\ connectInFlight' = IF connectInFlight = a THEN None ELSE connectInFlight
    /\ UNCHANGED <<goAway, isClosed, retiring, activeRequests, pending, waiters,
                   writeMu, pc, responseCh, err, caller, writes, refused>>

----------------------------------------------------------------------------
\* requestOnce reads e.conn in a section of its own: it may be gone again.
Capture(r) ==
    /\ pc[r] = "capture"
    /\ expected' = [expected EXCEPT ![r] = conn]
    /\ IF conn = None \/ cancelled[r]
       THEN Fail(r, "notSent") /\ Goto(r, "decide")
       ELSE Goto(r, IF r \in Data THEN "credit" ELSE "add") /\ UNCHANGED err
    /\ UNCHANGED <<executor, dialing, writeMu, responseCh, awaited, cancelled,
                   retries, busyRetries, writes, refused>>

\* acquireFlowCredit: the connection changed or its controller is closed, the
\* context ends or the client queue is full, or a credit is granted.
Credit(r) ==
    /\ pc[r] = "credit"
    /\ \/ conn # expected[r] /\ Fail(r, "unavailable") /\ Goto(r, "decide")
       \/ Fail(r, "notSent") /\ Goto(r, "decide")
       \/ conn = expected[r] /\ Goto(r, "add") /\ UNCHANGED err
    /\ UNCHANGED <<executor, dialing, writeMu, responseCh, caller, writes, refused>>

\* addPendingRequest, with a new response channel.
AddPending(r) ==
    /\ pc[r] = "add"
    /\ pending' = [pending EXCEPT ![r] = "live"]
    /\ responseCh' = [responseCh EXCEPT ![r] = "none"]
    /\ Goto(r, "lock")
    /\ UNCHANGED <<conn, goAway, isClosed, retiring, activeRequests, connectInFlight,
                   dialing, writeMu, err, caller, writes, refused>>

\* writeMu.LockContext.  Encoding errors and a cancelled wait are NotSent.
LockWrite(r) ==
    /\ pc[r] = "lock"
    /\ \/ writeMu = None /\ ~cancelled[r] /\ writeMu' = r /\ Goto(r, "check") /\ UNCHANGED err
       \/ Fail(r, "notSent") /\ Goto(r, "remove") /\ UNCHANGED writeMu
    /\ UNCHANGED <<executor, dialing, responseCh, caller, writes, refused>>

\* Under writeMu and e.mu: is the captured connection still there, and not
\* draining?  From here to the end of the write no GOAWAY can be processed.
CheckWrite(r) ==
    /\ pc[r] = "check"
    /\ \/ cancelled[r] /\ Fail(r, "notSent") /\ Goto(r, "remove") /\ writeMu' = None
       \/ /\ ~cancelled[r] /\ conn # expected[r]
          /\ Fail(r, "unavailable") /\ Goto(r, "remove") /\ writeMu' = None
       \/ /\ ~cancelled[r] /\ conn = expected[r] /\ goAway
          /\ Fail(r, "goAway") /\ Goto(r, "remove") /\ writeMu' = None
       \/ /\ ~cancelled[r] /\ conn = expected[r] /\ ~goAway
          /\ Goto(r, "write") /\ UNCHANGED <<err, writeMu>>
    /\ UNCHANGED <<executor, dialing, responseCh, caller, writes, refused>>

\* The bytes go to the socket: all of them, or some and then an error.  Once
\* the socket is closed only the error is left.
Write(r) ==
    /\ pc[r] = "write"
    /\ writes' = [writes EXCEPT ![r] = @ + 1]
    /\ writeMu' = None
    /\ \/ socket[expected[r]] = "open" /\ Goto(r, "await") /\ UNCHANGED err
       \/ /\ Fail(r, IF cancelled[r] THEN "context" ELSE "transport")
          /\ Goto(r, "remove")
    /\ UNCHANGED <<executor, dialing, responseCh, caller, refused>>

\* Mutant: removePending does not look whether it ends a drain.
RemoveNoDrain(r) ==
    /\ pc[r] = "remove"
    /\ pending' = [pending EXCEPT ![r] = "none"]
    /\ Goto(r, IF err[r] \in NotSentErrors THEN "decide" ELSE "closeCurrent")
    /\ UNCHANGED <<conn, goAway, socket, isClosed, retiring, activeRequests, connectInFlight,
                   attempt, waiters, writeMu, responseCh, err, caller, writes, refused>>

\* removePending after a failed write: it may end a drain.  After an error that
\* is not NotSent the stream is unusable, and the connection is closed.
Remove(r) ==
    /\ pc[r] = "remove"
    /\ settle([pending EXCEPT ![r] = "none"], goAway)
    /\ Goto(r, IF err[r] \in NotSentErrors THEN "decide" ELSE "closeCurrent")
    /\ UNCHANGED <<isClosed, retiring, activeRequests, connectInFlight, attempt, waiters,
                   writeMu, responseCh, err, caller, writes, refused>>

CloseCurrent(r) ==
    /\ pc[r] = "closeCurrent"
    /\ IF conn = expected[r] THEN closeAndFail(err[r])
                             ELSE UNCHANGED <<conn, goAway, socket, pending, responseCh>>
    /\ Goto(r, "decide")
    /\ UNCHANGED <<isClosed, retiring, activeRequests, connectInFlight, attempt, waiters,
                   writeMu, err, caller, writes, refused>>

\* Mutant: a connection lost after the write counts as retryable.
AwaitRetryable(r) ==
    /\ pc[r] = "await"
    /\ \/ /\ responseCh[r] # "none"
          /\ Fail(r, IF responseCh[r] = "transport" THEN "unavailable" ELSE responseCh[r])
          /\ Goto(r, "decide")
          /\ responseCh' = [responseCh EXCEPT ![r] = "none"]
       \/ /\ cancelled[r]
          /\ Fail(r, "context")
          /\ Goto(r, "cancel")
          /\ UNCHANGED responseCh
    /\ UNCHANGED <<executor, dialing, writeMu, caller, writes, refused>>

\* Mutant: the wait for the response does not watch the context.
AwaitForever(r) ==
    /\ pc[r] = "await"
    /\ responseCh[r] # "none"
    /\ Fail(r, responseCh[r])
    /\ Goto(r, "decide")
    /\ responseCh' = [responseCh EXCEPT ![r] = "none"]
    /\ UNCHANGED <<executor, dialing, writeMu, caller, writes, refused>>

\* The select on the response channel and ctx.Done().  A response that arrives
\* together with the end of the context is reported as the context's error, and
\* an error that arrives here is not retryable, whatever its class.
Await(r) ==
    /\ pc[r] = "await"
    /\ \/ /\ responseCh[r] # "none"
          /\ Fail(r, IF responseCh[r] = "ok" /\ cancelled[r] THEN "context"
                     ELSE IF responseCh[r] = "unavailable" THEN "notSent" ELSE responseCh[r])
          /\ Goto(r, "decide")
          /\ responseCh' = [responseCh EXCEPT ![r] = "none"]
       \/ /\ cancelled[r]
          /\ Fail(r, "context")
          /\ Goto(r, "cancel")
          /\ UNCHANGED responseCh
    /\ UNCHANGED <<executor, dialing, writeMu, caller, writes, refused>>

\* cancelPendingDataRequest under writeMu: the entry stays, abandoned, and the
\* connection drains.  A control request is simply forgotten.
CancelPending(r) ==
    /\ pc[r] = "cancel"
    /\ IF r \in Control
       THEN settle([pending EXCEPT ![r] = "none"], goAway)
       ELSE /\ writeMu = None
            /\ IF pending[r] = "none" \/ conn # expected[r]
               THEN pending' = [pending EXCEPT ![r] = "none"] /\ UNCHANGED <<conn, goAway, socket>>
               ELSE settle([pending EXCEPT ![r] = "abandoned"], TRUE)
    /\ Goto(r, "decide")
    /\ UNCHANGED <<isClosed, retiring, activeRequests, connectInFlight, attempt, waiters,
                   writeMu, responseCh, err, caller, writes, refused>>

----------------------------------------------------------------------------
\* The decisions of the retry loop: resubmit after GOAWAY, resubmit after a
\* BUSY the server calls safe, try another connection, or return.  The local
\* variables of requestOnce end here.
Decide(r) ==
    LET replay == r \notin ReplayNever /\ ~cancelled[r]
        resubmit == replay /\ (err[r] = "goAway" \/ (err[r] = "busy" /\ busyRetries[r] < 1))
        reconnect == replay /\ err[r] = "unavailable" /\ retries[r] < MaxRetries
    IN
    /\ pc[r] = "decide"
    /\ \/ /\ resubmit
          /\ busyRetries' = [busyRetries EXCEPT ![r] = IF err[r] = "busy" THEN @ + 1 ELSE @]
          /\ Goto(r, "loop") /\ Fail(r, "none")
          /\ UNCHANGED retries
       \/ /\ reconnect
          /\ retries' = [retries EXCEPT ![r] = @ + 1]
          /\ Goto(r, "reset")
          /\ UNCHANGED <<busyRetries, err>>
       \/ /\ ~resubmit /\ ~reconnect
          /\ Goto(r, "end")
          /\ UNCHANGED <<retries, busyRetries, err>>
    /\ expected' = [expected EXCEPT ![r] = None]
    /\ responseCh' = [responseCh EXCEPT ![r] = "none"]
    /\ UNCHANGED <<executor, dialing, writeMu, awaited, cancelled, writes, refused>>

\* Before the next attempt: give up when closed, else closeConnAndFailPending,
\* which closes whatever connection is current and fails everyone pending on it
\* with this request's own error.
Reset(r) ==
    /\ pc[r] = "reset"
    /\ IF isClosed
       THEN Goto(r, "end") /\ UNCHANGED <<conn, goAway, socket, pending, responseCh, err>>
       ELSE Goto(r, "loop") /\ closeAndFail(err[r]) /\ Fail(r, "none")
    /\ UNCHANGED <<isClosed, retiring, activeRequests, connectInFlight, attempt, waiters,
                   writeMu, caller, writes, refused>>

\* endRequest: the last request of a retiring executor closes it.
EndRequest(r) ==
    /\ pc[r] = "end"
    /\ activeRequests' = activeRequests - 1
    /\ IF activeRequests' = 0 /\ retiring /\ ~isClosed
       THEN isClosed' = TRUE /\ closeAndFail("transport")
       ELSE UNCHANGED <<isClosed, conn, goAway, socket, pending, responseCh>>
    /\ Goto(r, IF r \in Heartbeats THEN "beat" ELSE "done")
    /\ cancelled' = [cancelled EXCEPT ![r] = FALSE]
    /\ UNCHANGED <<retiring, connectInFlight, attempt, waiters, writeMu, err,
                   expected, awaited, retries, busyRetries, writes, refused>>

\* heartbeatLoop after its PING: a failed one closes the connection.
Heartbeat(r) ==
    /\ pc[r] = "beat"
    /\ IF err[r] # "ok" /\ ~retiring /\ ~isClosed
       THEN closeAndFail(err[r])
       ELSE UNCHANGED <<conn, goAway, socket, pending, responseCh>>
    /\ Goto(r, "done")
    /\ UNCHANGED <<isClosed, retiring, activeRequests, connectInFlight, attempt, waiters,
                   writeMu, err, caller, writes, refused>>

----------------------------------------------------------------------------
\* The server answers a request whose bytes it has, and readerLoop delivers the
\* answer: the entry leaves e.pending, and a drain may be over.
Respond(r, class) ==
    /\ conn # None
    /\ pending[r] = "abandoned" \/ (pending[r] = "live" /\ pc[r] \in {"await", "cancel"})
    /\ settle([pending EXCEPT ![r] = "none"], goAway)
    /\ responseCh' = IF pending[r] = "live" THEN [responseCh EXCEPT ![r] = class] ELSE responseCh
    /\ refused' = IF class = "busy" THEN [refused EXCEPT ![r] = @ + 1] ELSE refused
    /\ UNCHANGED <<isClosed, retiring, activeRequests, connectInFlight, attempt, waiters,
                   writeMu, pc, err, caller, writes>>

\* readerLoop sees EOF, a reset or an invalid frame:
\* closeConnAndFailPendingIfCurrent.
ConnectionFails ==
    /\ conn # None
    /\ closeAndFail("transport")
    /\ UNCHANGED <<isClosed, retiring, activeRequests, connectInFlight, attempt, waiters,
                   writeMu, pc, err, caller, writes, refused>>

\* The timer of scheduleGoAwayDrain.
DrainTimeout ==
    /\ goAway
    /\ closeAndFail("transport")
    /\ UNCHANGED <<isClosed, retiring, activeRequests, connectInFlight, attempt, waiters,
                   writeMu, pc, err, caller, writes, refused>>

\* handleGoAway, under writeMu.
HandleGoAway ==
    /\ conn # None /\ ~goAway
    /\ writeMu = None
    /\ settle(pending, TRUE)
    /\ UNCHANGED <<isClosed, retiring, activeRequests, connectInFlight, attempt, waiters,
                   writeMu, pc, responseCh, err, caller, writes, refused>>

Close ==
    /\ ~isClosed
    /\ isClosed' = TRUE
    /\ closeAndFail("transport")
    /\ UNCHANGED <<retiring, activeRequests, connectInFlight, attempt, waiters,
                   writeMu, pc, err, caller, writes, refused>>

Retire ==
    /\ ~isClosed /\ ~retiring
    /\ retiring' = TRUE
    /\ IF activeRequests = 0
       THEN isClosed' = TRUE /\ closeAndFail("transport")
       ELSE UNCHANGED <<isClosed, conn, goAway, socket, pending, responseCh>>
    /\ UNCHANGED <<activeRequests, connectInFlight, attempt, waiters,
                   writeMu, pc, err, caller, writes, refused>>

----------------------------------------------------------------------------
\* What the goroutine of a request does next.
Step(r) ==
    \/ Loop(r) \/ Connect(r) \/ DrainWait(r) \/ DialWait(r) \/ Capture(r) \/ Credit(r)
    \/ AddPending(r) \/ LockWrite(r) \/ CheckWrite(r) \/ Write(r) \/ Remove(r)
    \/ CloseCurrent(r) \/ Await(r) \/ CancelPending(r) \/ Decide(r) \/ Reset(r)
    \/ EndRequest(r) \/ Heartbeat(r)

Next ==
    \/ \E r \in Requests : BeginRequest(r) \/ Cancel(r) \/ Step(r)
    \/ \E r \in Requests, class \in {"ok", "busy"} : Respond(r, class)
    \/ \E a \in Attempts : Dial(a) \/ Install(a)
    \/ ConnectionFails \/ DrainTimeout \/ HandleGoAway \/ Close \/ Retire

\* Goroutines that can run do; every request has a deadline (NativeOptions.Timeout
\* unless the caller brought an earlier one); a dial ends within the same timeout;
\* a drain timer fires.  The server need not answer and nothing need go wrong.
Fairness ==
    /\ \A r \in Requests : WF_vars(Step(r)) /\ WF_vars(Cancel(r))
    /\ \A a \in Attempts : WF_vars(Dial(a) \/ Install(a))
    /\ WF_vars(DrainTimeout)

Spec == Init /\ [][Next]_vars /\ Fairness

----------------------------------------------------------------------------
\* Nobody waits for an answer that cannot come: a request whose bytes are out and
\* whose response channel is empty is in e.pending, alive, and the connection that
\* took its bytes is still the current one, so its reader, its failure or its
\* drain will settle the request (native_request.go:261, native_reader.go:63-92).
NoLostRequest ==
    \A r \in Requests :
        pc[r] = "await" /\ responseCh[r] = "none" => pending[r] = "live" /\ conn = expected[r]

\* A request that may have reached the server is never written again, except after
\* a BUSY with which the server itself refused this request and called it safe to
\* retry.  "GOAWAY is observed before this request is written.  Waiting for the old
\* connection to drain and resubmitting is safe" (native_request.go:86).
AtMostOnce == \A r \in Requests : writes[r] <= 1 + refused[r]

\* What the code keeps of AtMostOnce: neither a lost connection nor a GOAWAY of its
\* own makes the retry loop resubmit a written request.  The one way to a write the
\* server did not ask for is a failed PING: heartbeatLoop fails the requests in flight
\* with the PING's own error (native_connection.go:374), which they take for theirs.
\* So two errors of a PING resubmit them: the GOAWAY it saw before it was written, and
\* the BUSY the server gave to the PING and not to them (native_request.go:86-97).
\* Each such PING resubmits a request once.
FailedBeats == {h \in Heartbeats : pc[h] = "done" /\ err[h] \in {"goAway", "busy"}}
ResentOnlyByBeat ==
    \A r \in Requests : writes[r] <= 1 + refused[r] + Cardinality(FailedBeats)

\* A drain always has a request to wait for: the last one to leave, by its answer,
\* by an error before the write or by cancellation, closes the connection, so
\* requests parked on goAwayDone are released.
DrainHasLive == goAway => conn # None /\ hasLive(pending)

\* Every socket has an owner: it is the current connection or its attempt is about
\* to install or close it.  After Close, and once a retiring executor has no request
\* left, there is no connection, whatever attempt was in flight at that moment.
NoLeakedConnection ==
    /\ \A a \in Attempts : socket[a] = "open" => a = conn \/ attempt[a] = "opened"
    /\ isClosed => conn = None
    /\ retiring /\ activeRequests = 0 => isClosed
    /\ activeRequests = Cardinality({r \in Requests : pc[r] \in Inside})

\* Every request returns: no combination of dial, drain, lock and retry leaves one
\* behind once its deadline has passed.
EveryRequestReturns == \A r \in Requests : pc[r] # "idle" ~> pc[r] = "done"

\* "commandNotSentError marks a local command failure that happened before any
\* request bytes were written" (request_delivery.go:24): a request that returns
\* such an error wrote nothing, apart from writes the server refused with a BUSY.
NotSentIsTrue ==
    \A r \in Requests :
        pc[r] = "done" /\ err[r] \in NotSentErrors => writes[r] <= refused[r]
============================================================================
