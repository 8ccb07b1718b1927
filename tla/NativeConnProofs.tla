-------------------------- MODULE NativeConnProofs --------------------------
(* Proofs about NativeConn, for any set of requests, any number of connection *)
(* attempts and any retry limit.  ConnInv is the inductive invariant; its     *)
(* parts say what the executor's counters count, who owns a socket, what a    *)
(* request between its capture and its decision may rely on, and how often it *)
(* was written.                                                               *)
(*                                                                            *)
(* Then about Frames, for any requests, bounds and lengths.  FramesInv is the *)
(* inductive invariant; its parts say which answers have a state and what it  *)
(* holds, what each state counts, and that the two counters are the sums.     *)
EXTENDS NativeConn, Frames, FiniteSetTheorems, TLAPS

InFlight == {r \in Requests : pc[r] \in Inside}
WaitersOf(a) == {r \in Requests : pc[r] = "dialWait" /\ awaited[r] = a}

\* Both counters count: activeRequests the requests between beginRequest and
\* endRequest, attempt.waiters the requests parked on that attempt.
CountsOK ==
    /\ activeRequests = Cardinality(InFlight)
    /\ \A a \in Attempts : waiters[a] = Cardinality(WaitersOf(a))
    /\ \A r \in Requests : pc[r] = "dialWait" => awaited[r] \in Attempts
    /\ retiring /\ activeRequests = 0 => isClosed

\* The attempt in flight has not ended and there is no connection beside it; the
\* current connection is an installed one; an open socket has an owner.
SocketsOK ==
    /\ connectInFlight # None =>
          conn = None /\ attempt[connectInFlight] \in {"dialing", "opened"}
    /\ conn # None => attempt[conn] = "installed"
    /\ \A a \in Attempts : socket[a] = "open" => a = conn \/ attempt[a] = "opened"
    /\ isClosed => conn = None

\* What a request with a captured connection relies on: the connection was
\* installed; until it has an answer it is alive in e.pending; and once its bytes
\* are out it is alive only on the current connection.
CapturedOK ==
    /\ \A r \in Requests :
          pc[r] \in {"credit", "add", "lock", "check", "write", "await", "cancel",
                     "remove", "closeCurrent"}
             => expected[r] \in Attempts /\ attempt[expected[r]] = "installed"
    /\ \A r \in Requests :
          pc[r] \in {"lock", "check", "write", "await"} /\ responseCh[r] = "none"
             => pending[r] = "live"
    /\ \A r \in Requests :
          pc[r] \in {"await", "cancel"} /\ pending[r] = "live" => conn = expected[r]

DrainOK == goAway => conn # None /\ hasLive(pending)

\* A request that is past its attempt has an error class or an outcome, one that
\* closes its connection failed after the write started, and one that resets the
\* connection found it gone before.
ErrorsOK ==
    \A r \in Requests :
       /\ pc[r] \in {"remove", "closeCurrent", "cancel", "decide", "end", "beat"} => err[r] # "none"
       /\ pc[r] = "closeCurrent" => err[r] \in {"context", "transport"}
       /\ pc[r] = "cancel" => err[r] = "context"
       /\ pc[r] = "reset" => err[r] = "unavailable"
       /\ pc[r] = "beat" => r \in Heartbeats
       /\ pc[r] = "remove" => err[r] \in NotSentErrors \cup {"context", "transport"}

BeforeWrite == {"idle", "loop", "connect", "drainWait", "dialWait", "capture", "credit",
                "add", "lock", "check", "write", "reset"}

\* The request was written at most once more than the server refused it or a failed PING
\* handed it a GOAWAY or BUSY, and not even that while it is before its write or about
\* to be resubmitted.  Such an error on its way to the request has been counted.
Beats == Cardinality(FailedBeats)
WrittenOnce(r) ==
    /\ responseCh[r] \in {"goAway", "busy"} =>
         writes[r] + (IF pc[r] \in BeforeWrite THEN 1 ELSE 0) <= refused[r] + Beats
    /\ writes[r] <= 1 + refused[r] + Beats
    /\ pc[r] \in BeforeWrite => writes[r] <= refused[r] + Beats
    /\ pc[r] = "remove" /\ err[r] \in NotSentErrors => writes[r] <= refused[r] + Beats
    /\ pc[r] = "decide" /\ err[r] \in {"goAway", "unavailable", "busy"}
          => writes[r] <= refused[r] + Beats
WritesOK == \A r \in Requests : WrittenOnce(r)

ConnInv == TypeOK /\ CountsOK /\ SocketsOK /\ CapturedOK /\ DrainOK /\ ErrorsOK /\ WritesOK

----------------------------------------------------------------------------
\* A finite set with a member has at least one, and one less without it.
LEMMA CountOne ==
    ASSUME NEW S, IsFiniteSet(S), NEW x \in S
    PROVE  /\ Cardinality(S) \in Nat /\ Cardinality(S) > 0
           /\ Cardinality(S \ {x}) = Cardinality(S) - 1
<1>1. Cardinality(S) \in Nat
  BY FS_CardinalityType
<1>2. Cardinality(S) # 0
  BY FS_EmptySet
<1>3. Cardinality(S \ {x}) = Cardinality(S) - 1
  BY FS_RemoveElement
<1> QED
  BY <1>1, <1>2, <1>3

\* The requests the two counters count are finitely many.
LEMMA CountedFinite ==
    IsFiniteSet(InFlight) /\ \A a \in Attempts : IsFiniteSet(WaitersOf(a))
<1>1. InFlight \subseteq Requests /\ \A a \in Attempts : WaitersOf(a) \subseteq Requests
  BY DEF InFlight, WaitersOf
<1> QED
  BY <1>1, FS_Subset, ConnConstants

\* What closeConnLocked assigns.
LEMMA CloseTypes ==
    ASSUME TypeOK, closeConnLocked
    PROVE  conn' = None /\ goAway' = FALSE /\ socket' \in [Attempts -> {"none", "open", "closed"}]
BY DEF TypeOK, closeConnLocked

\* What closeAndFail assigns: nothing is pending any more, and whoever was alive
\* has the error in its channel.
LEMMA CloseAndFailTypes ==
    ASSUME TypeOK, NEW class \in {"none", "ok"} \cup Errors, closeAndFail(class)
    PROVE  /\ conn' = None /\ goAway' = FALSE
           /\ socket' \in [Attempts -> {"none", "open", "closed"}]
           /\ pending' \in [Requests -> {"none", "live", "abandoned"}]
           /\ responseCh' \in [Requests -> {"none", "ok"} \cup Errors]
<1>1. responseCh' \in [Requests -> {"none", "ok"} \cup Errors]
  BY DEF TypeOK, closeAndFail
<1>2. pending' \in [Requests -> {"none", "live", "abandoned"}]
  BY DEF closeAndFail
<1> QED
  BY <1>1, <1>2, CloseTypes DEF closeAndFail

\* What settle assigns, whether or not the drain is over.
LEMMA SettleTypes ==
    ASSUME TypeOK, NEW p \in [Requests -> {"none", "live", "abandoned"}],
           NEW draining \in BOOLEAN, settle(p, draining)
    PROVE  /\ conn' \in {conn, None} /\ goAway' \in BOOLEAN
           /\ socket' \in [Attempts -> {"none", "open", "closed"}]
           /\ pending' \in [Requests -> {"none", "live", "abandoned"}]
<1>1. CASE draining /\ ~hasLive(p)
  BY <1>1, CloseTypes DEF settle
<1>2. CASE ~(draining /\ ~hasLive(p))
  BY <1>2 DEF settle, TypeOK
<1> QED
  BY <1>1, <1>2

\* Every step keeps the types; the counters stay natural numbers because they count.
LEMMA TypeStep == ConnInv /\ [Next]_vars => TypeOK'
<1> SUFFICES ASSUME ConnInv, [Next]_vars PROVE TypeOK'
  OBVIOUS
<1> USE DEF ConnInv, TypeOK, PCs, Inside, Errors, NotSentErrors
<1>1. ASSUME NEW r \in Requests, BeginRequest(r) PROVE TypeOK'
  BY <1>1 DEF BeginRequest, Goto, Fail, dialing, caller
<1>2. ASSUME NEW r \in Requests, Cancel(r) PROVE TypeOK'
  BY <1>2 DEF Cancel, executor, dialing
<1>3. ASSUME NEW r \in Requests, Loop(r) PROVE TypeOK'
  BY <1>3 DEF Loop, Goto, Fail, executor, dialing, caller
<1>4. ASSUME NEW r \in Requests, Connect(r) PROVE TypeOK'
  BY <1>4, SMTT(40) DEF Connect, Goto, Fail, dialing
<1>5. ASSUME NEW r \in Requests, DrainWait(r) PROVE TypeOK'
  BY <1>5 DEF DrainWait, Goto, Fail, executor, dialing, caller
<1>6. ASSUME NEW r \in Requests, DialWait(r) PROVE TypeOK'
  <2> DEFINE a == awaited[r]
  <2>1. a \in Attempts /\ r \in WaitersOf(a)
    BY <1>6 DEF DialWait, CountsOK, WaitersOf
  <2> HIDE DEF a
  <2>2. waiters[a] - 1 \in Nat
    <3>1. Cardinality(WaitersOf(a)) \in Nat /\ Cardinality(WaitersOf(a)) > 0
      BY <2>1, CountedFinite, CountOne, Zenon
    <3>2. waiters[a] = Cardinality(WaitersOf(a))
      BY <2>1 DEF CountsOK
    <3> QED
      BY <3>1, <3>2
  <2>3. waiters' \in [Attempts -> Nat]
    BY <1>6, <2>1, <2>2 DEF DialWait, TypeOK, a
  <2> QED
    BY <1>6, <2>3 DEF TypeOK, PCs, Inside, Errors, NotSentErrors, DialWait, Goto, Fail
<1>7. ASSUME NEW r \in Requests, Capture(r) PROVE TypeOK'
  BY <1>7 DEF Capture, Goto, Fail, executor, dialing
<1>8. ASSUME NEW r \in Requests, Credit(r) PROVE TypeOK'
  BY <1>8 DEF Credit, Goto, Fail, executor, dialing, caller
<1>9. ASSUME NEW r \in Requests, AddPending(r) PROVE TypeOK'
  BY <1>9 DEF AddPending, Goto, dialing, caller
<1>10. ASSUME NEW r \in Requests, LockWrite(r) PROVE TypeOK'
  BY <1>10 DEF LockWrite, Goto, Fail, executor, dialing, caller
<1>11. ASSUME NEW r \in Requests, CheckWrite(r) PROVE TypeOK'
  BY <1>11 DEF CheckWrite, Goto, Fail, executor, dialing, caller
<1>12. ASSUME NEW r \in Requests, Write(r) PROVE TypeOK'
  BY <1>12 DEF Write, Goto, Fail, executor, dialing, caller
<1>13. ASSUME NEW r \in Requests, Remove(r) PROVE TypeOK'
  BY <1>13, ZenonT(40) DEF Remove, Goto, settle, closeConnLocked, caller
<1>14. ASSUME NEW r \in Requests, CloseCurrent(r) PROVE TypeOK'
  <2>1. err[r] \in {"none", "ok"} \cup Errors
    BY <1>14 DEF TypeOK, PCs, Inside, Errors, NotSentErrors
  <2>2. CASE closeAndFail(err[r])
    BY <1>14, <2>1, <2>2, CloseAndFailTypes
       DEF TypeOK, PCs, Inside, Errors, NotSentErrors, CloseCurrent, Goto, Fail, caller
  <2>3. CASE UNCHANGED <<conn, goAway, socket, pending, responseCh>>
    BY <1>14, <2>3
       DEF TypeOK, PCs, Inside, Errors, NotSentErrors, CloseCurrent, Goto, Fail, caller
  <2> QED
    BY <1>14, <2>2, <2>3 DEF CloseCurrent
<1>15. ASSUME NEW r \in Requests, Await(r) PROVE TypeOK'
  BY <1>15 DEF Await, Goto, Fail, executor, dialing, caller
<1>16. ASSUME NEW r \in Requests, CancelPending(r) PROVE TypeOK'
  BY <1>16, ZenonT(40) DEF CancelPending, Goto, settle, closeConnLocked, caller
<1>17. ASSUME NEW r \in Requests, Decide(r) PROVE TypeOK'
  <2>1. retries' \in [Requests -> 0..MaxRetries] /\ busyRetries' \in [Requests -> 0..1]
    BY <1>17, ConnConstants DEF Decide, TypeOK
  <2>2. err' \in [Requests -> {"none", "ok"} \cup Errors]
    BY <1>17 DEF Decide, Fail, TypeOK
  <2>3. pc' \in [Requests -> PCs]
    BY <1>17 DEF Decide, Goto, TypeOK, PCs
  <2> QED
    BY <1>17, <2>1, <2>2, <2>3 DEF TypeOK, Decide, executor, dialing
<1>18. ASSUME NEW r \in Requests, Reset(r) PROVE TypeOK'
  <2>1. err[r] \in {"none", "ok"} \cup Errors
    BY <1>18 DEF TypeOK, PCs, Inside, Errors, NotSentErrors
  <2>2. CASE closeAndFail(err[r])
    <3>1. err' \in [Requests -> {"none", "ok"} \cup Errors] /\ pc' \in [Requests -> PCs]
      BY <1>18 DEF Reset, Goto, Fail, TypeOK, PCs
    <3> QED
      BY <1>18, <2>1, <2>2, <3>1, CloseAndFailTypes DEF TypeOK, Reset, caller
  <2>3. CASE UNCHANGED <<conn, goAway, socket, pending, responseCh>>
    BY <1>18, <2>3 DEF TypeOK, PCs, Inside, Errors, NotSentErrors, Reset, Goto, Fail, caller
  <2> QED
    BY <1>18, <2>2, <2>3 DEF Reset
<1>19. ASSUME NEW r \in Requests, EndRequest(r) PROVE TypeOK'
  <2>1. activeRequests - 1 \in Nat
    <3>1. r \in InFlight
      BY <1>19 DEF EndRequest, InFlight, Inside, PCs
    <3>2. Cardinality(InFlight) \in Nat /\ Cardinality(InFlight) > 0
      BY <3>1, CountedFinite, CountOne, Zenon
    <3> QED
      BY <3>2 DEF CountsOK
  <2>2. activeRequests' \in Nat
    BY <1>19, <2>1 DEF EndRequest
  <2>3. "transport" \in {"none", "ok"} \cup Errors
    BY <1>19 DEF TypeOK, PCs, Inside, Errors, NotSentErrors
  <2>4. CASE closeAndFail("transport")
    BY <1>19, <2>2, <2>3, <2>4, CloseAndFailTypes
       DEF TypeOK, PCs, Inside, Errors, NotSentErrors, EndRequest, Goto, Fail, caller
  <2>5. CASE UNCHANGED <<conn, goAway, socket, pending, responseCh>>
    BY <1>19, <2>2, <2>5
       DEF TypeOK, PCs, Inside, Errors, NotSentErrors, EndRequest, Goto, Fail, caller
  <2> QED
    BY <1>19, <2>4, <2>5 DEF EndRequest
<1>20. ASSUME NEW r \in Requests, Heartbeat(r) PROVE TypeOK'
  <2>1. err[r] \in {"none", "ok"} \cup Errors
    BY <1>20 DEF TypeOK, PCs, Inside, Errors, NotSentErrors
  <2>2. CASE closeAndFail(err[r])
    BY <1>20, <2>1, <2>2, CloseAndFailTypes
       DEF TypeOK, PCs, Inside, Errors, NotSentErrors, Heartbeat, Goto, Fail, caller
  <2>3. CASE UNCHANGED <<conn, goAway, socket, pending, responseCh>>
    BY <1>20, <2>3
       DEF TypeOK, PCs, Inside, Errors, NotSentErrors, Heartbeat, Goto, Fail, caller
  <2> QED
    BY <1>20, <2>2, <2>3 DEF Heartbeat
<1>21. ASSUME NEW r \in Requests, NEW class \in {"ok", "busy"}, Respond(r, class) PROVE TypeOK'
  <2>1. [pending EXCEPT ![r] = "none"] \in [Requests -> {"none", "live", "abandoned"}]
    BY DEF TypeOK
  <2>2. conn' \in {conn, None} /\ goAway' \in BOOLEAN
        /\ socket' \in [Attempts -> {"none", "open", "closed"}]
        /\ pending' \in [Requests -> {"none", "live", "abandoned"}]
    <3>1. goAway \in BOOLEAN
      BY DEF TypeOK
    <3> HIDE DEF TypeOK
    <3> QED
      BY <1>21, <2>1, <3>1, SettleTypes, Zenon DEF Respond
  <2>3. responseCh' \in [Requests -> {"none", "ok"} \cup Errors]
    BY <1>21 DEF Respond, TypeOK, Errors
  <2> QED
    BY <1>21, <2>2, <2>3 DEF TypeOK, Respond, caller
<1>22. ASSUME NEW a \in Attempts, Dial(a) PROVE TypeOK'
  BY <1>22 DEF Dial, dialing, caller
<1>23. ASSUME NEW a \in Attempts, Install(a) PROVE TypeOK'
  BY <1>23 DEF Install, caller
<1>24. ASSUME ConnectionFails PROVE TypeOK'
  BY <1>24 DEF ConnectionFails, closeAndFail, closeConnLocked, caller
<1>25. ASSUME DrainTimeout PROVE TypeOK'
  BY <1>25 DEF DrainTimeout, closeAndFail, closeConnLocked, caller
<1>26. ASSUME HandleGoAway PROVE TypeOK'
  BY <1>26, ZenonT(40) DEF HandleGoAway, settle, closeConnLocked, caller
<1>27. ASSUME Close PROVE TypeOK'
  BY <1>27 DEF Close, closeAndFail, closeConnLocked, caller
<1>28. ASSUME Retire PROVE TypeOK'
  <2>1. "transport" \in {"none", "ok"} \cup Errors
    BY <1>28 DEF TypeOK, PCs, Inside, Errors, NotSentErrors
  <2>2. CASE closeAndFail("transport")
    BY <1>28, <2>1, <2>2, CloseAndFailTypes
       DEF TypeOK, PCs, Inside, Errors, NotSentErrors, Retire, Goto, Fail, caller
  <2>3. CASE UNCHANGED <<conn, goAway, socket, pending, responseCh>>
    BY <1>28, <2>3
       DEF TypeOK, PCs, Inside, Errors, NotSentErrors, Retire, Goto, Fail, caller
  <2> QED
    BY <1>28, <2>2, <2>3 DEF Retire
<1>29. CASE UNCHANGED vars
  BY <1>29 DEF vars, executor, dialing, caller
<1> QED
  BY <1>1, <1>2, <1>3, <1>4, <1>5, <1>6, <1>7, <1>8, <1>9, <1>10, <1>11, <1>12, <1>13,
     <1>14, <1>15, <1>16, <1>17, <1>18, <1>19, <1>20, <1>21, <1>22, <1>23, <1>24, <1>25,
     <1>26, <1>27, <1>28, <1>29
     DEF Next, Step

\* A drain that settle leaves under way has a connection and somebody alive.
LEMMA SettleDrains ==
    ASSUME NEW p, NEW draining, settle(p, draining), goAway'
    PROVE  draining /\ hasLive(p) /\ pending' = p /\ conn' = conn
BY DEF settle, closeConnLocked


\* Sockets keep their owners: an attempt ends before or together with the moment
\* it leaves connectInFlight, it installs a connection only when there is none, and
\* a closed executor installs nothing.
LEMMA SocketsStep == ConnInv /\ [Next]_vars => SocketsOK'
<1> SUFFICES ASSUME ConnInv, [Next]_vars PROVE SocketsOK'
  OBVIOUS
<1> USE DEF ConnInv, SocketsOK, TypeOK, None, Attempts
<1>1. ASSUME NEW r \in Requests, BeginRequest(r) PROVE SocketsOK'
  BY <1>1 DEF BeginRequest, Goto, Fail, dialing, caller
<1>2. ASSUME NEW r \in Requests, Cancel(r) PROVE SocketsOK'
  BY <1>2 DEF Cancel, executor, dialing
<1>3. ASSUME NEW r \in Requests, Loop(r) PROVE SocketsOK'
  BY <1>3 DEF Loop, Goto, Fail, executor, dialing, caller
<1>4. ASSUME NEW r \in Requests, Connect(r) PROVE SocketsOK'
  <2> USE DEF SocketsOK, TypeOK, None, Attempts
  <2>1. CASE UNCHANGED <<connectInFlight, dialing>>
    BY <1>4, <2>1 DEF Connect, dialing
  <2>2. CASE conn = None /\ connectInFlight # None /\ connectInFlight' = connectInFlight
             /\ UNCHANGED <<attempt, socket>>
    BY <1>4, <2>2 DEF Connect
  <2>3. ASSUME conn = None, NEW a \in Attempts, attempt[a] = "unused", connectInFlight' = a,
               attempt' = [attempt EXCEPT ![a] = "dialing"], UNCHANGED socket
        PROVE  SocketsOK'
    BY <1>4, <2>3 DEF Connect
  <2> QED
    BY <1>4, <2>1, <2>2, <2>3 DEF Connect
<1>5. ASSUME NEW r \in Requests, DrainWait(r) PROVE SocketsOK'
  BY <1>5 DEF DrainWait, Goto, Fail, executor, dialing, caller
<1>6. ASSUME NEW r \in Requests, DialWait(r) PROVE SocketsOK'
  BY <1>6 DEF DialWait, Goto, Fail
<1>7. ASSUME NEW r \in Requests, Capture(r) PROVE SocketsOK'
  BY <1>7 DEF Capture, Goto, Fail, executor, dialing
<1>8. ASSUME NEW r \in Requests, Credit(r) PROVE SocketsOK'
  BY <1>8 DEF Credit, Goto, Fail, executor, dialing, caller
<1>9. ASSUME NEW r \in Requests, AddPending(r) PROVE SocketsOK'
  BY <1>9 DEF AddPending, Goto, dialing, caller
<1>10. ASSUME NEW r \in Requests, LockWrite(r) PROVE SocketsOK'
  BY <1>10 DEF LockWrite, Goto, Fail, executor, dialing, caller
<1>11. ASSUME NEW r \in Requests, CheckWrite(r) PROVE SocketsOK'
  BY <1>11 DEF CheckWrite, Goto, Fail, executor, dialing, caller
<1>12. ASSUME NEW r \in Requests, Write(r) PROVE SocketsOK'
  BY <1>12 DEF Write, Goto, Fail, executor, dialing, caller
<1>13. ASSUME NEW r \in Requests, Remove(r) PROVE SocketsOK'
  BY <1>13, ZenonT(60) DEF Remove, Goto, settle, closeConnLocked, caller
<1>14. ASSUME NEW r \in Requests, CloseCurrent(r) PROVE SocketsOK'
  BY <1>14, ZenonT(40) DEF CloseCurrent, Goto, closeAndFail, closeConnLocked, caller
<1>15. ASSUME NEW r \in Requests, Await(r) PROVE SocketsOK'
  BY <1>15 DEF Await, Goto, Fail, executor, dialing, caller
<1>16. ASSUME NEW r \in Requests, CancelPending(r) PROVE SocketsOK'
  BY <1>16, ZenonT(40) DEF CancelPending, Goto, settle, closeConnLocked, caller
<1>17. ASSUME NEW r \in Requests, Decide(r) PROVE SocketsOK'
  BY <1>17 DEF Decide, Goto, Fail, executor, dialing
<1>18. ASSUME NEW r \in Requests, Reset(r) PROVE SocketsOK'
  <2>1. CASE isClosed
    BY <1>18, <2>1 DEF SocketsOK, TypeOK, None, Attempts, Reset
  <2>2. CASE ~isClosed
    <3>1. closeAndFail(err[r]) /\ UNCHANGED <<isClosed, connectInFlight, attempt>>
      BY <1>18, <2>2 DEF Reset
    <3> QED
      BY <3>1 DEF closeAndFail, closeConnLocked, SocketsOK, TypeOK, None, Attempts
  <2> QED
    BY <2>1, <2>2
<1>19. ASSUME NEW r \in Requests, EndRequest(r) PROVE SocketsOK'
  BY <1>19, ZenonT(40) DEF EndRequest, Goto, closeAndFail, closeConnLocked
<1>20. ASSUME NEW r \in Requests, Heartbeat(r) PROVE SocketsOK'
  BY <1>20, ZenonT(40) DEF Heartbeat, Goto, closeAndFail, closeConnLocked, caller
<1>21. ASSUME NEW r \in Requests, NEW class \in {"ok", "busy"}, Respond(r, class)
      PROVE  SocketsOK'
  BY <1>21 DEF Respond, settle, closeConnLocked, caller
<1>22. ASSUME NEW a \in Attempts, Dial(a) PROVE SocketsOK'
  <2> USE DEF SocketsOK, TypeOK, None, Attempts
  <2>1. CASE attempt' = [attempt EXCEPT ![a] = "opened"] /\ UNCHANGED connectInFlight
             /\ socket' = [socket EXCEPT ![a] = "open"]
    BY <1>22, <2>1 DEF Dial
  <2>2. CASE attempt' = [attempt EXCEPT ![a] = "failed"] /\ UNCHANGED socket
             /\ connectInFlight' = IF connectInFlight = a THEN None ELSE connectInFlight
    BY <1>22, <2>2 DEF Dial
  <2> QED
    BY <1>22, <2>1, <2>2 DEF Dial
<1>23. ASSUME NEW a \in Attempts, Install(a) PROVE SocketsOK'
  <2> USE DEF SocketsOK, TypeOK, None, Attempts
  <2>1. a # None /\ attempt[a] = "opened" /\ conn # a
    BY <1>23 DEF Install
  <2>2. ASSUME attempt' = [attempt EXCEPT ![a] = "failed"], socket' = [socket EXCEPT ![a] =
                 "closed"],
               UNCHANGED <<conn, isClosed>>,
               connectInFlight' = IF connectInFlight = a THEN None ELSE connectInFlight
        PROVE  SocketsOK'
    BY <2>1, <2>2
  <2>3. ASSUME attempt' = [attempt EXCEPT ![a] = "installed"], conn' = a, ~isClosed,
               connectInFlight = a, connectInFlight' = None, UNCHANGED <<socket, isClosed>>
        PROVE  SocketsOK'
    BY <2>1, <2>3
  <2> QED
    BY <1>23, <2>2, <2>3 DEF Install
<1>24. ASSUME ConnectionFails PROVE SocketsOK'
  BY <1>24 DEF ConnectionFails, closeAndFail, closeConnLocked, caller
<1>25. ASSUME DrainTimeout PROVE SocketsOK'
  BY <1>25 DEF DrainTimeout, closeAndFail, closeConnLocked, caller
<1>26. ASSUME HandleGoAway PROVE SocketsOK'
  BY <1>26, ZenonT(40) DEF HandleGoAway, settle, closeConnLocked, caller
<1>27. ASSUME Close PROVE SocketsOK'
  BY <1>27 DEF Close, closeAndFail, closeConnLocked, caller
<1>28. ASSUME Retire PROVE SocketsOK'
  BY <1>28, ZenonT(40) DEF Retire, closeAndFail, closeConnLocked, caller
<1>29. CASE UNCHANGED vars
  BY <1>29 DEF vars, executor, dialing, caller
<1> QED
  BY <1>1, <1>2, <1>3, <1>4, <1>5, <1>6, <1>7, <1>8, <1>9, <1>10, <1>11, <1>12, <1>13,
     <1>14, <1>15, <1>16, <1>17, <1>18, <1>19, <1>20, <1>21, <1>22, <1>23, <1>24, <1>25,
     <1>26, <1>27, <1>28, <1>29
     DEF Next, Step

\* A request keeps what it relies on: it is taken out of e.pending by its answer, by
\* its own removal or together with the connection, and then it has been told.
LEMMA CapturedStep == ConnInv /\ [Next]_vars => CapturedOK'
<1> SUFFICES ASSUME ConnInv, [Next]_vars PROVE CapturedOK'
  OBVIOUS
<1> USE DEF ConnInv, CapturedOK, SocketsOK, TypeOK, DrainOK, ErrorsOK, hasLive
<1>1. ASSUME NEW r \in Requests, BeginRequest(r) PROVE CapturedOK'
  BY <1>1 DEF BeginRequest, Goto, Fail, dialing, caller
<1>2. ASSUME NEW r \in Requests, Cancel(r) PROVE CapturedOK'
  BY <1>2 DEF Cancel, executor, dialing
<1>3. ASSUME NEW r \in Requests, Loop(r) PROVE CapturedOK'
  BY <1>3 DEF Loop, Goto, Fail, executor, dialing, caller
<1>4. ASSUME NEW r \in Requests, Connect(r) PROVE CapturedOK'
  BY <1>4 DEF Connect, Goto, Fail, dialing
<1>5. ASSUME NEW r \in Requests, DrainWait(r) PROVE CapturedOK'
  BY <1>5 DEF DrainWait, Goto, Fail, executor, dialing, caller
<1>6. ASSUME NEW r \in Requests, DialWait(r) PROVE CapturedOK'
  BY <1>6 DEF DialWait, Goto, Fail
<1>7. ASSUME NEW r \in Requests, Capture(r) PROVE CapturedOK'
  BY <1>7 DEF Capture, Goto, Fail, executor, dialing
<1>8. ASSUME NEW r \in Requests, Credit(r) PROVE CapturedOK'
  BY <1>8 DEF Credit, Goto, Fail, executor, dialing, caller
<1>9. ASSUME NEW r \in Requests, AddPending(r) PROVE CapturedOK'
  BY <1>9 DEF AddPending, Goto, dialing, caller
<1>10. ASSUME NEW r \in Requests, LockWrite(r) PROVE CapturedOK'
  BY <1>10 DEF LockWrite, Goto, Fail, executor, dialing, caller
<1>11. ASSUME NEW r \in Requests, CheckWrite(r) PROVE CapturedOK'
  BY <1>11 DEF CheckWrite, Goto, Fail, executor, dialing, caller
<1>12. ASSUME NEW r \in Requests, Write(r) PROVE CapturedOK'
  BY <1>12 DEF Write, Goto, Fail, executor, dialing, caller
<1>13. ASSUME NEW r \in Requests, Remove(r) PROVE CapturedOK'
  BY <1>13 DEF Remove, Goto, settle, closeConnLocked, caller
<1>14. ASSUME NEW r \in Requests, CloseCurrent(r) PROVE CapturedOK'
  BY <1>14 DEF CloseCurrent, Goto, closeAndFail, closeConnLocked, caller
<1>15. ASSUME NEW r \in Requests, Await(r) PROVE CapturedOK'
  BY <1>15 DEF Await, Goto, Fail, executor, dialing, caller
<1>16. ASSUME NEW r \in Requests, CancelPending(r) PROVE CapturedOK'
  BY <1>16 DEF CancelPending, Goto, settle, closeConnLocked, caller
<1>17. ASSUME NEW r \in Requests, Decide(r) PROVE CapturedOK'
  BY <1>17 DEF Decide, Goto, Fail, executor, dialing
<1>18. ASSUME NEW r \in Requests, Reset(r) PROVE CapturedOK'
  BY <1>18 DEF Reset, Goto, Fail, closeAndFail, closeConnLocked, caller
<1>19. ASSUME NEW r \in Requests, EndRequest(r) PROVE CapturedOK'
  BY <1>19 DEF EndRequest, Goto, closeAndFail, closeConnLocked
<1>20. ASSUME NEW r \in Requests, Heartbeat(r) PROVE CapturedOK'
  BY <1>20 DEF Heartbeat, Goto, closeAndFail, closeConnLocked, caller
<1>21. ASSUME NEW r \in Requests, NEW class \in {"ok", "busy"}, Respond(r, class)
      PROVE  CapturedOK'
  BY <1>21 DEF Respond, settle, closeConnLocked, caller
<1>22. ASSUME NEW a \in Attempts, Dial(a) PROVE CapturedOK'
  BY <1>22 DEF Dial, dialing, caller
<1>23. ASSUME NEW a \in Attempts, Install(a) PROVE CapturedOK'
  <2>1. conn' # conn => conn = None
    BY <1>23 DEF Install, SocketsOK, None, Attempts
  <2>2. attempt[a] = "opened" /\ \A b \in Attempts : b # a => attempt'[b] = attempt[b]
    BY <1>23 DEF Install, TypeOK
  <2>3. None \notin Attempts
    BY DEF None, Attempts
  <2> QED
    BY <1>23, <2>1, <2>2, <2>3 DEF Install, CapturedOK, TypeOK, caller
<1>24. ASSUME ConnectionFails PROVE CapturedOK'
  BY <1>24 DEF ConnectionFails, closeAndFail, closeConnLocked, caller
<1>25. ASSUME DrainTimeout PROVE CapturedOK'
  BY <1>25 DEF DrainTimeout, closeAndFail, closeConnLocked, caller
<1>26. ASSUME HandleGoAway PROVE CapturedOK'
  BY <1>26 DEF HandleGoAway, settle, closeConnLocked, caller
<1>27. ASSUME Close PROVE CapturedOK'
  BY <1>27 DEF Close, closeAndFail, closeConnLocked, caller
<1>28. ASSUME Retire PROVE CapturedOK'
  BY <1>28 DEF Retire, closeAndFail, closeConnLocked, caller
<1>29. CASE UNCHANGED vars
  BY <1>29 DEF vars, executor, dialing, caller
<1> QED
  BY <1>1, <1>2, <1>3, <1>4, <1>5, <1>6, <1>7, <1>8, <1>9, <1>10, <1>11, <1>12, <1>13,
     <1>14, <1>15, <1>16, <1>17, <1>18, <1>19, <1>20, <1>21, <1>22, <1>23, <1>24, <1>25,
     <1>26, <1>27, <1>28, <1>29
     DEF Next, Step

\* A drain keeps somebody to wait for: whoever leaves e.pending settles the drain,
\* and a cancelled request that is not on the current connection is not alive.
LEMMA DrainStep == ConnInv /\ [Next]_vars => DrainOK'
<1> SUFFICES ASSUME ConnInv, [Next]_vars PROVE DrainOK'
  OBVIOUS
<1> USE DEF ConnInv, CapturedOK, SocketsOK, TypeOK, DrainOK, hasLive, None
<1>1. ASSUME NEW r \in Requests, BeginRequest(r) PROVE DrainOK'
  BY <1>1 DEF BeginRequest, Goto, Fail, dialing, caller
<1>2. ASSUME NEW r \in Requests, Cancel(r) PROVE DrainOK'
  BY <1>2 DEF Cancel, executor, dialing
<1>3. ASSUME NEW r \in Requests, Loop(r) PROVE DrainOK'
  BY <1>3 DEF Loop, Goto, Fail, executor, dialing, caller
<1>4. ASSUME NEW r \in Requests, Connect(r) PROVE DrainOK'
  BY <1>4 DEF Connect, Goto, Fail, dialing
<1>5. ASSUME NEW r \in Requests, DrainWait(r) PROVE DrainOK'
  BY <1>5 DEF DrainWait, Goto, Fail, executor, dialing, caller
<1>6. ASSUME NEW r \in Requests, DialWait(r) PROVE DrainOK'
  BY <1>6 DEF DialWait, Goto, Fail
<1>7. ASSUME NEW r \in Requests, Capture(r) PROVE DrainOK'
  BY <1>7 DEF Capture, Goto, Fail, executor, dialing
<1>8. ASSUME NEW r \in Requests, Credit(r) PROVE DrainOK'
  BY <1>8 DEF Credit, Goto, Fail, executor, dialing, caller
<1>9. ASSUME NEW r \in Requests, AddPending(r) PROVE DrainOK'
  BY <1>9 DEF AddPending, Goto, dialing, caller
<1>10. ASSUME NEW r \in Requests, LockWrite(r) PROVE DrainOK'
  BY <1>10 DEF LockWrite, Goto, Fail, executor, dialing, caller
<1>11. ASSUME NEW r \in Requests, CheckWrite(r) PROVE DrainOK'
  BY <1>11 DEF CheckWrite, Goto, Fail, executor, dialing, caller
<1>12. ASSUME NEW r \in Requests, Write(r) PROVE DrainOK'
  BY <1>12 DEF Write, Goto, Fail, executor, dialing, caller
<1>13. ASSUME NEW r \in Requests, Remove(r) PROVE DrainOK'
  <2>1. goAway' => goAway /\ hasLive([pending EXCEPT ![r] = "none"]) /\ pending' =
          [pending EXCEPT ![r] = "none"] /\ conn' = conn
    BY <1>13, SettleDrains, Zenon DEF Remove
  <2> QED
    BY <2>1 DEF DrainOK
<1>14. ASSUME NEW r \in Requests, CloseCurrent(r) PROVE DrainOK'
  BY <1>14 DEF CloseCurrent, Goto, closeAndFail, closeConnLocked, caller
<1>15. ASSUME NEW r \in Requests, Await(r) PROVE DrainOK'
  BY <1>15 DEF Await, Goto, Fail, executor, dialing, caller
<1>16. ASSUME NEW r \in Requests, CancelPending(r) PROVE DrainOK'
  <2> HIDE DEF CapturedOK, SocketsOK, TypeOK, DrainOK, hasLive, None
  <2> SUFFICES ASSUME goAway' PROVE conn' # None /\ hasLive(pending')
    BY DEF DrainOK, hasLive
  <2>1. CASE r \in Control
    <3>1. goAway /\ hasLive([pending EXCEPT ![r] = "none"])
          /\ pending' = [pending EXCEPT ![r] = "none"] /\ conn' = conn
      BY <1>16, <2>1, SettleDrains, Zenon DEF CancelPending
    <3> QED
      BY <3>1 DEF DrainOK
  <2>2. CASE r \notin Control /\ (pending[r] = "none" \/ conn # expected[r])
    <3>1. pending[r] # "live"
      BY <1>16, <2>2 DEF CancelPending, CapturedOK
    <3>2. pending' = [pending EXCEPT ![r] = "none"] /\ UNCHANGED <<conn, goAway>>
      BY <1>16, <2>2 DEF CancelPending
    <3> QED
      BY <3>1, <3>2 DEF DrainOK, hasLive, TypeOK
  <2>3. CASE r \notin Control /\ pending[r] # "none" /\ conn = expected[r]
    <3>1. hasLive([pending EXCEPT ![r] = "abandoned"])
          /\ pending' = [pending EXCEPT ![r] = "abandoned"] /\ conn' = conn
      BY <1>16, <2>3, SettleDrains, Zenon DEF CancelPending
    <3>2. conn \in Attempts
      BY <1>16, <2>3 DEF CancelPending, CapturedOK
    <3> QED
      BY <3>1, <3>2 DEF None, Attempts
  <2> QED
    BY <2>1, <2>2, <2>3
<1>17. ASSUME NEW r \in Requests, Decide(r) PROVE DrainOK'
  BY <1>17 DEF Decide, Goto, Fail, executor, dialing
<1>18. ASSUME NEW r \in Requests, Reset(r) PROVE DrainOK'
  BY <1>18 DEF Reset, Goto, Fail, closeAndFail, closeConnLocked, caller
<1>19. ASSUME NEW r \in Requests, EndRequest(r) PROVE DrainOK'
  BY <1>19 DEF EndRequest, Goto, closeAndFail, closeConnLocked
<1>20. ASSUME NEW r \in Requests, Heartbeat(r) PROVE DrainOK'
  BY <1>20 DEF Heartbeat, Goto, closeAndFail, closeConnLocked, caller
<1>21. ASSUME NEW r \in Requests, NEW class \in {"ok", "busy"}, Respond(r, class) PROVE DrainOK'
  <2>1. goAway' => goAway /\ hasLive([pending EXCEPT ![r] = "none"]) /\ pending' =
          [pending EXCEPT ![r] = "none"] /\ conn' = conn
    BY <1>21, SettleDrains, Zenon DEF Respond
  <2> QED
    BY <2>1 DEF DrainOK
<1>22. ASSUME NEW a \in Attempts, Dial(a) PROVE DrainOK'
  BY <1>22 DEF Dial, dialing, caller
<1>23. ASSUME NEW a \in Attempts, Install(a) PROVE DrainOK'
  <2>1. conn' \in {conn, a} /\ UNCHANGED <<goAway, pending>>
    BY <1>23 DEF Install
  <2> QED
    BY <2>1 DEF DrainOK, None, Attempts, hasLive
<1>24. ASSUME ConnectionFails PROVE DrainOK'
  BY <1>24 DEF ConnectionFails, closeAndFail, closeConnLocked, caller
<1>25. ASSUME DrainTimeout PROVE DrainOK'
  BY <1>25 DEF DrainTimeout, closeAndFail, closeConnLocked, caller
<1>26. ASSUME HandleGoAway PROVE DrainOK'
  BY <1>26 DEF HandleGoAway, settle, closeConnLocked, caller
<1>27. ASSUME Close PROVE DrainOK'
  BY <1>27 DEF Close, closeAndFail, closeConnLocked, caller
<1>28. ASSUME Retire PROVE DrainOK'
  BY <1>28 DEF Retire, closeAndFail, closeConnLocked, caller
<1>29. CASE UNCHANGED vars
  BY <1>29 DEF vars, executor, dialing, caller
<1> QED
  BY <1>1, <1>2, <1>3, <1>4, <1>5, <1>6, <1>7, <1>8, <1>9, <1>10, <1>11, <1>12, <1>13,
     <1>14, <1>15, <1>16, <1>17, <1>18, <1>19, <1>20, <1>21, <1>22, <1>23, <1>24, <1>25,
     <1>26, <1>27, <1>28, <1>29
     DEF Next, Step

\* The error classes stay true to where the request failed.
LEMMA ErrorsStep == ConnInv /\ [Next]_vars => ErrorsOK'
<1> SUFFICES ASSUME ConnInv, [Next]_vars PROVE ErrorsOK'
  OBVIOUS
<1> USE DEF ConnInv, Inside, ErrorsOK, TypeOK, NotSentErrors, Errors
<1>1. ASSUME NEW r \in Requests, BeginRequest(r) PROVE ErrorsOK'
  BY <1>1 DEF BeginRequest, Goto, Fail, dialing, caller
<1>2. ASSUME NEW r \in Requests, Cancel(r) PROVE ErrorsOK'
  BY <1>2 DEF Cancel, executor, dialing
<1>3. ASSUME NEW r \in Requests, Loop(r) PROVE ErrorsOK'
  BY <1>3 DEF Loop, Goto, Fail, executor, dialing, caller
<1>4. ASSUME NEW r \in Requests, Connect(r) PROVE ErrorsOK'
  BY <1>4 DEF Connect, Goto, Fail, dialing
<1>5. ASSUME NEW r \in Requests, DrainWait(r) PROVE ErrorsOK'
  BY <1>5 DEF DrainWait, Goto, Fail, executor, dialing, caller
<1>6. ASSUME NEW r \in Requests, DialWait(r) PROVE ErrorsOK'
  BY <1>6 DEF DialWait, Goto, Fail
<1>7. ASSUME NEW r \in Requests, Capture(r) PROVE ErrorsOK'
  BY <1>7 DEF Capture, Goto, Fail, executor, dialing
<1>8. ASSUME NEW r \in Requests, Credit(r) PROVE ErrorsOK'
  BY <1>8 DEF Credit, Goto, Fail, executor, dialing, caller
<1>9. ASSUME NEW r \in Requests, AddPending(r) PROVE ErrorsOK'
  BY <1>9 DEF AddPending, Goto, dialing, caller
<1>10. ASSUME NEW r \in Requests, LockWrite(r) PROVE ErrorsOK'
  BY <1>10 DEF LockWrite, Goto, Fail, executor, dialing, caller
<1>11. ASSUME NEW r \in Requests, CheckWrite(r) PROVE ErrorsOK'
  BY <1>11 DEF CheckWrite, Goto, Fail, executor, dialing, caller
<1>12. ASSUME NEW r \in Requests, Write(r) PROVE ErrorsOK'
  BY <1>12 DEF Write, Goto, Fail, executor, dialing, caller
<1>13. ASSUME NEW r \in Requests, Remove(r) PROVE ErrorsOK'
  BY <1>13 DEF Remove, Goto, settle, closeConnLocked, caller
<1>14. ASSUME NEW r \in Requests, CloseCurrent(r) PROVE ErrorsOK'
  BY <1>14 DEF CloseCurrent, Goto, closeAndFail, closeConnLocked, caller
<1>15. ASSUME NEW r \in Requests, Await(r) PROVE ErrorsOK'
  BY <1>15 DEF Await, Goto, Fail, executor, dialing, caller
<1>16. ASSUME NEW r \in Requests, CancelPending(r) PROVE ErrorsOK'
  BY <1>16 DEF CancelPending, Goto, settle, closeConnLocked, caller
<1>17. ASSUME NEW r \in Requests, Decide(r) PROVE ErrorsOK'
  BY <1>17 DEF Decide, Goto, Fail, executor, dialing
<1>18. ASSUME NEW r \in Requests, Reset(r) PROVE ErrorsOK'
  BY <1>18 DEF Reset, Goto, Fail, closeAndFail, closeConnLocked, caller
<1>19. ASSUME NEW r \in Requests, EndRequest(r) PROVE ErrorsOK'
  BY <1>19 DEF EndRequest, Goto, closeAndFail, closeConnLocked
<1>20. ASSUME NEW r \in Requests, Heartbeat(r) PROVE ErrorsOK'
  BY <1>20 DEF Heartbeat, Goto, closeAndFail, closeConnLocked, caller
<1>21. ASSUME NEW r \in Requests, NEW class \in {"ok", "busy"}, Respond(r, class)
      PROVE  ErrorsOK'
  BY <1>21 DEF Respond, settle, closeConnLocked, caller
<1>22. ASSUME NEW a \in Attempts, Dial(a) PROVE ErrorsOK'
  BY <1>22 DEF Dial, dialing, caller
<1>23. ASSUME NEW a \in Attempts, Install(a) PROVE ErrorsOK'
  BY <1>23 DEF Install, caller
<1>24. ASSUME ConnectionFails PROVE ErrorsOK'
  BY <1>24 DEF ConnectionFails, closeAndFail, closeConnLocked, caller
<1>25. ASSUME DrainTimeout PROVE ErrorsOK'
  BY <1>25 DEF DrainTimeout, closeAndFail, closeConnLocked, caller
<1>26. ASSUME HandleGoAway PROVE ErrorsOK'
  BY <1>26 DEF HandleGoAway, settle, closeConnLocked, caller
<1>27. ASSUME Close PROVE ErrorsOK'
  BY <1>27 DEF Close, closeAndFail, closeConnLocked, caller
<1>28. ASSUME Retire PROVE ErrorsOK'
  BY <1>28 DEF Retire, closeAndFail, closeConnLocked, caller
<1>29. CASE UNCHANGED vars
  BY <1>29 DEF vars, executor, dialing, caller
<1> QED
  BY <1>1, <1>2, <1>3, <1>4, <1>5, <1>6, <1>7, <1>8, <1>9, <1>10, <1>11, <1>12, <1>13,
     <1>14, <1>15, <1>16, <1>17, <1>18, <1>19, <1>20, <1>21, <1>22, <1>23, <1>24, <1>25,
     <1>26, <1>27, <1>28, <1>29
     DEF Next, Step

\* A request that is done stays done, with its outcome.
LEMMA DoneStays ==
    ASSUME ConnInv, [Next]_vars, NEW h \in Requests, pc[h] = "done"
    PROVE  pc'[h] = "done" /\ err'[h] = err[h]
<1> USE DEF ConnInv, TypeOK
<1>1. ASSUME NEW r \in Requests, BeginRequest(r) PROVE pc'[h] = "done" /\ err'[h] = err[h]
  BY <1>1 DEF BeginRequest, Goto, Fail, dialing, caller
<1>2. ASSUME NEW r \in Requests, Cancel(r) PROVE pc'[h] = "done" /\ err'[h] = err[h]
  BY <1>2 DEF Cancel, executor, dialing
<1>3. ASSUME NEW r \in Requests, Loop(r) PROVE pc'[h] = "done" /\ err'[h] = err[h]
  BY <1>3 DEF Loop, Goto, Fail, executor, dialing, caller
<1>4. ASSUME NEW r \in Requests, Connect(r) PROVE pc'[h] = "done" /\ err'[h] = err[h]
  BY <1>4 DEF Connect, Goto, Fail, dialing
<1>5. ASSUME NEW r \in Requests, DrainWait(r) PROVE pc'[h] = "done" /\ err'[h] = err[h]
  BY <1>5 DEF DrainWait, Goto, Fail, executor, dialing, caller
<1>6. ASSUME NEW r \in Requests, DialWait(r) PROVE pc'[h] = "done" /\ err'[h] = err[h]
  BY <1>6 DEF DialWait, Goto, Fail
<1>7. ASSUME NEW r \in Requests, Capture(r) PROVE pc'[h] = "done" /\ err'[h] = err[h]
  BY <1>7 DEF Capture, Goto, Fail, executor, dialing
<1>8. ASSUME NEW r \in Requests, Credit(r) PROVE pc'[h] = "done" /\ err'[h] = err[h]
  BY <1>8 DEF Credit, Goto, Fail, executor, dialing, caller
<1>9. ASSUME NEW r \in Requests, AddPending(r) PROVE pc'[h] = "done" /\ err'[h] = err[h]
  BY <1>9 DEF AddPending, Goto, dialing, caller
<1>10. ASSUME NEW r \in Requests, LockWrite(r) PROVE pc'[h] = "done" /\ err'[h] = err[h]
  BY <1>10 DEF LockWrite, Goto, Fail, executor, dialing, caller
<1>11. ASSUME NEW r \in Requests, CheckWrite(r) PROVE pc'[h] = "done" /\ err'[h] = err[h]
  BY <1>11 DEF CheckWrite, Goto, Fail, executor, dialing, caller
<1>12. ASSUME NEW r \in Requests, Write(r) PROVE pc'[h] = "done" /\ err'[h] = err[h]
  BY <1>12 DEF Write, Goto, Fail, executor, dialing, caller
<1>13. ASSUME NEW r \in Requests, Remove(r) PROVE pc'[h] = "done" /\ err'[h] = err[h]
  BY <1>13 DEF Remove, Goto, settle, closeConnLocked, caller
<1>14. ASSUME NEW r \in Requests, CloseCurrent(r) PROVE pc'[h] = "done" /\ err'[h] = err[h]
  BY <1>14 DEF CloseCurrent, Goto, closeAndFail, closeConnLocked, caller
<1>15. ASSUME NEW r \in Requests, Await(r) PROVE pc'[h] = "done" /\ err'[h] = err[h]
  BY <1>15 DEF Await, Goto, Fail, executor, dialing, caller
<1>16. ASSUME NEW r \in Requests, CancelPending(r) PROVE pc'[h] = "done" /\ err'[h] = err[h]
  BY <1>16 DEF CancelPending, Goto, settle, closeConnLocked, caller
<1>17. ASSUME NEW r \in Requests, Decide(r) PROVE pc'[h] = "done" /\ err'[h] = err[h]
  BY <1>17 DEF Decide, Goto, Fail, executor, dialing
<1>18. ASSUME NEW r \in Requests, Reset(r) PROVE pc'[h] = "done" /\ err'[h] = err[h]
  BY <1>18 DEF Reset, Goto, Fail, closeAndFail, closeConnLocked, caller
<1>19. ASSUME NEW r \in Requests, EndRequest(r) PROVE pc'[h] = "done" /\ err'[h] = err[h]
  BY <1>19 DEF EndRequest, Goto, closeAndFail, closeConnLocked
<1>20. ASSUME NEW r \in Requests, Heartbeat(r) PROVE pc'[h] = "done" /\ err'[h] = err[h]
  BY <1>20 DEF Heartbeat, Goto, closeAndFail, closeConnLocked, caller
<1>21. ASSUME NEW r \in Requests, NEW class \in {"ok", "busy"}, Respond(r, class)
      PROVE  pc'[h] = "done" /\ err'[h] = err[h]
  BY <1>21 DEF Respond, settle, closeConnLocked, caller
<1>22. ASSUME NEW a \in Attempts, Dial(a) PROVE pc'[h] = "done" /\ err'[h] = err[h]
  BY <1>22 DEF Dial, dialing, caller
<1>23. ASSUME NEW a \in Attempts, Install(a) PROVE pc'[h] = "done" /\ err'[h] = err[h]
  BY <1>23 DEF Install, caller
<1>24. ASSUME ConnectionFails PROVE pc'[h] = "done" /\ err'[h] = err[h]
  BY <1>24 DEF ConnectionFails, closeAndFail, closeConnLocked, caller
<1>25. ASSUME DrainTimeout PROVE pc'[h] = "done" /\ err'[h] = err[h]
  BY <1>25 DEF DrainTimeout, closeAndFail, closeConnLocked, caller
<1>26. ASSUME HandleGoAway PROVE pc'[h] = "done" /\ err'[h] = err[h]
  BY <1>26 DEF HandleGoAway, settle, closeConnLocked, caller
<1>27. ASSUME Close PROVE pc'[h] = "done" /\ err'[h] = err[h]
  BY <1>27 DEF Close, closeAndFail, closeConnLocked, caller
<1>28. ASSUME Retire PROVE pc'[h] = "done" /\ err'[h] = err[h]
  BY <1>28 DEF Retire, closeAndFail, closeConnLocked, caller
<1>29. CASE UNCHANGED vars
  BY <1>29 DEF vars, executor, dialing, caller
<1> QED
  BY <1>1, <1>2, <1>3, <1>4, <1>5, <1>6, <1>7, <1>8, <1>9, <1>10, <1>11, <1>12, <1>13,
     <1>14, <1>15, <1>16, <1>17, <1>18, <1>19, <1>20, <1>21, <1>22, <1>23, <1>24, <1>25,
     <1>26, <1>27, <1>28, <1>29
     DEF Next, Step

\* PINGs that have failed stay so.
LEMMA BeatsGrow ==
    ASSUME ConnInv, [Next]_vars
    PROVE  /\ Beats \in Nat /\ Beats' \in Nat /\ Beats <= Beats'
           /\ \A h \in Heartbeats : h \in FailedBeats' /\ h \notin FailedBeats => Beats + 1 <= Beats'
<1>1. FailedBeats \subseteq FailedBeats'
  <2> SUFFICES ASSUME NEW h \in FailedBeats
               PROVE  h \in FailedBeats'
    OBVIOUS
  <2>1. h \in Requests /\ pc[h] = "done"
    BY ConnConstants DEF Requests, FailedBeats
  <2>2. pc'[h] = "done" /\ err'[h] = err[h]
    BY <2>1, DoneStays
  <2> QED
    BY <2>2 DEF FailedBeats
<1>2. IsFiniteSet(FailedBeats) /\ IsFiniteSet(FailedBeats')
  <2>1. FailedBeats \subseteq Requests /\ FailedBeats' \subseteq Requests
    BY ConnConstants DEF Requests, FailedBeats
  <2> QED
    BY <2>1, ConnConstants, FS_Subset
<1>3. Beats \in Nat /\ Beats' \in Nat /\ Beats <= Beats'
  BY <1>1, <1>2, FS_Subset, FS_CardinalityType DEF Beats
<1>4. ASSUME NEW h \in Heartbeats, h \in FailedBeats', h \notin FailedBeats
      PROVE  Beats + 1 <= Beats'
  <2>1. Cardinality(FailedBeats \cup {h}) = Beats + 1
    BY <1>2, <1>4, FS_AddElement DEF Beats
  <2>2. Cardinality(FailedBeats \cup {h}) <= Beats'
    BY <1>1, <1>2, <1>4, FS_Subset DEF Beats
  <2> QED
    BY <2>1, <2>2
<1> QED
  BY <1>3, <1>4

\* No step resubmits a request that may have reached the server, unless a failed PING
\* has just passed its GOAWAY or BUSY on to it: the retry loop resubmits only after an error
\* from before the write or a BUSY, a BUSY is the server's own answer to the request,
\* and a connection that is closed fails the requests in flight with another error.
LEMMA WritesStep == ConnInv /\ [Next]_vars => WritesOK'
<1> SUFFICES ASSUME ConnInv, [Next]_vars PROVE WritesOK'
  OBVIOUS
<1> SUFFICES ASSUME NEW q \in Requests PROVE WrittenOnce(q)'
  BY DEF WritesOK
<1> USE DEF ConnInv, WrittenOnce, BeforeWrite, ErrorsOK, TypeOK, NotSentErrors, Errors
<1>0. /\ \A x \in Requests : WrittenOnce(x)
      /\ Beats \in Nat /\ Beats' \in Nat /\ Beats <= Beats'
  BY BeatsGrow DEF WritesOK
<1>1. ASSUME NEW r \in Requests, BeginRequest(r) PROVE WrittenOnce(q)'
  BY <1>0, <1>1 DEF BeginRequest, Goto, Fail, dialing, caller
<1>2. ASSUME NEW r \in Requests, Cancel(r) PROVE WrittenOnce(q)'
  BY <1>0, <1>2 DEF Cancel, executor, dialing
<1>3. ASSUME NEW r \in Requests, Loop(r) PROVE WrittenOnce(q)'
  BY <1>0, <1>3 DEF Loop, Goto, Fail, executor, dialing, caller
<1>4. ASSUME NEW r \in Requests, Connect(r) PROVE WrittenOnce(q)'
  BY <1>0, <1>4 DEF Connect, Goto, Fail, dialing
<1>5. ASSUME NEW r \in Requests, DrainWait(r) PROVE WrittenOnce(q)'
  BY <1>0, <1>5 DEF DrainWait, Goto, Fail, executor, dialing, caller
<1>6. ASSUME NEW r \in Requests, DialWait(r) PROVE WrittenOnce(q)'
  BY <1>0, <1>6 DEF DialWait, Goto, Fail
<1>7. ASSUME NEW r \in Requests, Capture(r) PROVE WrittenOnce(q)'
  BY <1>0, <1>7 DEF Capture, Goto, Fail, executor, dialing
<1>8. ASSUME NEW r \in Requests, Credit(r) PROVE WrittenOnce(q)'
  BY <1>0, <1>8 DEF Credit, Goto, Fail, executor, dialing, caller
<1>9. ASSUME NEW r \in Requests, AddPending(r) PROVE WrittenOnce(q)'
  BY <1>0, <1>9 DEF AddPending, Goto, dialing, caller
<1>10. ASSUME NEW r \in Requests, LockWrite(r) PROVE WrittenOnce(q)'
  BY <1>0, <1>10 DEF LockWrite, Goto, Fail, executor, dialing, caller
<1>11. ASSUME NEW r \in Requests, CheckWrite(r) PROVE WrittenOnce(q)'
  BY <1>0, <1>11 DEF CheckWrite, Goto, Fail, executor, dialing, caller
<1>12. ASSUME NEW r \in Requests, Write(r) PROVE WrittenOnce(q)'
  BY <1>0, <1>12 DEF Write, Goto, Fail, executor, dialing, caller
<1>13. ASSUME NEW r \in Requests, Remove(r) PROVE WrittenOnce(q)'
  BY <1>0, <1>13 DEF Remove, Goto, settle, closeConnLocked, caller
<1>14. ASSUME NEW r \in Requests, CloseCurrent(r) PROVE WrittenOnce(q)'
  BY <1>0, <1>14 DEF CloseCurrent, Goto, closeAndFail, closeConnLocked, caller
<1>15. ASSUME NEW r \in Requests, Await(r) PROVE WrittenOnce(q)'
  BY <1>0, <1>15 DEF Await, Goto, Fail, executor, dialing, caller
<1>16. ASSUME NEW r \in Requests, CancelPending(r) PROVE WrittenOnce(q)'
  BY <1>0, <1>16 DEF CancelPending, Goto, settle, closeConnLocked, caller
<1>17. ASSUME NEW r \in Requests, Decide(r) PROVE WrittenOnce(q)'
  BY <1>0, <1>17 DEF Decide, Goto, Fail, executor, dialing
<1>18. ASSUME NEW r \in Requests, Reset(r) PROVE WrittenOnce(q)'
  BY <1>0, <1>18 DEF Reset, Goto, Fail, closeAndFail, closeConnLocked, caller
<1>19. ASSUME NEW r \in Requests, EndRequest(r) PROVE WrittenOnce(q)'
  BY <1>0, <1>19 DEF EndRequest, Goto, closeAndFail, closeConnLocked
<1>20. ASSUME NEW r \in Requests, Heartbeat(r) PROVE WrittenOnce(q)'
  <2>1. CASE err[r] \in {"goAway", "busy"}
    <3>1. r \in Heartbeats /\ r \in FailedBeats' /\ r \notin FailedBeats
      BY <1>20, <2>1 DEF Heartbeat, Goto, FailedBeats
    <3>2. Beats + 1 <= Beats'
      BY <3>1, BeatsGrow
    <3> QED
      BY <1>0, <1>20, <3>2 DEF Heartbeat, Goto, closeAndFail, caller
  <2>2. CASE err[r] \notin {"goAway", "busy"}
    BY <1>0, <1>20, <2>2
       DEF WrittenOnce, BeforeWrite, TypeOK, NotSentErrors, Heartbeat, Goto, closeAndFail,
           caller
  <2> QED
    BY <2>1, <2>2
<1>21. ASSUME NEW r \in Requests, NEW class \in {"ok", "busy"}, Respond(r, class)
      PROVE  WrittenOnce(q)'
  BY <1>0, <1>21 DEF Respond, settle, closeConnLocked, caller
<1>22. ASSUME NEW a \in Attempts, Dial(a) PROVE WrittenOnce(q)'
  BY <1>0, <1>22 DEF Dial, dialing, caller
<1>23. ASSUME NEW a \in Attempts, Install(a) PROVE WrittenOnce(q)'
  BY <1>0, <1>23 DEF Install, caller
<1>24. ASSUME ConnectionFails PROVE WrittenOnce(q)'
  BY <1>0, <1>24 DEF ConnectionFails, closeAndFail, closeConnLocked, caller
<1>25. ASSUME DrainTimeout PROVE WrittenOnce(q)'
  BY <1>0, <1>25 DEF DrainTimeout, closeAndFail, closeConnLocked, caller
<1>26. ASSUME HandleGoAway PROVE WrittenOnce(q)'
  BY <1>0, <1>26 DEF HandleGoAway, settle, closeConnLocked, caller
<1>27. ASSUME Close PROVE WrittenOnce(q)'
  BY <1>0, <1>27 DEF Close, closeAndFail, closeConnLocked, caller
<1>28. ASSUME Retire PROVE WrittenOnce(q)'
  BY <1>0, <1>28 DEF Retire, closeAndFail, closeConnLocked, caller
<1>29. CASE UNCHANGED vars
  BY <1>0, <1>29 DEF vars, executor, dialing, caller
<1> QED
  BY <1>1, <1>2, <1>3, <1>4, <1>5, <1>6, <1>7, <1>8, <1>9, <1>10, <1>11, <1>12, <1>13,
     <1>14, <1>15, <1>16, <1>17, <1>18, <1>19, <1>20, <1>21, <1>22, <1>23, <1>24, <1>25,
     <1>26, <1>27, <1>28, <1>29
     DEF Next, Step

\* The counters keep counting: every request enters and leaves once, and it leaves
\* the attempt it waited for.
LEMMA CountsStep == ConnInv /\ [Next]_vars => CountsOK'
<1> SUFFICES ASSUME ConnInv, [Next]_vars PROVE CountsOK'
  OBVIOUS
<1> USE DEF ConnInv
<1>1. ASSUME NEW r \in Requests, BeginRequest(r) PROVE CountsOK'
  <2>1. \A b \in Attempts : WaitersOf(b)' = WaitersOf(b)
    BY <1>1 DEF WaitersOf, BeginRequest, Goto, caller, TypeOK
  <2>2. CASE isClosed \/ retiring
    <3>1. InFlight' = InFlight
      BY <1>1, <2>2 DEF InFlight, Inside, PCs, BeginRequest, Goto, TypeOK
    <3> QED
      BY <1>1, <2>1, <2>2, <3>1 DEF CountsOK, BeginRequest, Goto, caller, dialing, TypeOK
  <2>3. CASE ~(isClosed \/ retiring)
    <3>1. r \notin InFlight /\ InFlight' = InFlight \cup {r}
      BY <1>1, <2>3 DEF InFlight, Inside, PCs, BeginRequest, Goto, TypeOK
    <3>2. Cardinality(InFlight') = Cardinality(InFlight) + 1
      BY <3>1, CountedFinite, FS_AddElement
    <3>3. activeRequests' = activeRequests + 1 /\ UNCHANGED <<retiring, waiters, awaited>>
      BY <1>1, <2>3 DEF BeginRequest, caller, dialing
    <3>4. \A q \in Requests : pc'[q] = "dialWait" => pc[q] = "dialWait"
      BY <1>1, <2>3 DEF BeginRequest, Goto, TypeOK
    <3> QED
      BY <2>1, <2>3, <3>2, <3>3, <3>4 DEF CountsOK, TypeOK
  <2> QED
    BY <2>2, <2>3
<1>2. ASSUME NEW r \in Requests, Cancel(r) PROVE CountsOK'
  <2>1. InFlight' = InFlight /\ \A b \in Attempts : WaitersOf(b)' = WaitersOf(b)
    BY <1>2 DEF InFlight, WaitersOf, Inside, PCs, TypeOK, Cancel, executor, dialing
  <2> QED
    BY <1>2, <2>1 DEF CountsOK, InFlight, TypeOK, Cancel, executor, dialing
<1>3. ASSUME NEW r \in Requests, Loop(r) PROVE CountsOK'
  <2>1. InFlight' = InFlight /\ \A b \in Attempts : WaitersOf(b)' = WaitersOf(b)
    BY <1>3
       DEF InFlight, WaitersOf, Inside, PCs, TypeOK, Loop, Goto, Fail, executor, dialing,
           caller
  <2> QED
    BY <1>3, <2>1
       DEF CountsOK, InFlight, TypeOK, Loop, Goto, Fail, executor, dialing, caller
<1>4. ASSUME NEW r \in Requests, Connect(r) PROVE CountsOK'
  <2>1. InFlight' = InFlight /\ UNCHANGED <<activeRequests, retiring, isClosed>>
    BY <1>4 DEF InFlight, Inside, PCs, Connect, Goto, TypeOK
  <2>2. CASE UNCHANGED <<dialing, awaited>> /\ pc'[r] # "dialWait"
    <3>1. \A b \in Attempts : WaitersOf(b)' = WaitersOf(b)
      BY <1>4, <2>2 DEF WaitersOf, Connect, Goto, TypeOK
    <3> QED
      BY <1>4, <2>1, <2>2, <3>1 DEF CountsOK, dialing, Connect, Goto, TypeOK
  <2>3. ASSUME NEW a \in Attempts, waiters' = [waiters EXCEPT ![a] = @ + 1],
               awaited' = [awaited EXCEPT ![r] = a], Goto(r, "dialWait")
        PROVE  CountsOK'
    <3>1. r \notin WaitersOf(a) /\ WaitersOf(a)' = WaitersOf(a) \cup {r}
      BY <1>4, <2>3 DEF WaitersOf, Connect, Goto, TypeOK
    <3>2. \A b \in Attempts \ {a} : WaitersOf(b)' = WaitersOf(b)
      BY <1>4, <2>3 DEF WaitersOf, Connect, Goto, TypeOK
    <3>3. Cardinality(WaitersOf(a)') = Cardinality(WaitersOf(a)) + 1
      BY <3>1, CountedFinite, FS_AddElement, Zenon
    <3>4. \A b \in Attempts : waiters'[b] = Cardinality(WaitersOf(b)')
      BY <2>3, <3>2, <3>3 DEF CountsOK, TypeOK
    <3>5. \A q \in Requests : pc'[q] = "dialWait" => awaited'[q] \in Attempts
      BY <2>3 DEF CountsOK, TypeOK, Goto
    <3> QED
      BY <2>1, <3>4, <3>5 DEF CountsOK
  <2>4. \/ UNCHANGED <<dialing, awaited>> /\ pc'[r] # "dialWait"
        \/ \E a \in Attempts : /\ waiters' = [waiters EXCEPT ![a] = @ + 1]
                               /\ awaited' = [awaited EXCEPT ![r] = a]
                               /\ Goto(r, "dialWait")
    BY <1>4 DEF Connect, Goto, TypeOK
  <2> QED
    BY <2>2, <2>3, <2>4
<1>5. ASSUME NEW r \in Requests, DrainWait(r) PROVE CountsOK'
  <2>1. InFlight' = InFlight /\ \A b \in Attempts : WaitersOf(b)' = WaitersOf(b)
    BY <1>5
       DEF InFlight, WaitersOf, Inside, PCs, TypeOK, DrainWait, Goto, Fail, executor,
           dialing, caller
  <2> QED
    BY <1>5, <2>1
       DEF CountsOK, InFlight, TypeOK, DrainWait, Goto, Fail, executor, dialing, caller
<1>6. ASSUME NEW r \in Requests, DialWait(r) PROVE CountsOK'
  <2>1. PICK a \in Attempts : a = awaited[r] /\ r \in WaitersOf(a)
    BY <1>6 DEF DialWait, CountsOK, WaitersOf
  <2>2. InFlight' = InFlight /\ UNCHANGED <<activeRequests, retiring, isClosed>>
    BY <1>6 DEF InFlight, Inside, PCs, DialWait, Goto, TypeOK
  <2>3. /\ waiters' = [waiters EXCEPT ![a] = @ - 1]
        /\ awaited' = [awaited EXCEPT ![r] = None]
        /\ pc'[r] # "dialWait" /\ \A q \in Requests \ {r} : pc'[q] = pc[q]
    BY <1>6, <2>1 DEF DialWait, Goto, TypeOK
  <2>4. WaitersOf(a)' = WaitersOf(a) \ {r}
    BY <2>1, <2>3 DEF WaitersOf, TypeOK
  <2>5. \A b \in Attempts \ {a} : WaitersOf(b)' = WaitersOf(b)
    BY <2>1, <2>3 DEF WaitersOf, TypeOK
  <2>6. Cardinality(WaitersOf(a)') = Cardinality(WaitersOf(a)) - 1
    BY <2>1, <2>4, CountedFinite, CountOne, Zenon
  <2>7. \A b \in Attempts : waiters'[b] = Cardinality(WaitersOf(b)')
    BY <2>1, <2>3, <2>5, <2>6 DEF CountsOK, TypeOK
  <2>8. \A q \in Requests : pc'[q] = "dialWait" => awaited'[q] \in Attempts
    BY <2>3 DEF CountsOK, TypeOK
  <2> QED
    BY <2>2, <2>7, <2>8 DEF CountsOK
<1>7. ASSUME NEW r \in Requests, Capture(r) PROVE CountsOK'
  <2>1. InFlight' = InFlight /\ \A b \in Attempts : WaitersOf(b)' = WaitersOf(b)
    BY <1>7
       DEF InFlight, WaitersOf, Inside, PCs, TypeOK, Capture, Goto, Fail, executor, dialing
  <2> QED
    BY <1>7, <2>1 DEF CountsOK, InFlight, TypeOK, Capture, Goto, Fail, executor, dialing
<1>8. ASSUME NEW r \in Requests, Credit(r) PROVE CountsOK'
  <2>1. InFlight' = InFlight /\ \A b \in Attempts : WaitersOf(b)' = WaitersOf(b)
    BY <1>8
       DEF InFlight, WaitersOf, Inside, PCs, TypeOK, Credit, Goto, Fail, executor, dialing,
           caller
  <2> QED
    BY <1>8, <2>1
       DEF CountsOK, InFlight, TypeOK, Credit, Goto, Fail, executor, dialing, caller
<1>9. ASSUME NEW r \in Requests, AddPending(r) PROVE CountsOK'
  <2>1. InFlight' = InFlight /\ \A b \in Attempts : WaitersOf(b)' = WaitersOf(b)
    BY <1>9 DEF InFlight, WaitersOf, Inside, PCs, TypeOK, AddPending, Goto, dialing, caller
  <2> QED
    BY <1>9, <2>1 DEF CountsOK, InFlight, TypeOK, AddPending, Goto, dialing, caller
<1>10. ASSUME NEW r \in Requests, LockWrite(r) PROVE CountsOK'
  <2>1. InFlight' = InFlight /\ \A b \in Attempts : WaitersOf(b)' = WaitersOf(b)
    BY <1>10
       DEF InFlight, WaitersOf, Inside, PCs, TypeOK, LockWrite, Goto, Fail, executor,
           dialing, caller
  <2> QED
    BY <1>10, <2>1
       DEF CountsOK, InFlight, TypeOK, LockWrite, Goto, Fail, executor, dialing, caller
<1>11. ASSUME NEW r \in Requests, CheckWrite(r) PROVE CountsOK'
  <2>1. InFlight' = InFlight /\ \A b \in Attempts : WaitersOf(b)' = WaitersOf(b)
    BY <1>11
       DEF InFlight, WaitersOf, Inside, PCs, TypeOK, CheckWrite, Goto, Fail, executor,
           dialing, caller
  <2> QED
    BY <1>11, <2>1
       DEF CountsOK, InFlight, TypeOK, CheckWrite, Goto, Fail, executor, dialing, caller
<1>12. ASSUME NEW r \in Requests, Write(r) PROVE CountsOK'
  <2>1. InFlight' = InFlight /\ \A b \in Attempts : WaitersOf(b)' = WaitersOf(b)
    BY <1>12
       DEF InFlight, WaitersOf, Inside, PCs, TypeOK, Write, Goto, Fail, executor, dialing,
           caller
  <2> QED
    BY <1>12, <2>1
       DEF CountsOK, InFlight, TypeOK, Write, Goto, Fail, executor, dialing, caller
<1>13. ASSUME NEW r \in Requests, Remove(r) PROVE CountsOK'
  <2>1. InFlight' = InFlight /\ \A b \in Attempts : WaitersOf(b)' = WaitersOf(b)
    BY <1>13
       DEF InFlight, WaitersOf, Inside, PCs, TypeOK, Remove, Goto, settle, closeConnLocked,
           caller
  <2> QED
    BY <1>13, <2>1
       DEF CountsOK, InFlight, TypeOK, Remove, Goto, settle, closeConnLocked, caller
<1>14. ASSUME NEW r \in Requests, CloseCurrent(r) PROVE CountsOK'
  <2>1. InFlight' = InFlight /\ \A b \in Attempts : WaitersOf(b)' = WaitersOf(b)
    BY <1>14
       DEF InFlight, WaitersOf, Inside, PCs, TypeOK, CloseCurrent, Goto, closeAndFail,
           closeConnLocked, caller
  <2> QED
    BY <1>14, <2>1
       DEF CountsOK, InFlight, TypeOK, CloseCurrent, Goto, closeAndFail, closeConnLocked,
           caller
<1>15. ASSUME NEW r \in Requests, Await(r) PROVE CountsOK'
  <2>1. InFlight' = InFlight /\ \A b \in Attempts : WaitersOf(b)' = WaitersOf(b)
    BY <1>15
       DEF InFlight, WaitersOf, Inside, PCs, TypeOK, Await, Goto, Fail, executor, dialing,
           caller
  <2> QED
    BY <1>15, <2>1
       DEF CountsOK, InFlight, TypeOK, Await, Goto, Fail, executor, dialing, caller
<1>16. ASSUME NEW r \in Requests, CancelPending(r) PROVE CountsOK'
  <2>1. InFlight' = InFlight /\ \A b \in Attempts : WaitersOf(b)' = WaitersOf(b)
    BY <1>16
       DEF InFlight, WaitersOf, Inside, PCs, TypeOK, CancelPending, Goto, settle,
           closeConnLocked, caller
  <2> QED
    BY <1>16, <2>1
       DEF CountsOK, InFlight, TypeOK, CancelPending, Goto, settle, closeConnLocked, caller
<1>17. ASSUME NEW r \in Requests, Decide(r) PROVE CountsOK'
  <2>1. InFlight' = InFlight /\ \A b \in Attempts : WaitersOf(b)' = WaitersOf(b)
    BY <1>17
       DEF InFlight, WaitersOf, Inside, PCs, TypeOK, Decide, Goto, Fail, executor, dialing
  <2> QED
    BY <1>17, <2>1 DEF CountsOK, InFlight, TypeOK, Decide, Goto, Fail, executor, dialing
<1>18. ASSUME NEW r \in Requests, Reset(r) PROVE CountsOK'
  <2>1. InFlight' = InFlight /\ \A b \in Attempts : WaitersOf(b)' = WaitersOf(b)
    BY <1>18
       DEF InFlight, WaitersOf, Inside, PCs, TypeOK, Reset, Goto, Fail, closeAndFail,
           closeConnLocked, caller
  <2> QED
    BY <1>18, <2>1, ZenonT(60)
       DEF CountsOK, InFlight, TypeOK, Reset, Goto, Fail, closeAndFail, closeConnLocked,
           caller
<1>19. ASSUME NEW r \in Requests, EndRequest(r) PROVE CountsOK'
  <2>1. \A b \in Attempts : WaitersOf(b)' = WaitersOf(b)
    BY <1>19 DEF WaitersOf, EndRequest, Goto, TypeOK
  <2>2. r \in InFlight /\ InFlight' = InFlight \ {r}
    BY <1>19 DEF InFlight, Inside, PCs, EndRequest, Goto, TypeOK
  <2>3. Cardinality(InFlight') = Cardinality(InFlight) - 1
    BY <2>2, CountedFinite, CountOne, Zenon
  <2>4. activeRequests' = activeRequests - 1 /\ UNCHANGED <<retiring, waiters, awaited>>
    BY <1>19 DEF EndRequest
  <2>5. \A q \in Requests : pc'[q] = "dialWait" => pc[q] = "dialWait"
    BY <1>19 DEF EndRequest, Goto, TypeOK
  <2>6. retiring /\ activeRequests' = 0 => isClosed'
    BY <1>19 DEF EndRequest, TypeOK
  <2> QED
    BY <2>1, <2>3, <2>4, <2>5, <2>6 DEF CountsOK
<1>20. ASSUME NEW r \in Requests, Heartbeat(r) PROVE CountsOK'
  <2>1. InFlight' = InFlight /\ \A b \in Attempts : WaitersOf(b)' = WaitersOf(b)
    BY <1>20
       DEF InFlight, WaitersOf, Inside, PCs, TypeOK, Heartbeat, Goto, closeAndFail,
           closeConnLocked, caller
  <2> QED
    BY <1>20, <2>1
       DEF CountsOK, InFlight, TypeOK, Heartbeat, Goto, closeAndFail, closeConnLocked,
           caller
<1>21. ASSUME NEW r \in Requests, NEW class \in {"ok", "busy"}, Respond(r, class)
      PROVE  CountsOK'
  <2>1. InFlight' = InFlight /\ \A b \in Attempts : WaitersOf(b)' = WaitersOf(b)
    BY <1>21 DEF InFlight, WaitersOf, Respond, caller
  <2> QED
    BY <1>21, <2>1 DEF CountsOK, TypeOK, Respond, caller
<1>22. ASSUME NEW a \in Attempts, Dial(a) PROVE CountsOK'
  <2>1. InFlight' = InFlight /\ \A b \in Attempts : WaitersOf(b)' = WaitersOf(b)
    BY <1>22 DEF InFlight, WaitersOf, Dial, caller
  <2> QED
    BY <1>22, <2>1 DEF CountsOK, TypeOK, Dial, caller
<1>23. ASSUME NEW a \in Attempts, Install(a) PROVE CountsOK'
  <2>1. InFlight' = InFlight /\ \A b \in Attempts : WaitersOf(b)' = WaitersOf(b)
    BY <1>23 DEF InFlight, WaitersOf, Install, caller
  <2> QED
    BY <1>23, <2>1 DEF CountsOK, TypeOK, Install, caller
<1>24. ASSUME ConnectionFails PROVE CountsOK'
  <2>1. InFlight' = InFlight /\ \A b \in Attempts : WaitersOf(b)' = WaitersOf(b)
    BY <1>24 DEF InFlight, WaitersOf, ConnectionFails, caller
  <2> QED
    BY <1>24, <2>1 DEF CountsOK, TypeOK, ConnectionFails, caller
<1>25. ASSUME DrainTimeout PROVE CountsOK'
  <2>1. InFlight' = InFlight /\ \A b \in Attempts : WaitersOf(b)' = WaitersOf(b)
    BY <1>25 DEF InFlight, WaitersOf, DrainTimeout, caller
  <2> QED
    BY <1>25, <2>1 DEF CountsOK, TypeOK, DrainTimeout, caller
<1>26. ASSUME HandleGoAway PROVE CountsOK'
  <2>1. InFlight' = InFlight /\ \A b \in Attempts : WaitersOf(b)' = WaitersOf(b)
    BY <1>26 DEF InFlight, WaitersOf, HandleGoAway, caller
  <2> QED
    BY <1>26, <2>1 DEF CountsOK, TypeOK, HandleGoAway, caller
<1>27. ASSUME Close PROVE CountsOK'
  <2>1. InFlight' = InFlight /\ \A b \in Attempts : WaitersOf(b)' = WaitersOf(b)
    BY <1>27 DEF InFlight, WaitersOf, Close, caller
  <2> QED
    BY <1>27, <2>1 DEF CountsOK, TypeOK, Close, caller
<1>28. ASSUME Retire PROVE CountsOK'
  <2>1. InFlight' = InFlight /\ \A b \in Attempts : WaitersOf(b)' = WaitersOf(b)
    BY <1>28 DEF InFlight, WaitersOf, Retire, caller
  <2> QED
    BY <1>28, <2>1 DEF CountsOK, TypeOK, Retire, caller
<1>29. CASE UNCHANGED vars
  BY <1>29 DEF CountsOK, InFlight, WaitersOf, vars, executor, dialing, caller
<1> QED
  BY <1>1, <1>2, <1>3, <1>4, <1>5, <1>6, <1>7, <1>8, <1>9, <1>10, <1>11, <1>12, <1>13,
     <1>14, <1>15, <1>16, <1>17, <1>18, <1>19, <1>20, <1>21, <1>22, <1>23, <1>24, <1>25,
     <1>26, <1>27, <1>28, <1>29
     DEF Next, Step

----------------------------------------------------------------------------
\* The executor starts with nothing connected, pending or counted.
LEMMA ConnInit == Init => ConnInv
<1> SUFFICES ASSUME Init PROVE ConnInv
  OBVIOUS
<1>1. TypeOK
  <2>1. 0 \in 0..MaxRetries /\ 0 \in 0..1
    BY ConnConstants
  <2> QED
    BY <2>1 DEF Init, TypeOK, None, PCs, Errors
<1>2. CountsOK
  <2>1. InFlight = {} /\ \A a \in Attempts : WaitersOf(a) = {}
    BY DEF Init, InFlight, WaitersOf, Inside
  <2> QED
    BY <2>1, FS_EmptySet DEF Init, CountsOK
<1>3. SocketsOK /\ CapturedOK /\ DrainOK /\ ErrorsOK
  BY DEF Init, SocketsOK, CapturedOK, DrainOK, ErrorsOK, None, Attempts
<1>4. WritesOK
  <2>1. FailedBeats = {}
    BY ConnConstants DEF Init, FailedBeats, Requests
  <2>2. Beats = 0
    BY <2>1, FS_EmptySet DEF Beats
  <2> QED
    BY <2>2 DEF Init, WritesOK, WrittenOnce
<1> QED
  BY <1>1, <1>2, <1>3, <1>4 DEF ConnInv

\* Every step of the executor, of a request, of a dial and of the server keeps
\* the invariant.
THEOREM ConnInvariant == Spec => []ConnInv
<1>1. ConnInv /\ [Next]_vars => ConnInv'
  BY TypeStep, CountsStep, SocketsStep, CapturedStep, DrainStep, ErrorsStep, WritesStep
     DEF ConnInv
<1> QED
  BY <1>1, ConnInit, PTL DEF Spec

\* Nobody waits for an answer that cannot come: for any number of requests and
\* connections, a written request without an answer is alive in e.pending and its
\* connection is the current one (native_request.go:261, native_reader.go:63).
THEOREM NoLostRequestHolds == Spec => []NoLostRequest
<1>1. ConnInv => NoLostRequest
  BY DEF ConnInv, CapturedOK, NoLostRequest
<1> QED
  BY <1>1, ConnInvariant, PTL

\* A drain always has a request to wait for, so a GOAWAY or a cancelled data request
\* never parks later requests behind a connection nobody will close.
THEOREM DrainHasLiveHolds == Spec => []DrainHasLive
<1>1. ConnInv => DrainHasLive
  BY DEF ConnInv, DrainOK, DrainHasLive
<1> QED
  BY <1>1, ConnInvariant, PTL

\* Every open socket has an owner, a closed executor has no connection, a retiring
\* executor without requests is closed, and activeRequests counts the requests
\* between beginRequest and endRequest.
THEOREM NoLeakedConnectionHolds == Spec => []NoLeakedConnection
<1>1. ConnInv => NoLeakedConnection
  BY DEF ConnInv, SocketsOK, CountsOK, NoLeakedConnection, InFlight
<1> QED
  BY <1>1, ConnInvariant, PTL

\* A request is written at most once more than the server answered that very request
\* with BUSY, and once for every PING whose GOAWAY or BUSY heartbeatLoop passed on to
\* the requests in flight (native_request.go:86-97, native_connection.go:374).
THEOREM ResentOnlyByBeatHolds == Spec => []ResentOnlyByBeat
<1>1. ConnInv => ResentOnlyByBeat
  BY DEF ConnInv, WritesOK, WrittenOnce, Beats, ResentOnlyByBeat
<1> QED
  BY <1>1, ConnInvariant, PTL

-----------------------------------------------------------------------------
(* Frames: totals.                                                            *)

\* What f counts is a finite number of ones.
Countable(f) == f \in [DOMAIN f -> Nat] /\ IsFiniteSet(Ones(f))

\* A value of f and the ones that stand for it.
LEMMA Strip ==
    ASSUME NEW x, NEW a \in Nat, NEW b \in Nat, a <= b
    PROVE  /\ IsFiniteSet({x} \X ((a + 1)..b))
           /\ Cardinality({x} \X ((a + 1)..b)) = b - a
  <1>1. IsFiniteSet({x}) /\ Cardinality({x}) = 1
    BY FS_Singleton
  <1>2. IsFiniteSet((a + 1)..b) /\ Cardinality((a + 1)..b) = b - a
    <2>1. a + 1 \in Int /\ b \in Int
      OBVIOUS
    <2>2. /\ IsFiniteSet((a + 1)..b)
          /\ Cardinality((a + 1)..b) = IF a + 1 > b THEN 0 ELSE b - (a + 1) + 1
      BY <2>1, FS_Interval, Zenon
    <2> QED BY <2>2
  <1>3. /\ IsFiniteSet({x} \X ((a + 1)..b))
        /\ Cardinality({x} \X ((a + 1)..b)) = Cardinality({x}) * Cardinality((a + 1)..b)
    BY <1>1, <1>2, FS_Product, Zenon
  <1> QED
    BY <1>1, <1>2, <1>3

\* The total is a natural number, and no value is above it.
LEMMA TotalBounds ==
    ASSUME NEW f, Countable(f)
    PROVE  Total(f) \in Nat /\ \A x \in DOMAIN f : f[x] <= Total(f)
  <1>1. Total(f) \in Nat
    BY FS_CardinalityType DEF Countable, Total
  <1>2. ASSUME NEW x \in DOMAIN f PROVE f[x] <= Total(f)
    <2>1. f[x] \in Nat
      BY DEF Countable
    <2>2. {x} \X (1..f[x]) \subseteq Ones(f)
      BY DEF Ones
    <2>3. IsFiniteSet({x} \X ((0 + 1)..f[x])) /\ Cardinality({x} \X ((0 + 1)..f[x])) = f[x] - 0
      <3>1. 0 \in Nat /\ 0 <= f[x]
        BY <2>1
      <3> QED BY <2>1, <3>1, Strip, Zenon
    <2>4. Cardinality({x} \X (1..f[x])) = f[x]
      BY <2>1, <2>3
    <2>5. Cardinality({x} \X (1..f[x])) <= Cardinality(Ones(f))
      BY <2>2, FS_Subset DEF Countable
    <2> QED
      BY <2>4, <2>5 DEF Total
  <1> QED
    BY <1>1, <1>2

\* One value grows by k, and may be new.
LEMMA TotalGrows ==
    ASSUME NEW f, NEW g, NEW x, NEW k \in Nat, Countable(f),
           DOMAIN g = DOMAIN f \cup {x}, g = [y \in DOMAIN g |-> g[y]],
           \A y \in DOMAIN f : y # x => g[y] = f[y],
           g[x] = (IF x \in DOMAIN f THEN f[x] ELSE 0) + k
    PROVE  Countable(g) /\ Total(g) = Total(f) + k
  <1> DEFINE a == IF x \in DOMAIN f THEN f[x] ELSE 0
             S == {x} \X ((a + 1)..(a + k))
  <1>1. a \in Nat /\ g[x] = a + k /\ a + k \in Nat /\ a <= a + k
    BY DEF Countable
  <1>2. g \in [DOMAIN g -> Nat]
    BY <1>1 DEF Countable
  <1>3. IsFiniteSet(S) /\ Cardinality(S) = k
    <2>1. IsFiniteSet(S) /\ Cardinality(S) = (a + k) - a
      <3> HIDE DEF a
      <3> QED BY <1>1, Strip
    <2> QED BY <1>1, <2>1
  <1>4. \A b \in Nat : b \in 1..(a + k) <=> b \in 1..a \/ b \in (a + 1)..(a + k)
    BY <1>1
  <1>5. Ones(g) = Ones(f) \cup S
    <2>1. ASSUME NEW p \in Ones(g) PROVE p \in Ones(f) \cup S
      <3>1. PICK y \in DOMAIN g : p \in {y} \X (1..g[y])
        BY <2>1 DEF Ones
      <3>2. CASE y # x
        BY <3>1, <3>2 DEF Ones
      <3>3. CASE y = x
        <4>1. PICK b \in 1..(a + k) : p = <<x, b>>
          BY <1>1, <3>1, <3>3
        <4>2. CASE b \in 1..a
          <5>1. x \in DOMAIN f /\ a = f[x]
            BY <4>2
          <5> QED BY <4>1, <4>2, <5>1 DEF Ones
        <4>3. CASE b \in (a + 1)..(a + k)
          BY <4>1, <4>3
        <4> QED BY <1>1, <1>4, <4>1, <4>2, <4>3
      <3> QED BY <3>2, <3>3
    <2>2. ASSUME NEW p \in Ones(f) PROVE p \in Ones(g)
      <3>1. PICK y \in DOMAIN f : p \in {y} \X (1..f[y])
        BY <2>2 DEF Ones
      <3>2. f[y] \in Nat /\ g[y] \in Nat /\ f[y] <= g[y]
        BY <1>1, <1>2 DEF Countable
      <3>3. 1..f[y] \subseteq 1..g[y]
        BY <3>2
      <3> QED BY <3>1, <3>3 DEF Ones
    <2>3. ASSUME NEW p \in S PROVE p \in Ones(g)
      <3>1. (a + 1)..(a + k) \subseteq 1..g[x]
        BY <1>1
      <3> QED BY <3>1 DEF Ones
    <2> QED BY <2>1, <2>2, <2>3
  <1>6. Ones(f) \cap S = {}
    <2> SUFFICES ASSUME NEW p \in Ones(f), p \in S PROVE FALSE
      OBVIOUS
    <2>1. PICK y \in DOMAIN f : p \in {y} \X (1..f[y])
      BY DEF Ones
    <2>2. y = x
      BY <2>1
    <2>3. p[2] \in 1..a /\ p[2] \in (a + 1)..(a + k)
      BY <2>1, <2>2
    <2> QED BY <1>1, <2>3
  <1> HIDE DEF S, a
  <1>7. /\ IsFiniteSet(Ones(f) \cup S)
        /\ Cardinality(Ones(f) \cup S)
             = Cardinality(Ones(f)) + Cardinality(S) - Cardinality(Ones(f) \cap S)
    BY <1>3, FS_Union, Zenon DEF Countable
  <1>8. Cardinality(Ones(f) \cap S) = 0 /\ Cardinality(Ones(f)) \in Nat
    BY <1>6, FS_EmptySet, FS_CardinalityType DEF Countable
  <1> QED
    BY <1>2, <1>3, <1>5, <1>7, <1>8 DEF Countable, Total

\* One value is taken away.
LEMMA TotalWithout ==
    ASSUME NEW f, NEW x \in DOMAIN f, Countable(f)
    PROVE  LET g == [y \in DOMAIN f \ {x} |-> f[y]]
           IN Countable(g) /\ Total(g) = Total(f) - f[x]
  <1> DEFINE g == [y \in DOMAIN f \ {x} |-> f[y]]
  <1>1. Countable(g)
    <2>1. Ones(g) \subseteq Ones(f)
      BY DEF Ones
    <2>2. IsFiniteSet(Ones(g))
      BY <2>1, FS_Subset DEF Countable
    <2>3. g \in [DOMAIN g -> Nat]
      BY DEF Countable
    <2> QED BY <2>2, <2>3 DEF Countable
  <1>2. f[x] \in Nat /\ f = [y \in DOMAIN f |-> f[y]]
    BY DEF Countable
  <1>3. DOMAIN f = DOMAIN g \cup {x} /\ x \notin DOMAIN g /\ \A y \in DOMAIN g : f[y] = g[y]
    OBVIOUS
  <1> HIDE DEF g
  <1>4. f[x] = (IF x \in DOMAIN g THEN g[x] ELSE 0) + f[x]
    BY <1>2, <1>3
  <1>5. Total(f) = Total(g) + f[x]
    BY <1>1, <1>2, <1>3, <1>4, TotalGrows
  <1>6. Total(g) \in Nat
    BY <1>1, TotalBounds
  <1>7. Countable(g) /\ Total(g) = Total(f) - f[x]
    BY <1>1, <1>2, <1>5, <1>6
  <1> QED BY <1>7 DEF g

\* The total of nothing.
LEMMA TotalOfNone ==
    ASSUME NEW f, DOMAIN f = {}, f = [y \in {} |-> f[y]]
    PROVE  Countable(f) /\ Total(f) = 0
  <1>1. Ones(f) = {}
    BY DEF Ones
  <1>2. f \in [DOMAIN f -> Nat]
    OBVIOUS
  <1> QED BY <1>1, <1>2, FS_EmptySet DEF Countable, Total

\* The two copies of an injection: a pair has two members.
LEMMA ZeroAndOne == IsFiniteSet({0, 1}) /\ Cardinality({0, 1}) = 2
  <1> DEFINE one == Cardinality({0})
             two == Cardinality({0} \cup {1})
  <1>1. IsFiniteSet({0}) /\ one = 1
    BY FS_Singleton
  <1>2. {0, 1} = {0} \cup {1} /\ 1 \notin {0}
    OBVIOUS
  <1>3. IsFiniteSet({0} \cup {1}) /\ two = IF 1 \in {0} THEN one ELSE one + 1
    BY <1>1, FS_AddElement, Zenon
  <1>4. two = one + 1
    BY <1>2, <1>3, Zenon
  <1> HIDE DEF one, two
  <1>5. two = 2
    BY <1>1, <1>4
  <1> QED
    BY <1>2, <1>3, <1>5, Zenon DEF two

\* Values that are at most double make a total that is at most double.
LEMMA TotalAtMostDouble ==
    ASSUME NEW f, NEW g, Countable(f), DOMAIN g = DOMAIN f, g \in [DOMAIN g -> Nat],
           \A x \in DOMAIN f : g[x] <= 2 * f[x]
    PROVE  Countable(g) /\ Total(g) <= 2 * Total(f)
  <1> DEFINE P == Ones(f) \X {0, 1}
             h == [p \in Ones(g) |->
                     IF p[2] <= f[p[1]] THEN <<p, 0>> ELSE <<<<p[1], p[2] - f[p[1]]>>, 1>>]
  <1>1. ASSUME NEW p \in Ones(g)
        PROVE  /\ p[1] \in DOMAIN f /\ p[2] \in 1..g[p[1]] /\ p = <<p[1], p[2]>>
               /\ f[p[1]] \in Nat /\ g[p[1]] \in Nat /\ p[2] \in Nat
    <2>1. PICK x \in DOMAIN g : p \in {x} \X (1..g[x])
      BY DEF Ones
    <2>2. f[x] \in Nat /\ g[x] \in Nat
      BY DEF Countable
    <2> QED BY <2>1, <2>2
  <1>2. h \in [Ones(g) -> P]
    <2> SUFFICES ASSUME NEW p \in Ones(g) PROVE h[p] \in P
      OBVIOUS
    <2>1. CASE p[2] <= f[p[1]]
      <3>1. p[2] \in 1..f[p[1]]
        BY <1>1, <2>1
      <3>2. p \in Ones(f)
        BY <1>1, <3>1 DEF Ones
      <3> QED BY <2>1, <3>2
    <2>2. CASE ~ (p[2] <= f[p[1]])
      <3>1. g[p[1]] <= 2 * f[p[1]]
        BY <1>1
      <3>2. p[2] - f[p[1]] \in 1..f[p[1]]
        BY <1>1, <2>2, <3>1
      <3>3. <<p[1], p[2] - f[p[1]]>> \in Ones(f)
        BY <1>1, <3>2 DEF Ones
      <3> QED BY <2>2, <3>3
    <2> QED BY <2>1, <2>2
  <1>3. ASSUME NEW p \in Ones(g), NEW q \in Ones(g), h[p] = h[q] PROVE p = q
    <2>1. IF p[2] <= f[p[1]] THEN h[p][1] = p /\ h[p][2] = 0
          ELSE h[p][1] = <<p[1], p[2] - f[p[1]]>> /\ h[p][2] = 1
      OBVIOUS
    <2>2. IF q[2] <= f[q[1]] THEN h[q][1] = q /\ h[q][2] = 0
          ELSE h[q][1] = <<q[1], q[2] - f[q[1]]>> /\ h[q][2] = 1
      OBVIOUS
    <2> HIDE DEF h
    <2>3. CASE p[2] <= f[p[1]]
      BY <1>3, <2>1, <2>2, <2>3
    <2>4. CASE ~ (p[2] <= f[p[1]])
      <3>1. h[p][1] = <<p[1], p[2] - f[p[1]]>> /\ h[p][2] = 1
        BY <2>1, <2>4
      <3>2. h[q][1] = <<q[1], q[2] - f[q[1]]>>
        BY <1>3, <2>2, <3>1
      <3>3. <<p[1], p[2] - f[p[1]]>> = <<q[1], q[2] - f[q[1]]>>
        BY <1>3, <3>1, <3>2, Zenon
      <3>4. p[1] = q[1] /\ p[2] - f[p[1]] = q[2] - f[q[1]]
        BY <3>3
      <3>5. p[2] = q[2]
        BY <1>1, <3>4
      <3> QED BY <1>1, <3>4, <3>5, Zenon
    <2> QED BY <2>3, <2>4
  <1>4. h \in Injection(Ones(g), P)
    BY <1>2, <1>3 DEF Injection, IsInjective
  <1>5. IsFiniteSet({0, 1}) /\ Cardinality({0, 1}) = 2
    BY ZeroAndOne
  <1>6. IsFiniteSet(P) /\ Cardinality(P) = Total(f) * 2
    BY <1>5, FS_Product DEF Countable, Total
  <1> HIDE DEF P, h
  <1>7. IsFiniteSet(Ones(g)) /\ Cardinality(Ones(g)) <= Cardinality(P)
    BY <1>4, <1>6, FS_Injection, Zenon
  <1>8. Total(f) \in Nat
    BY TotalBounds
  <1> QED BY <1>6, <1>7, <1>8 DEF Countable, Total

-----------------------------------------------------------------------------
(* The invariant.                                                             *)

\* While the connection is open, an answer has a state exactly while the server is
\* in the middle of it, with its chunks so far, counted truly and decoded in the
\* mode they were begun in; a request on a data lane is known until it is answered.
AssemblyOK ==
    link = "open" => \A r \in Asked :
        /\ r \in DOMAIN chunks <=> answered[r].sent # <<>> /\ ~ answered[r].last
        /\ r \in DOMAIN chunks => /\ chunks[r].parts = answered[r].sent
                                  /\ chunks[r].mode = ModeOf(r)
        /\ r \notin ControlRequests /\ ~ answered[r].last => waits[r] # "gone"

\* Each answer that is held counts its own chunks, and has no more memory than twice
\* its bytes.
ChunksOK ==
    \A r \in DOMAIN chunks :
        /\ chunks[r].frames = Len(chunks[r].parts)
        /\ chunks[r].bytes = Bytes(chunks[r].parts)
        /\ Retained(r) <= 2 * chunks[r].bytes

\* The two counters are the sums over the answers.
SizeOf == [r \in DOMAIN chunks |-> chunks[r].bytes]
LengthOf == [r \in DOMAIN chunks |-> Len(chunks[r].parts)]
SumsOK ==
    /\ Countable(SizeOf) /\ bufferedBytes = Total(SizeOf)
    /\ Countable(LengthOf) /\ bufferedFrames = Total(LengthOf)

FramesInv == FramesTypeOK /\ AssemblyOK /\ ChunksOK /\ SumsOK /\ AnswersWhole

\* The bytes of a body can be counted.
LEMMA BytesCountable ==
    ASSUME NEW body \in Seq(Chunk)
    PROVE  Countable([i \in DOMAIN body |-> body[i].bytes]) /\ Bytes(body) \in Nat
  <1> DEFINE f == [i \in DOMAIN body |-> body[i].bytes]
  <1>1. /\ DOMAIN f = 1..Len(body) /\ Len(body) \in Nat
        /\ \A i \in DOMAIN f : f[i] \in 0..MaxChunk
    <2>1. DOMAIN body = 1..Len(body) /\ Len(body) \in Nat /\ \A i \in 1..Len(body) :
            body[i] \in Chunk
      OBVIOUS
    <2>2. \A c \in Chunk : c.bytes \in 0..MaxChunk
      BY DEF Chunk
    <2> QED BY <2>1, <2>2
  <1>2. Ones(f) \subseteq (1..Len(body)) \X (1..MaxChunk)
    <2> HIDE DEF f
    <2> SUFFICES ASSUME NEW p \in Ones(f) PROVE p \in (1..Len(body)) \X (1..MaxChunk)
      OBVIOUS
    <2>1. PICK i \in DOMAIN f : p \in {i} \X (1..f[i])
      BY DEF Ones
    <2>2. 1..f[i] \subseteq 1..MaxChunk
      BY <1>1, FramesConstants
    <2> QED BY <1>1, <2>1, <2>2
  <1>3. IsFiniteSet(1..Len(body)) /\ IsFiniteSet(1..MaxChunk)
    <2>1. 1 \in Int /\ Len(body) \in Int /\ MaxChunk \in Int
      BY <1>1, FramesConstants
    <2> QED BY <2>1, FS_Interval, Zenon
  <1>4. IsFiniteSet((1..Len(body)) \X (1..MaxChunk))
    BY <1>3, FS_Product, Zenon
  <1>5. f \in [DOMAIN f -> Nat]
    BY <1>1, FramesConstants
  <1> HIDE DEF f
  <1>6. Countable(f)
    BY <1>2, <1>4, <1>5, FS_Subset DEF Countable
  <1>7. Total(f) \in Nat
    BY <1>6, TotalBounds
  <1> QED BY <1>6, <1>7 DEF Bytes, f

\* No chunks.
LEMMA BytesEmpty == Bytes(<<>>) = 0
  <1> DEFINE f == [i \in DOMAIN <<>> |-> <<>>[i].bytes]
  <1>1. DOMAIN f = {} /\ f = [y \in {} |-> f[y]]
    OBVIOUS
  <1> HIDE DEF f
  <1>2. Total(f) = 0
    BY <1>1, TotalOfNone
  <1> QED BY <1>2 DEF Bytes, f

\* A body with one more chunk is a body, and is not empty.
LEMMA AppendFacts ==
    ASSUME NEW body \in Seq(Chunk), NEW c \in Chunk
    PROVE  Append(body, c) \in Seq(Chunk) /\ Append(body, c) # <<>>
  <1>1. Append(body, c) \in Seq(Chunk)
    OBVIOUS
  <1>2. Len(Append(body, c)) = Len(body) + 1 /\ Len(body) \in Nat
    OBVIOUS
  <1>3. Len(Append(body, c)) # 0
    BY <1>2
  <1>4. Len(<< >>) = 0
    OBVIOUS
  <1>5. Append(body, c) # << >>
    BY <1>3, <1>4, Zenon
  <1> QED BY <1>1, <1>5

\* One more chunk.
LEMMA BytesAppend ==
    ASSUME NEW body \in Seq(Chunk), NEW c \in Chunk
    PROVE  Bytes(Append(body, c)) = Bytes(body) + c.bytes
  <1> DEFINE f == [i \in DOMAIN body |-> body[i].bytes]
             g == [i \in DOMAIN Append(body, c) |-> Append(body, c)[i].bytes]
             x == Len(body) + 1
  <1>1. /\ DOMAIN body = 1..Len(body) /\ DOMAIN Append(body, c) = 1..(Len(body) + 1)
        /\ Len(body) \in Nat /\ c.bytes \in Nat
        /\ Append(body, c)[x] = c /\ \A i \in 1..Len(body) : Append(body, c)[i] = body[i]
    BY FramesConstants DEF Chunk
  <1>2. DOMAIN g = DOMAIN f \cup {x} /\ x \notin DOMAIN f
    BY <1>1
  <1>3. g = [y \in DOMAIN g |-> g[y]] /\ \A y \in DOMAIN f : y # x => g[y] = f[y]
    BY <1>1
  <1>4. g[x] = (IF x \in DOMAIN f THEN f[x] ELSE 0) + c.bytes
    BY <1>1, <1>2
  <1>5. Countable(f)
    BY BytesCountable
  <1>k. c.bytes \in Nat
    BY <1>1
  <1> HIDE DEF f, g, x
  <1>6. Countable(g) /\ Total(g) = Total(f) + c.bytes
    BY <1>k, <1>2, <1>3, <1>4, <1>5, TotalGrows
  <1> QED BY <1>6 DEF Bytes, f, g

\* A buffer is never grown beyond twice what it has to hold.
LEMMA CapFacts ==
    /\ \A n \in Nat : CompactCap(n) \in Nat /\ CompactCap(n) <= 2 * n
    /\ \A cap, n \in Nat : /\ GrownCap(cap, n) \in Nat
                           /\ GrownCap(cap, n) <= 2 * n \/ GrownCap(cap, n) = cap
  <1>1. PICK h \in Nat : h = MaxBytes \div 2 /\ 2 * h <= MaxBytes /\ MaxBytes <= 2 * h + 1
    BY FramesConstants
  <1>2. MaxBytes \in Nat
    BY FramesConstants
  <1>3. ASSUME NEW n \in Nat PROVE CompactCap(n) \in Nat /\ CompactCap(n) <= 2 * n
    BY <1>1, <1>2 DEF CompactCap
  <1>4. ASSUME NEW cap \in Nat, NEW n \in Nat
        PROVE  /\ GrownCap(cap, n) \in Nat
               /\ GrownCap(cap, n) <= 2 * n \/ GrownCap(cap, n) = cap
    BY <1>1, <1>2 DEF GrownCap
  <1> QED BY <1>3, <1>4

\* The memory that a state keeps.
Memory(s) == IF s.compacted THEN s.cap ELSE s.bytes

\* The state with one more chunk.
LEMMA HeldFacts ==
    ASSUME NEW s \in States, NEW c \in Chunk, Memory(s) <= 2 * s.bytes
    PROVE  LET t == Held(s, c)
           IN /\ t \in States /\ t.parts = Append(s.parts, c) /\ t.bytes = s.bytes + c.bytes
              /\ t.frames = s.frames + 1 /\ t.mode = s.mode /\ Memory(t) <= 2 * t.bytes
  <1> DEFINE bytes == s.bytes + c.bytes
             cap == IF s.compacted THEN GrownCap(s.cap, bytes)
                    ELSE IF bytes >= CompactionThreshold THEN CompactCap(bytes) ELSE 0
             compacted == s.compacted \/ bytes >= CompactionThreshold
             t == Held(s, c)
  <1>1. /\ s.parts \in Seq(Chunk) /\ s.cap \in Nat /\ s.compacted \in BOOLEAN
        /\ s.bytes \in Nat /\ s.frames \in Nat /\ s.mode \in Modes
    BY DEF States
  <1>2. c.bytes \in Nat
    BY FramesConstants DEF Chunk
  <1>3. bytes \in Nat /\ s.frames + 1 \in Nat /\ Append(s.parts, c) \in Seq(Chunk) /\
        compacted \in BOOLEAN
    BY <1>1, <1>2
  <1>4. t = State(Append(s.parts, c), cap, compacted, bytes, s.frames + 1, s.mode)
    BY DEF Held
  <1>5. /\ t.parts = Append(s.parts, c) /\ t.cap = cap /\ t.compacted = compacted
        /\ t.bytes = bytes /\ t.frames = s.frames + 1 /\ t.mode = s.mode
    <2> HIDE DEF bytes, cap, compacted, t
    <2> QED BY <1>4 DEF State
  <1>6. cap \in Nat /\ (compacted => cap <= 2 * bytes)
    <2>1. CASE s.compacted
      <3>1. s.cap <= 2 * s.bytes
        BY <2>1 DEF Memory
      <3>2. s.cap <= 2 * bytes
        BY <1>1, <1>2, <3>1
      <3>3. cap = GrownCap(s.cap, bytes)
        BY <2>1
      <3> HIDE DEF bytes, cap
      <3> QED BY <1>1, <1>3, <3>2, <3>3, CapFacts
    <2>2. CASE ~ s.compacted /\ bytes >= CompactionThreshold
      <3>1. cap = CompactCap(bytes)
        BY <2>2
      <3> HIDE DEF bytes, cap
      <3> QED BY <1>3, <3>1, CapFacts
    <2>3. CASE ~ s.compacted /\ ~ (bytes >= CompactionThreshold)
      BY <2>3
    <2> QED BY <1>1, <2>1, <2>2, <2>3
  <1> HIDE DEF bytes, cap, compacted, t
  <1>7. t \in States
    BY <1>1, <1>3, <1>4, <1>6 DEF State, States
  <1>8. Memory(t) <= 2 * t.bytes
    BY <1>3, <1>5, <1>6 DEF Memory
  <1> QED BY <1>5, <1>7, <1>8 DEF t, bytes

-----------------------------------------------------------------------------
(* What a frame does.                                                         *)

\* The next chunk of an answer.
NextChunk(r, b) == [of |-> r, at |-> Len(answered[r].sent) + 1, bytes |-> b]

\* The frame is kept, or finishes its answer, or closes the connection.
Keeps(r, c) ==
    /\ chunks' = [q \in DOMAIN chunks \cup {r} |-> IF q = r THEN Held(StateOf(r), c) ELSE chunks[q]]
    /\ bufferedBytes' = bufferedBytes + c.bytes /\ bufferedFrames' = bufferedFrames + 1
    /\ UNCHANGED <<waits, delivered, link>>
Finishes(r, c) ==
    /\ chunks' = [q \in DOMAIN chunks \ {r} |-> chunks[q]]
    /\ bufferedBytes' = bufferedBytes - StateOf(r).bytes
    /\ bufferedFrames' = bufferedFrames - StateOf(r).frames
    /\ HandOver(r, Held(StateOf(r), c).parts) /\ UNCHANGED link
Reads(r, c, more) ==
    /\ link = "open" /\ ~ answered[r].last /\ c \in Chunk
    /\ answered' = [answered EXCEPT ![r] = [sent |-> Append(answered[r].sent, c), last |-> ~ more]]
    /\ \/ ~ Known(r) /\ FailAll("unknown")
       \/ Known(r) /\ Fault(r, c) # "none" /\ FailAll(Fault(r, c))
       \/ Known(r) /\ Fault(r, c) = "none" /\ more /\ Keeps(r, c)
       \/ Known(r) /\ Fault(r, c) = "none" /\ ~ more /\ Finishes(r, c)

\* The action does just that.
LEMMA ReadEffect ==
    ASSUME FramesTypeOK, NEW r \in Asked, NEW b \in 0..MaxChunk, NEW more \in BOOLEAN,
           ReadFrame(r, b, more)
    PROVE  Reads(r, NextChunk(r, b), more)
  <1> DEFINE c == NextChunk(r, b)
  <1>1. answered[r].sent \in Seq(Chunk) /\ Len(answered[r].sent) < MaxChunks
    BY DEF FramesTypeOK, ReadFrame
  <1>2. Len(answered[r].sent) + 1 \in 1..MaxChunks
    BY <1>1, FramesConstants
  <1>3. c \in Chunk /\ c.bytes = b
    BY <1>2 DEF Chunk, NextChunk
  <1>4. /\ link = "open" /\ ~ answered[r].last
        /\ answered' = [answered EXCEPT ![r] = [sent |-> Append(answered[r].sent, c),
             last |-> ~ more]]
    BY DEF ReadFrame, NextChunk, FramesTypeOK
  <1>5. CASE ~ Known(r)
    <2>1. FailAll("unknown")
      BY <1>5 DEF ReadFrame
    <2> QED BY <1>3, <1>4, <1>5, <2>1 DEF Reads
  <1>6. CASE Known(r) /\ Fault(r, c) # "none"
    <2>1. FailAll(Fault(r, c))
      BY <1>6 DEF ReadFrame, NextChunk
    <2> QED BY <1>3, <1>4, <1>6, <2>1 DEF Reads
  <1>7. CASE Known(r) /\ Fault(r, c) = "none" /\ more
    <2>1. Keeps(r, c)
      BY <1>3, <1>7 DEF ReadFrame, NextChunk, Keeps
    <2> QED BY <1>3, <1>4, <1>7, <2>1 DEF Reads
  <1>8. CASE Known(r) /\ Fault(r, c) = "none" /\ ~ more
    <2>1. Finishes(r, c)
      BY <1>8 DEF ReadFrame, NextChunk, Finishes
    <2> QED BY <1>3, <1>4, <1>8, <2>1 DEF Reads
  <1> QED BY <1>5, <1>6, <1>7, <1>8

\* The state that a frame is added to.
LEMMA StateFacts ==
    ASSUME FramesInv, NEW r \in Asked, link = "open", ~ answered[r].last
    PROVE  LET s == StateOf(r)
           IN /\ s \in States /\ s.parts = answered[r].sent /\ s.frames = Len(s.parts)
              /\ s.bytes = Bytes(s.parts) /\ s.mode = ModeOf(r) /\ Memory(s) <= 2 * s.bytes
              /\ s.bytes = IF r \in DOMAIN chunks THEN chunks[r].bytes ELSE 0
              /\ s.frames = IF r \in DOMAIN chunks THEN Len(chunks[r].parts) ELSE 0
              /\ r \in DOMAIN chunks <=> answered[r].sent # <<>>
              /\ r \in DOMAIN chunks => chunks[r] = s
  <1> DEFINE s == StateOf(r)
  <1>1. r \in DOMAIN chunks <=> answered[r].sent # <<>>
    BY DEF FramesInv, AssemblyOK
  <1>2. CASE r \in DOMAIN chunks
    <2>1. s = chunks[r]
      BY <1>2 DEF StateOf
    <2>2. chunks[r] \in States
      BY <1>2 DEF FramesInv, FramesTypeOK
    <2>3. chunks[r].parts = answered[r].sent /\ chunks[r].mode = ModeOf(r)
      BY <1>2 DEF FramesInv, AssemblyOK
    <2>4. /\ chunks[r].frames = Len(chunks[r].parts) /\ chunks[r].bytes = Bytes(chunks[r].parts)
          /\ Memory(chunks[r]) <= 2 * chunks[r].bytes
      BY <1>2 DEF FramesInv, ChunksOK, Retained, Memory
    <2> HIDE DEF s
    <2> QED BY <1>1, <1>2, <2>1, <2>2, <2>3, <2>4 DEF s
  <1>3. CASE r \notin DOMAIN chunks
    <2>1. s = State(<<>>, 0, FALSE, 0, 0, ModeOf(r))
      BY <1>3 DEF StateOf, NewState
    <2>2. /\ s.parts = <<>> /\ s.cap = 0 /\ s.compacted = FALSE /\ s.bytes = 0 /\ s.frames = 0
          /\ s.mode = ModeOf(r)
      BY <2>1 DEF State
    <2>3. ModeOf(r) \in Modes
      BY DEF ModeOf, Modes
    <2>4. s \in States
      BY <2>1, <2>3 DEF State, States
    <2>5. answered[r].sent = <<>>
      BY <1>1, <1>3
    <2>6. Memory(s) <= 2 * s.bytes
      BY <2>2 DEF Memory
    <2> HIDE DEF s
    <2>7. Len(s.parts) = 0 /\ Bytes(s.parts) = 0
      BY <2>2, BytesEmpty
    <2> QED BY <1>1, <1>3, <2>2, <2>4, <2>5, <2>6, <2>7 DEF s
  <1> QED BY <1>2, <1>3

\* What there is no fault with fits.
LEMMA NoFault ==
    ASSUME FramesInv, NEW r \in Asked, NEW c \in Chunk, Fault(r, c) = "none"
    PROVE  bufferedBytes + c.bytes \in 0..MaxBytes /\ bufferedFrames + 1 \in 0..MaxFrames
  <1>1. /\ bufferedBytes \in 0..MaxBytes /\ bufferedFrames \in 0..MaxFrames
        /\ c.bytes \in Nat /\ MaxBytes \in Nat /\ MaxFrames \in Nat
    BY FramesConstants DEF FramesInv, FramesTypeOK, Chunk
  <1>2. ~ (c.bytes > MaxBytes - bufferedBytes) /\ ~ (bufferedFrames >= MaxFrames)
    BY DEF Fault
  <1> QED BY <1>1, <1>2

\* A chunk is kept.
LEMMA KeepsInv ==
    ASSUME FramesInv, NEW r \in Asked, NEW c, Reads(r, c, TRUE), Fault(r, c) = "none", Keeps(r, c)
    PROVE  FramesInv'
  <1> DEFINE s == StateOf(r)
             t == Held(StateOf(r), c)
  <1>1. /\ link = "open" /\ ~ answered[r].last /\ c \in Chunk
        /\ answered' = [answered EXCEPT ![r] = [sent |-> Append(answered[r].sent, c),
             last |-> FALSE]]
    BY DEF Reads
  <1>2. /\ chunks' = [q \in DOMAIN chunks \cup {r} |-> IF q = r THEN t ELSE chunks[q]]
        /\ bufferedBytes' = bufferedBytes + c.bytes /\ bufferedFrames' = bufferedFrames + 1
        /\ UNCHANGED <<waits, delivered, link>>
    BY DEF Keeps
  <1>3. /\ s \in States /\ s.parts = answered[r].sent /\ s.frames = Len(s.parts)
        /\ s.bytes = Bytes(s.parts) /\ s.mode = ModeOf(r) /\ Memory(s) <= 2 * s.bytes
        /\ s.bytes = IF r \in DOMAIN chunks THEN chunks[r].bytes ELSE 0
        /\ s.frames = IF r \in DOMAIN chunks THEN Len(chunks[r].parts) ELSE 0
    BY <1>1, StateFacts
  <1> HIDE DEF s
  <1>4. /\ t \in States /\ t.parts = Append(s.parts, c) /\ t.bytes = s.bytes + c.bytes
        /\ t.frames = s.frames + 1 /\ t.mode = s.mode /\ Memory(t) <= 2 * t.bytes
    BY <1>1, <1>3, HeldFacts DEF s
  <1> HIDE DEF t
  <1>5. /\ DOMAIN chunks' = DOMAIN chunks \cup {r} /\ chunks'[r] = t
        /\ \A q \in DOMAIN chunks : q # r => chunks'[q] = chunks[q]
    BY <1>2
  <1>6. /\ s.parts \in Seq(Chunk) /\ Len(t.parts) = Len(s.parts) + 1 /\ t.parts # <<>>
        /\ Bytes(t.parts) = Bytes(s.parts) + c.bytes /\ c.bytes \in Nat
    <2>1. s.parts \in Seq(Chunk)
      BY <1>3 DEF States
    <2>2. c.bytes \in Nat
      BY <1>1, FramesConstants DEF Chunk
    <2> QED BY <1>1, <1>4, <2>1, <2>2, BytesAppend
  <1>7. FramesTypeOK'
    <2>1. chunks' \in [DOMAIN chunks' -> States] /\ DOMAIN chunks' \subseteq Asked
      BY <1>2, <1>4, <1>5 DEF FramesInv, FramesTypeOK
    <2>2. answered' \in [Asked -> [sent : Seq(Chunk), last : BOOLEAN]]
      BY <1>1 DEF FramesInv, FramesTypeOK
    <2>3. bufferedBytes' \in 0..MaxBytes /\ bufferedFrames' \in 0..MaxFrames
      BY <1>1, <1>2, NoFault
    <2> QED BY <1>2, <2>1, <2>2, <2>3 DEF FramesInv, FramesTypeOK
  <1>8. AssemblyOK'
    <2> SUFFICES ASSUME NEW q \in Asked
                 PROVE  /\ q \in DOMAIN chunks' <=> answered'[q].sent # <<>> /\ ~ answered'[q].last
                        /\ q \in DOMAIN chunks' => /\ chunks'[q].parts = answered'[q].sent
                                                   /\ chunks'[q].mode = ModeOf(q)'
                        /\ q \notin ControlRequests /\ ~ answered'[q].last => waits'[q] # "gone"
      BY DEF AssemblyOK
    <2>1. ModeOf(q)' = ModeOf(q)
      BY <1>2 DEF ModeOf
    <2>2. /\ q \in DOMAIN chunks <=> answered[q].sent # <<>> /\ ~ answered[q].last
          /\ q \in DOMAIN chunks => chunks[q].parts = answered[q].sent /\ chunks[q].mode = ModeOf(q)
          /\ q \notin ControlRequests /\ ~ answered[q].last => waits[q] # "gone"
      BY <1>1 DEF FramesInv, AssemblyOK
    <2>3. CASE q = r
      <3>1. answered'[q].sent = t.parts /\ ~ answered'[q].last
        BY <1>1, <1>3, <1>4, <2>3 DEF FramesInv, FramesTypeOK
      <3> QED BY <1>1, <1>2, <1>3, <1>4, <1>5, <1>6, <2>1, <2>2, <2>3, <3>1
    <2>4. CASE q # r
      <3>1. answered'[q] = answered[q]
        BY <1>1, <2>4 DEF FramesInv, FramesTypeOK
      <3> QED BY <1>2, <1>5, <2>1, <2>2, <2>4, <3>1
    <2> QED BY <2>3, <2>4
  <1>9. ChunksOK'
    <2> SUFFICES ASSUME NEW q \in DOMAIN chunks'
                 PROVE  /\ chunks'[q].frames = Len(chunks'[q].parts)
                        /\ chunks'[q].bytes = Bytes(chunks'[q].parts)
                        /\ Memory(chunks'[q]) <= 2 * chunks'[q].bytes
      BY DEF ChunksOK, Retained, Memory, Bytes, Total, Ones
    <2>1. CASE q = r
      BY <1>3, <1>4, <1>5, <1>6, <2>1
    <2>2. CASE q # r
      BY <1>5, <2>2 DEF FramesInv, ChunksOK, Retained, Memory
    <2> QED BY <2>1, <2>2
  <1>10. SumsOK'
    <2>1. Countable(SizeOf)' /\ Total(SizeOf)' = Total(SizeOf) + c.bytes
      <3> DEFINE f == SizeOf
                 g == [q \in DOMAIN chunks' |-> chunks'[q].bytes]
      <3>1. DOMAIN g = DOMAIN f \cup {r} /\ g = [y \in DOMAIN g |-> g[y]]
        BY <1>5 DEF SizeOf
      <3>2. \A y \in DOMAIN f : y # r => g[y] = f[y]
        BY <1>5 DEF SizeOf
      <3>3. g[r] = (IF r \in DOMAIN f THEN f[r] ELSE 0) + c.bytes
        BY <1>3, <1>4, <1>5 DEF SizeOf
      <3>4. Countable(f) /\ c.bytes \in Nat
        BY <1>6 DEF FramesInv, SumsOK
      <3> HIDE DEF f, g
      <3>5. Countable(g) /\ Total(g) = Total(f) + c.bytes
        BY <3>1, <3>2, <3>3, <3>4, TotalGrows
      <3> QED BY <3>5 DEF f, g, SizeOf, Countable, Total, Ones
    <2>2. Countable(LengthOf)' /\ Total(LengthOf)' = Total(LengthOf) + 1
      <3> DEFINE f == LengthOf
                 g == [q \in DOMAIN chunks' |-> Len(chunks'[q].parts)]
      <3>1. DOMAIN g = DOMAIN f \cup {r} /\ g = [y \in DOMAIN g |-> g[y]]
        BY <1>5 DEF LengthOf
      <3>2. \A y \in DOMAIN f : y # r => g[y] = f[y]
        BY <1>5 DEF LengthOf
      <3>3. g[r] = (IF r \in DOMAIN f THEN f[r] ELSE 0) + 1
        BY <1>3, <1>5, <1>6 DEF LengthOf
      <3>4. Countable(f) /\ 1 \in Nat
        BY DEF FramesInv, SumsOK
      <3> HIDE DEF f, g
      <3>5. Countable(g) /\ Total(g) = Total(f) + 1
        BY <3>1, <3>2, <3>3, <3>4, TotalGrows
      <3> QED BY <3>5 DEF f, g, LengthOf, Countable, Total, Ones
    <2> QED BY <1>2, <2>1, <2>2 DEF FramesInv, SumsOK
  <1>11. AnswersWhole'
    <2>1. delivered[r] = <<>>
      BY <1>1 DEF FramesInv, AnswersWhole
    <2> QED BY <1>1, <1>2, <2>1 DEF FramesInv, AnswersWhole, FramesTypeOK
  <1> QED BY <1>7, <1>8, <1>9, <1>10, <1>11 DEF FramesInv

\* The counts are about nothing but what is held.
LEMMA SameChunks ==
    ASSUME FramesInv, UNCHANGED <<chunks, bufferedBytes, bufferedFrames>>
    PROVE  ChunksOK' /\ SumsOK'
  <1>1. chunks' = chunks /\ bufferedBytes' = bufferedBytes /\ bufferedFrames' = bufferedFrames
    OBVIOUS
  <1>2. ChunksOK'
    <2> SUFFICES ASSUME NEW q \in DOMAIN chunks'
                 PROVE  /\ chunks'[q].frames = Len(chunks'[q].parts)
                        /\ chunks'[q].bytes = Bytes(chunks'[q].parts)
                        /\ Memory(chunks'[q]) <= 2 * chunks'[q].bytes
      BY DEF ChunksOK, Retained, Memory, Bytes, Total, Ones
    <2> QED BY <1>1 DEF FramesInv, ChunksOK, Retained, Memory
  <1>3. Countable(SizeOf)' /\ Total(SizeOf)' = Total(SizeOf)
    <2>1. SizeOf' = SizeOf
      BY <1>1 DEF SizeOf
    <2>2. Countable(SizeOf)
      BY DEF FramesInv, SumsOK
    <2> QED BY <2>1, <2>2 DEF Countable, Total, Ones
  <1>4. Countable(LengthOf)' /\ Total(LengthOf)' = Total(LengthOf)
    <2>1. LengthOf' = LengthOf
      BY <1>1 DEF LengthOf
    <2>2. Countable(LengthOf)
      BY DEF FramesInv, SumsOK
    <2> QED BY <2>1, <2>2 DEF Countable, Total, Ones
  <1>5. bufferedBytes = Total(SizeOf) /\ bufferedFrames = Total(LengthOf)
    BY DEF FramesInv, SumsOK
  <1>6. SumsOK'
    BY <1>1, <1>3, <1>4, <1>5, Zenon DEF SumsOK
  <1> QED BY <1>2, <1>6

\* An answer is finished.
LEMMA FinishesInv ==
    ASSUME FramesInv, NEW r \in Asked, NEW c, Reads(r, c, FALSE), Finishes(r, c)
    PROVE  FramesInv'
  <1> DEFINE s == StateOf(r)
             t == Held(StateOf(r), c)
  <1>1. /\ link = "open" /\ ~ answered[r].last /\ c \in Chunk
        /\ answered' = [answered EXCEPT ![r] = [sent |-> Append(answered[r].sent, c),
             last |-> TRUE]]
    BY DEF Reads
  <1>2. /\ chunks' = [q \in DOMAIN chunks \ {r} |-> chunks[q]]
        /\ bufferedBytes' = bufferedBytes - s.bytes /\ bufferedFrames' = bufferedFrames - s.frames
        /\ delivered' = IF waits[r] = "waiting" THEN [delivered EXCEPT ![r] =
             t.parts] ELSE delivered
        /\ waits' = [waits EXCEPT ![r] = "gone"] /\ link' = link
    BY DEF Finishes, HandOver
  <1>3. /\ s \in States /\ s.parts = answered[r].sent /\ Memory(s) <= 2 * s.bytes
        /\ s.bytes = IF r \in DOMAIN chunks THEN chunks[r].bytes ELSE 0
        /\ s.frames = IF r \in DOMAIN chunks THEN Len(chunks[r].parts) ELSE 0
    BY <1>1, StateFacts
  <1> HIDE DEF s
  <1>4. t.parts = Append(answered[r].sent, c)
    BY <1>1, <1>3, HeldFacts DEF s
  <1> HIDE DEF t
  <1>5. /\ DOMAIN chunks' = DOMAIN chunks \ {r}
        /\ \A q \in DOMAIN chunks' : chunks'[q] = chunks[q]
    BY <1>2
  <1>6. answered[r].sent \in Seq(Chunk) /\ t.parts \in Seq(Chunk) /\ t.parts # <<>>
    <2>1. answered[r].sent \in Seq(Chunk)
      BY DEF FramesInv, FramesTypeOK
    <2>2. c \in Chunk
      BY <1>1
    <2> QED BY <1>4, <2>1, <2>2, AppendFacts, Zenon
  <1>7. SumsOK' /\ bufferedBytes' \in 0..bufferedBytes /\ bufferedFrames' \in 0..bufferedFrames
    <2>1. CASE r \in DOMAIN chunks
      <3>1. /\ Countable(SizeOf)' /\ Total(SizeOf)' = Total(SizeOf) - chunks[r].bytes
            /\ chunks[r].bytes <= Total(SizeOf) /\ Total(SizeOf) \in Nat /\ chunks[r].bytes \in Nat
        <4> DEFINE f == SizeOf
                   g == [q \in DOMAIN f \ {r} |-> f[q]]
        <4>1. Countable(f) /\ r \in DOMAIN f /\ f[r] = chunks[r].bytes /\ f[r] \in Nat
          BY <2>1 DEF FramesInv, SumsOK, SizeOf, Countable
        <4>2. [q \in DOMAIN chunks' |-> chunks'[q].bytes] = g
          BY <1>5 DEF SizeOf
        <4> HIDE DEF f
        <4>3. Countable(g) /\ Total(g) = Total(f) - f[r]
          BY <4>1, TotalWithout
        <4>4. f[r] <= Total(f) /\ Total(f) \in Nat
          BY <4>1, TotalBounds
        <4> HIDE DEF g
        <4>5. Countable(SizeOf)' /\ Total(SizeOf)' = Total(g)
          BY <4>2, <4>3 DEF SizeOf, Countable, Total, Ones
        <4> QED BY <4>1, <4>3, <4>4, <4>5 DEF f
      <3>2. /\ Countable(LengthOf)' /\ Total(LengthOf)' = Total(LengthOf) - Len(chunks[r].parts)
            /\ Len(chunks[r].parts) <= Total(LengthOf) /\ Total(LengthOf) \in Nat
            /\ Len(chunks[r].parts) \in Nat
        <4> DEFINE f == LengthOf
                   g == [q \in DOMAIN f \ {r} |-> f[q]]
        <4>1. Countable(f) /\ r \in DOMAIN f /\ f[r] = Len(chunks[r].parts) /\ f[r] \in Nat
          BY <2>1 DEF FramesInv, SumsOK, LengthOf, Countable
        <4>2. [q \in DOMAIN chunks' |-> Len(chunks'[q].parts)] = g
          BY <1>5 DEF LengthOf
        <4> HIDE DEF f
        <4>3. Countable(g) /\ Total(g) = Total(f) - f[r]
          BY <4>1, TotalWithout
        <4>4. f[r] <= Total(f) /\ Total(f) \in Nat
          BY <4>1, TotalBounds
        <4> HIDE DEF g
        <4>5. Countable(LengthOf)' /\ Total(LengthOf)' = Total(g)
          BY <4>2, <4>3 DEF LengthOf, Countable, Total, Ones
        <4> QED BY <4>1, <4>3, <4>4, <4>5 DEF f
      <3>3. s.bytes = chunks[r].bytes /\ s.frames = Len(chunks[r].parts)
        BY <1>3, <2>1
      <3>4. bufferedBytes = Total(SizeOf) /\ bufferedFrames = Total(LengthOf)
        BY DEF FramesInv, SumsOK
      <3>5. bufferedBytes' = Total(SizeOf) - chunks[r].bytes
        BY <1>2, <3>3, <3>4, Zenon
      <3>6. bufferedFrames' = Total(LengthOf) - Len(chunks[r].parts)
        BY <1>2, <3>3, <3>4, Zenon
      <3>7. bufferedBytes' = Total(SizeOf)' /\ bufferedFrames' = Total(LengthOf)'
        BY <3>1, <3>2, <3>5, <3>6, Zenon
      <3>8. ASSUME NEW n \in Nat, NEW k \in Nat, k <= n PROVE n - k \in 0..n
        BY <3>8
      <3>9. bufferedBytes' \in 0..bufferedBytes /\ bufferedFrames' \in 0..bufferedFrames
        BY <3>1, <3>2, <3>4, <3>5, <3>6, <3>8, Zenon
      <3> QED BY <3>1, <3>2, <3>7, <3>9, Zenon DEF SumsOK
    <2>2. CASE r \notin DOMAIN chunks
      <3>1. s.bytes = 0 /\ s.frames = 0
        BY <1>3, <2>2
      <3>2. bufferedBytes \in Nat /\ bufferedFrames \in Nat
        BY FramesConstants DEF FramesInv, FramesTypeOK
      <3>3. bufferedBytes' = bufferedBytes /\ bufferedFrames' = bufferedFrames
        BY <1>2, <3>1, <3>2
      <3>4. chunks' = chunks
        <4>1. chunks = [q \in DOMAIN chunks |-> chunks[q]]
          BY DEF FramesInv, FramesTypeOK
        <4>2. DOMAIN chunks \ {r} = DOMAIN chunks
          BY <2>2
        <4> QED BY <1>2, <4>1, <4>2, Zenon
      <3>5. SumsOK'
        BY <3>3, <3>4, SameChunks
      <3> QED BY <3>2, <3>3, <3>5
    <2> QED BY <2>1, <2>2
  <1>8. FramesTypeOK'
    <2>1. chunks' \in [DOMAIN chunks' -> States] /\ DOMAIN chunks' \subseteq Asked
      BY <1>2, <1>5 DEF FramesInv, FramesTypeOK
    <2>2. answered' \in [Asked -> [sent : Seq(Chunk), last : BOOLEAN]]
      BY <1>1, <1>6 DEF FramesInv, FramesTypeOK
    <2>3. delivered' \in [Asked -> Seq(Chunk)]
      BY <1>2, <1>6 DEF FramesInv, FramesTypeOK
    <2>4. waits' \in [Asked -> {"waiting", "abandoned", "gone"}]
      BY <1>2 DEF FramesInv, FramesTypeOK
    <2>5. bufferedBytes' \in 0..MaxBytes /\ bufferedFrames' \in 0..MaxFrames
      BY <1>7, FramesConstants DEF FramesInv, FramesTypeOK
    <2>6. link' \in {"open", "bytes", "frames", "mode", "unknown"}
      BY <1>2 DEF FramesInv, FramesTypeOK
    <2> QED BY <2>1, <2>2, <2>3, <2>4, <2>5, <2>6 DEF FramesTypeOK
  <1>9. AssemblyOK'
    <2> SUFFICES ASSUME NEW q \in Asked
                 PROVE  /\ q \in DOMAIN chunks' <=> answered'[q].sent # <<>> /\ ~ answered'[q].last
                        /\ q \in DOMAIN chunks' => /\ chunks'[q].parts = answered'[q].sent
                                                   /\ chunks'[q].mode = ModeOf(q)'
                        /\ q \notin ControlRequests /\ ~ answered'[q].last => waits'[q] # "gone"
      BY DEF AssemblyOK
    <2>1. /\ q \in DOMAIN chunks <=> answered[q].sent # <<>> /\ ~ answered[q].last
          /\ q \in DOMAIN chunks => chunks[q].parts = answered[q].sent /\ chunks[q].mode = ModeOf(q)
          /\ q \notin ControlRequests /\ ~ answered[q].last => waits[q] # "gone"
      BY <1>1 DEF FramesInv, AssemblyOK
    <2>2. CASE q = r
      <3>1. answered'[q].last
        BY <1>1, <2>2 DEF FramesInv, FramesTypeOK
      <3> QED BY <1>5, <2>2, <3>1
    <2>3. CASE q # r
      <3>1. answered'[q] = answered[q] /\ waits'[q] = waits[q]
        BY <1>1, <1>2, <2>3 DEF FramesInv, FramesTypeOK
      <3>2. ModeOf(q)' = ModeOf(q)
        BY <3>1 DEF ModeOf
      <3> QED BY <1>5, <2>1, <2>3, <3>1, <3>2
    <2> QED BY <2>2, <2>3
  <1>10. ChunksOK'
    <2> SUFFICES ASSUME NEW q \in DOMAIN chunks'
                 PROVE  /\ chunks'[q].frames = Len(chunks'[q].parts)
                        /\ chunks'[q].bytes = Bytes(chunks'[q].parts)
                        /\ Memory(chunks'[q]) <= 2 * chunks'[q].bytes
      BY DEF ChunksOK, Retained, Memory, Bytes, Total, Ones
    <2> QED BY <1>5 DEF FramesInv, ChunksOK, Retained, Memory
  <1>11. AnswersWhole'
    <2> SUFFICES ASSUME NEW q \in Asked, delivered'[q] # <<>>
                 PROVE  answered'[q].last /\ delivered'[q] = answered'[q].sent
      BY DEF AnswersWhole
    <2>1. CASE q = r
      <3>1. delivered[r] = <<>>
        BY <1>1 DEF FramesInv, AnswersWhole
      <3>2. delivered'[r] = t.parts
        BY <1>2, <2>1, <3>1 DEF FramesInv, FramesTypeOK
      <3>3. answered'[r].last /\ answered'[r].sent = t.parts
        BY <1>1, <1>4 DEF FramesInv, FramesTypeOK
      <3> QED BY <2>1, <3>2, <3>3
    <2>2. CASE q # r
      <3>1. answered'[q] = answered[q] /\ delivered'[q] = delivered[q]
        BY <1>1, <1>2, <2>2 DEF FramesInv, FramesTypeOK
      <3> QED BY <3>1 DEF FramesInv, AnswersWhole
    <2> QED BY <2>1, <2>2
  <1> QED BY <1>7, <1>8, <1>9, <1>10, <1>11 DEF FramesInv

\* The connection is closed.
LEMMA FailsInv ==
    ASSUME FramesInv, NEW r \in Asked, NEW c, NEW more \in BOOLEAN, Reads(r, c, more),
           NEW why \in {"bytes", "frames", "mode", "unknown"}, FailAll(why)
    PROVE  FramesInv'
  <1>1. /\ link = "open" /\ ~ answered[r].last /\ c \in Chunk
        /\ answered' = [answered EXCEPT ![r] = [sent |-> Append(answered[r].sent, c),
             last |-> ~ more]]
    BY DEF Reads
  <1>2. /\ link' = why /\ waits' = [q \in Asked |-> "gone"]
        /\ UNCHANGED <<chunks, bufferedBytes, bufferedFrames, delivered>>
    BY DEF FailAll
  <1>3. FramesTypeOK'
    <2>1. answered[r].sent \in Seq(Chunk)
      BY DEF FramesInv, FramesTypeOK
    <2>2. answered' \in [Asked -> [sent : Seq(Chunk), last : BOOLEAN]]
      BY <1>1, <2>1 DEF FramesInv, FramesTypeOK
    <2>3. waits' \in [Asked -> {"waiting", "abandoned", "gone"}] /\
          link' \in {"open", "bytes", "frames", "mode", "unknown"}
      BY <1>2
    <2> QED BY <1>2, <2>2, <2>3 DEF FramesInv, FramesTypeOK
  <1>4. AssemblyOK'
    BY <1>2 DEF AssemblyOK
  <1>5. ChunksOK' /\ SumsOK'
    BY <1>2, SameChunks
  <1>6. AnswersWhole'
    <2>1. delivered[r] = <<>>
      BY <1>1 DEF FramesInv, AnswersWhole
    <2> QED BY <1>1, <1>2, <2>1 DEF FramesInv, AnswersWhole, FramesTypeOK
  <1> QED BY <1>3, <1>4, <1>5, <1>6 DEF FramesInv

\* A request is canceled.
LEMMA CancelInv ==
    ASSUME FramesInv, NEW r \in Asked, CancelRequest(r)
    PROVE  FramesInv'
  <1>1. /\ waits' = [waits EXCEPT ![r] = IF r \in ControlRequests THEN "gone" ELSE "abandoned"]
        /\ UNCHANGED <<answered, chunks, bufferedBytes, bufferedFrames, delivered, link>>
        /\ link = "open" /\ waits[r] = "waiting"
    BY DEF CancelRequest
  <1>2. FramesTypeOK'
    <2>1. waits' \in [Asked -> {"waiting", "abandoned", "gone"}]
      BY <1>1 DEF FramesInv, FramesTypeOK
    <2> QED BY <1>1, <2>1 DEF FramesInv, FramesTypeOK
  <1>3. AssemblyOK'
    <2>1. ASSUME NEW q \in Asked PROVE ModeOf(q)' = ModeOf(q)
      <3>1. CASE q = r
        BY <1>1, <3>1, FramesConstants DEF ModeOf, FramesInv, FramesTypeOK
      <3>2. CASE q # r
        BY <1>1, <3>2 DEF ModeOf, FramesInv, FramesTypeOK
      <3> QED BY <3>1, <3>2
    <2>2. ASSUME NEW q \in Asked, q \notin ControlRequests,
                   waits[q] # "gone" PROVE waits'[q] # "gone"
      BY <1>1, <2>2 DEF FramesInv, FramesTypeOK
    <2> QED BY <1>1, <2>1, <2>2 DEF FramesInv, AssemblyOK
  <1>4. ChunksOK' /\ SumsOK'
    BY <1>1, SameChunks
  <1>5. AnswersWhole'
    BY <1>1 DEF FramesInv, AnswersWhole
  <1> QED BY <1>2, <1>3, <1>4, <1>5 DEF FramesInv

\* The first frame has not come.
LEMMA FramesStarts == ASSUME FramesInit PROVE FramesInv
  <1>1. chunks = [r \in {} |-> <<>>] /\ DOMAIN chunks = {} /\ bufferedBytes = 0 /\
          bufferedFrames = 0
    BY DEF FramesInit
  <1>2. <<>> \in Seq(Chunk)
    OBVIOUS
  <1>3. FramesTypeOK
    <2>1. chunks \in [DOMAIN chunks -> States] /\ DOMAIN chunks \subseteq Asked
      BY <1>1
    <2>2. /\ answered \in [Asked -> [sent : Seq(Chunk), last : BOOLEAN]]
          /\ delivered \in [Asked -> Seq(Chunk)]
          /\ waits \in [Asked -> {"waiting", "abandoned", "gone"}]
          /\ link \in {"open", "bytes", "frames", "mode", "unknown"}
      BY <1>2 DEF FramesInit
    <2>3. bufferedBytes \in 0..MaxBytes /\ bufferedFrames \in 0..MaxFrames
      BY <1>1, FramesConstants
    <2> QED BY <2>1, <2>2, <2>3 DEF FramesTypeOK
  <1>4. AssemblyOK /\ AnswersWhole
    BY <1>1 DEF FramesInit, AssemblyOK, AnswersWhole
  <1>5. ChunksOK
    BY <1>1 DEF ChunksOK
  <1>6. SumsOK
    <2>1. DOMAIN SizeOf = {} /\ SizeOf = [y \in {} |-> SizeOf[y]]
      BY <1>1 DEF SizeOf
    <2>2. DOMAIN LengthOf = {} /\ LengthOf = [y \in {} |-> LengthOf[y]]
      BY <1>1 DEF LengthOf
    <2> QED BY <1>1, <2>1, <2>2, TotalOfNone DEF SumsOK
  <1> QED BY <1>3, <1>4, <1>5, <1>6 DEF FramesInv

\* Every step keeps the invariant.
LEMMA FramesStep == ASSUME FramesInv, [FramesNext]_framesVars PROVE FramesInv'
  <1>1. CASE UNCHANGED framesVars
    <2>1. UNCHANGED <<waits, answered, chunks, bufferedBytes, bufferedFrames, delivered, link>>
      BY <1>1 DEF framesVars
    <2>3. FramesTypeOK' /\ AssemblyOK' /\ AnswersWhole'
      BY <2>1 DEF FramesInv, FramesTypeOK, AssemblyOK, AnswersWhole, ModeOf
    <2>4. ChunksOK' /\ SumsOK'
      BY <2>1, SameChunks
    <2> QED BY <2>3, <2>4 DEF FramesInv
  <1>2. ASSUME NEW r \in Asked, CancelRequest(r) PROVE FramesInv'
    BY <1>2, CancelInv
  <1>3. ASSUME NEW r \in Asked, NEW b \in 0..MaxChunk, NEW more \in BOOLEAN, ReadFrame(r, b, more)
        PROVE  FramesInv'
    <2> DEFINE c == NextChunk(r, b)
    <2>1. Reads(r, c, more)
      BY <1>3, ReadEffect DEF FramesInv
    <2> HIDE DEF c
    <2>2. CASE ~ Known(r) /\ FailAll("unknown")
      BY <2>1, <2>2, FailsInv
    <2>3. CASE Fault(r, c) # "none" /\ FailAll(Fault(r, c))
      <3>1. Fault(r, c) \in {"bytes", "frames", "mode", "unknown"}
        BY <2>3 DEF Fault
      <3> QED BY <2>1, <2>3, <3>1, FailsInv
    <2>4. CASE Fault(r, c) = "none" /\ more = TRUE /\ Keeps(r, c)
      BY <2>1, <2>4, KeepsInv
    <2>5. CASE more = FALSE /\ Finishes(r, c)
      BY <2>1, <2>5, FinishesInv
    <2> QED BY <2>1, <2>2, <2>3, <2>4, <2>5 DEF Reads
  <1> QED BY <1>1, <1>2, <1>3 DEF FramesNext

\* The inductive invariant.
THEOREM FramesInvariant == FramesSpec => []FramesInv
  <1>1. FramesInit => FramesInv
    BY FramesStarts
  <1>2. FramesInv /\ [FramesNext]_framesVars => FramesInv'
    BY FramesStep
  <1> QED BY <1>1, <1>2, PTL DEF FramesSpec

\* Every answer is handed over whole, and what is held is counted and bounded.
THEOREM AnswersAreAssembled == FramesSpec => []AnswersAssembled
  <1>1. FramesInv => AnswersAssembled
    <2> SUFFICES ASSUME FramesInv PROVE RetainedBounded
      BY DEF FramesInv, AnswersAssembled
    <2> DEFINE f == SizeOf
               g == [r \in DOMAIN chunks |-> Retained(r)]
    <2>1. /\ bufferedBytes = Total(f) /\ bufferedFrames = Total(LengthOf) /\ Countable(f)
          /\ bufferedBytes \in 0..MaxBytes
      BY DEF FramesInv, SumsOK, FramesTypeOK
    <2>2. DOMAIN g = DOMAIN f /\ \A x \in DOMAIN f : g[x] <= 2 * f[x]
      BY DEF FramesInv, ChunksOK, SizeOf
    <2>3. g \in [DOMAIN g -> Nat]
      BY DEF FramesInv, FramesTypeOK, States, Retained
    <2> HIDE DEF f, g
    <2>4. Total(g) <= 2 * Total(f) /\ Countable(g)
      BY <2>1, <2>2, <2>3, TotalAtMostDouble
    <2>5. Total(g) \in Nat /\ Total(f) \in Nat
      BY <2>1, <2>4, TotalBounds
    <2>6. Total(g) <= 2 * MaxBytes
      BY <2>1, <2>4, <2>5, FramesConstants
    <2> QED BY <2>1, <2>6 DEF RetainedBounded, SizeOf, LengthOf, f, g
  <1> QED BY <1>1, FramesInvariant, PTL

\* What the server has sent of the answers that a frame finds unfinished is what is
\* held and the frame itself.
LEMMA UnfinishedTotals ==
    ASSUME FramesInv, NEW r \in Asked, NEW c, NEW more \in BOOLEAN, Reads(r, c, more)
    PROVE  LET unfinished == {q \in Asked : \/ answered[q].sent # <<>> /\ ~ answered[q].last
                                            \/ answered'[q] # answered[q]}
               f == [q \in unfinished |-> Bytes(answered'[q].sent)]
               g == [q \in unfinished |-> Len(answered'[q].sent)]
           IN /\ Countable(f) /\ Total(f) = bufferedBytes + c.bytes
              /\ Countable(g) /\ Total(g) = bufferedFrames + 1
              /\ r \in unfinished
              /\ f[r] = StateOf(r).bytes + c.bytes /\ g[r] = StateOf(r).frames + 1
  <1> DEFINE U == {q \in Asked : \/ answered[q].sent # <<>> /\ ~ answered[q].last
                                 \/ answered'[q] # answered[q]}
             f == [q \in U |-> Bytes(answered'[q].sent)]
             g == [q \in U |-> Len(answered'[q].sent)]
             s == StateOf(r)
  <1>1. /\ link = "open" /\ ~ answered[r].last /\ c \in Chunk
        /\ answered' = [answered EXCEPT ![r] = [sent |-> Append(answered[r].sent, c),
                                               last |-> ~ more]]
    BY DEF Reads
  <1>2. /\ s.parts = answered[r].sent /\ s.frames = Len(s.parts) /\ s.bytes = Bytes(s.parts)
        /\ s.bytes = IF r \in DOMAIN chunks THEN chunks[r].bytes ELSE 0
        /\ s.frames = IF r \in DOMAIN chunks THEN Len(chunks[r].parts) ELSE 0
    BY <1>1, StateFacts
  <1>3. /\ answered'[r].sent = Append(answered[r].sent, c)
        /\ \A q \in Asked : q # r => answered'[q] = answered[q]
    BY <1>1 DEF FramesInv, FramesTypeOK
  <1>4. answered[r].sent \in Seq(Chunk) /\ c.bytes \in Nat
    <2>1. answered[r].sent \in Seq(Chunk)
      BY DEF FramesInv, FramesTypeOK
    <2>2. c.bytes \in Nat
      BY <1>1, FramesConstants DEF Chunk
    <2> QED BY <2>1, <2>2
  <1>5. /\ Len(answered'[r].sent) = Len(answered[r].sent) + 1
        /\ Len(answered[r].sent) \in Nat
    BY <1>1, <1>3, <1>4
  <1>6. Bytes(answered'[r].sent) = Bytes(answered[r].sent) + c.bytes
    BY <1>1, <1>3, <1>4, BytesAppend
  <1> HIDE DEF s
  <1>7. U = DOMAIN chunks \cup {r}
    <2>1. answered'[r] # answered[r]
      BY <1>5
    <2>2. \A q \in Asked : q \in DOMAIN chunks <=> answered[q].sent # <<>> /\ ~ answered[q].last
      BY <1>1 DEF FramesInv, AssemblyOK
    <2>3. DOMAIN chunks \subseteq Asked
      BY DEF FramesInv, FramesTypeOK
    <2> QED BY <1>3, <2>1, <2>2, <2>3
  <1>8. ASSUME NEW q \in DOMAIN chunks, q # r
        PROVE  /\ Bytes(answered'[q].sent) = chunks[q].bytes
               /\ Len(answered'[q].sent) = Len(chunks[q].parts)
    <2>1. q \in Asked
      BY DEF FramesInv, FramesTypeOK
    <2>2. answered'[q].sent = chunks[q].parts
      BY <1>1, <1>3, <1>8, <2>1 DEF FramesInv, AssemblyOK
    <2>3. chunks[q].bytes = Bytes(chunks[q].parts)
      BY DEF FramesInv, ChunksOK
    <2> QED BY <2>2, <2>3
  <1> HIDE DEF U
  <1>9. Countable(f) /\ Total(f) = Total(SizeOf) + c.bytes /\ f[r] = s.bytes + c.bytes
    <2> DEFINE h == SizeOf
    <2>1. DOMAIN f = DOMAIN h \cup {r} /\ f = [y \in DOMAIN f |-> f[y]]
      BY <1>7 DEF SizeOf
    <2>2. \A y \in DOMAIN h : y # r => f[y] = h[y]
      BY <1>7, <1>8 DEF SizeOf
    <2>3. f[r] = s.bytes + c.bytes
      BY <1>2, <1>6, <1>7
    <2>4. s.bytes = IF r \in DOMAIN h THEN h[r] ELSE 0
      BY <1>2 DEF SizeOf
    <2>5. Countable(h) /\ c.bytes \in Nat
      BY <1>4 DEF FramesInv, SumsOK
    <2> HIDE DEF f, h
    <2>6. f[r] = (IF r \in DOMAIN h THEN h[r] ELSE 0) + c.bytes
      BY <2>3, <2>4, Zenon
    <2>7. Countable(f) /\ Total(f) = Total(h) + c.bytes
      BY <2>1, <2>2, <2>5, <2>6, TotalGrows
    <2> QED BY <2>3, <2>7 DEF h
  <1>10. Countable(g) /\ Total(g) = Total(LengthOf) + 1 /\ g[r] = s.frames + 1
    <2> DEFINE h == LengthOf
    <2>1. DOMAIN g = DOMAIN h \cup {r} /\ g = [y \in DOMAIN g |-> g[y]]
      BY <1>7 DEF LengthOf
    <2>2. \A y \in DOMAIN h : y # r => g[y] = h[y]
      BY <1>7, <1>8 DEF LengthOf
    <2>3. g[r] = s.frames + 1
      BY <1>2, <1>5, <1>7
    <2>4. s.frames = IF r \in DOMAIN h THEN h[r] ELSE 0
      BY <1>2 DEF LengthOf
    <2>5. Countable(h) /\ 1 \in Nat
      BY DEF FramesInv, SumsOK
    <2> HIDE DEF g, h
    <2>6. g[r] = (IF r \in DOMAIN h THEN h[r] ELSE 0) + 1
      BY <2>3, <2>4, Zenon
    <2>7. Countable(g) /\ Total(g) = Total(h) + 1
      BY <2>1, <2>2, <2>5, <2>6, TotalGrows
    <2> QED BY <2>3, <2>7 DEF h
  <1>11. bufferedBytes = Total(SizeOf) /\ bufferedFrames = Total(LengthOf)
    BY DEF FramesInv, SumsOK
  <1>12. r \in U
    BY <1>7
  <1> HIDE DEF f, g
  <1>13. /\ Countable(f) /\ Total(f) = bufferedBytes + c.bytes
         /\ Countable(g) /\ Total(g) = bufferedFrames + 1
         /\ r \in U /\ f[r] = s.bytes + c.bytes /\ g[r] = s.frames + 1
    BY <1>9, <1>10, <1>11, <1>12, Zenon
  <1> QED BY <1>13 DEF f, g, U, s

\* A frame that closes the connection exceeds a bound.
LEMMA ClosingFrame ==
    ASSUME FramesInv, NEW r \in Asked, NEW c, NEW more \in BOOLEAN, Reads(r, c, more)
    PROVE  ClosedOverABound
  <1> DEFINE U == {q \in Asked : \/ answered[q].sent # <<>> /\ ~ answered[q].last
                                 \/ answered'[q] # answered[q]}
             f == [q \in U |-> Bytes(answered'[q].sent)]
             g == [q \in U |-> Len(answered'[q].sent)]
             s == StateOf(r)
  <1>1. link = "open" /\ ~ answered[r].last /\ c \in Chunk
    BY DEF Reads
  <1>2. /\ s \in States /\ s.mode = ModeOf(r) /\ (r \in DOMAIN chunks => chunks[r] = s)
        /\ s.bytes \in Nat /\ s.frames \in Nat
    <2>1. s \in States /\ s.mode = ModeOf(r) /\ (r \in DOMAIN chunks => chunks[r] = s)
      BY <1>1, StateFacts
    <2> QED BY <2>1 DEF States
  <1>3. /\ Countable(f) /\ Total(f) = bufferedBytes + c.bytes
        /\ Countable(g) /\ Total(g) = bufferedFrames + 1
        /\ r \in U /\ f[r] = s.bytes + c.bytes /\ g[r] = s.frames + 1
    BY UnfinishedTotals
  <1>4. DOMAIN f = U /\ DOMAIN g = U
    OBVIOUS
  <1>5. /\ c.bytes \in Nat /\ MaxBytes \in Nat /\ MaxFrames \in Nat
        /\ bufferedBytes \in Nat /\ bufferedFrames \in Nat
    BY <1>1, FramesConstants DEF FramesInv, FramesTypeOK, Chunk
  <1>6. Known(r)
    BY <1>1 DEF FramesInv, AssemblyOK, Known
  <1> SUFFICES ASSUME link' # link
               PROVE  \/ link' = "bytes" /\ Total(f) > MaxBytes
                      \/ link' = "frames" /\ Total(g) > MaxFrames
    BY DEF ClosedOverABound
  <1>7. Fault(r, c) # "none" /\ link' = Fault(r, c)
    BY <1>6 DEF Reads, Keeps, Finishes, FailAll
  <1> HIDE DEF U, f, g
  <1>8. f[r] <= Total(f) /\ g[r] <= Total(g)
    BY <1>3, <1>4, TotalBounds
  <1> HIDE DEF s
  <1>9. s.bytes + c.bytes <= bufferedBytes + c.bytes /\ s.frames + 1 <= bufferedFrames + 1
    BY <1>3, <1>8, Zenon
  <1>10. \/ Fault(r, c) = "bytes" /\ bufferedBytes + c.bytes > MaxBytes
         \/ Fault(r, c) = "frames" /\ bufferedFrames + 1 > MaxFrames
    <2>1. ~ (r \in DOMAIN chunks /\ chunks[r].mode # ModeOf(r))
      BY <1>2
    <2>2. \/ Fault(r, c) = "bytes" /\ c.bytes > MaxBytes
          \/ Fault(r, c) = "bytes" /\ c.bytes > MaxBytes - s.bytes
          \/ Fault(r, c) = "frames" /\ s.frames >= MaxFrames
          \/ Fault(r, c) = "bytes" /\ c.bytes > MaxBytes - bufferedBytes
          \/ Fault(r, c) = "frames" /\ bufferedFrames >= MaxFrames
      BY <1>7, <2>1 DEF Fault, s
    <2> QED BY <1>2, <1>5, <1>9, <2>2
  <1> QED BY <1>3, <1>7, <1>10, Zenon

\* A server that keeps to the protocol loses the connection only over a bound that is
\* really exceeded (native_reader.go:111).
THEOREM ClosesOnlyOverABound == FramesSpec => OnlyBoundsClose
  <1>1. FramesInv /\ [FramesNext]_framesVars => [ClosedOverABound]_framesVars
    <2> SUFFICES ASSUME FramesInv, FramesNext PROVE ClosedOverABound
      OBVIOUS
    <2>1. ASSUME NEW r \in Asked, CancelRequest(r) PROVE ClosedOverABound
      <3>1. link' = link
        BY <2>1 DEF CancelRequest
      <3> QED BY <3>1 DEF ClosedOverABound
    <2>2. ASSUME NEW r \in Asked, NEW b \in 0..MaxChunk, NEW more \in BOOLEAN,
                 ReadFrame(r, b, more)
          PROVE  ClosedOverABound
      <3>1. Reads(r, NextChunk(r, b), more)
        BY <2>2, ReadEffect DEF FramesInv
      <3> QED BY <3>1, ClosingFrame
    <2> QED BY <2>1, <2>2 DEF FramesNext
  <1> QED BY <1>1, FramesInvariant, PTL DEF FramesSpec, OnlyBoundsClose
=============================================================================
