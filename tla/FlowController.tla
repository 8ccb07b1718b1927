--------------------------- MODULE FlowController ---------------------------
(* The request credits of one native connection (native_limits.go): a request *)
(* needs one credit of the connection and one of its lane before its bytes    *)
(* may be written; requests without a credit queue per lane, and a released   *)
(* credit is passed on round-robin over the lanes that have waiters.          *)
(*                                                                            *)
(* Every critical section of f.mu is one action, except that pumpLocked's     *)
(* outer loop is one action per iteration: while mu = "pump" the section that *)
(* called pumpLocked still holds the mutex, and no other action is possible.  *)
(*                                                                            *)
(* A nativeFlowWaiter is the request that made it.  Its settled, granted and  *)
(* err fields are the request's program point:                                *)
(*   "queued"    not settled, linked into queues[lane]                        *)
(*   "granted"   settled and granted, acquire has not returned yet            *)
(*   "failed"    settled with err by close, acquire has not returned yet      *)
(*   "giveBack"  ctx.Done() won the select against a grant: acquire saw       *)
(*               granted, released the mutex and is about to call release     *)
EXTENDS Integers, Sequences, FiniteSets

CONSTANTS
    Requests,        \* goroutines that call acquire and later release
    Lanes,           \* lane ids
    ConnLimits,      \* values the server may advertise for the connection
    LaneLimits,      \* values the server may advertise for a lane window
    LaneQueueLimit,  \* f.laneQueueLimit, fixed by the handshake
    MaxQueued        \* f.maxQueued, NativeOptions.MaxQueuedRequests

ASSUME FlowConstants ==
    /\ IsFiniteSet(Requests)
    /\ Lanes # {}
    /\ ConnLimits \subseteq Nat
    /\ LaneLimits \subseteq Nat
    /\ LaneQueueLimit \in Nat
    /\ MaxQueued \in Nat

VARIABLES
    connectionLimit, \* f.connectionLimit
    laneLimit,       \* f.laneLimit = min(f.laneWindowLimit, f.laneQueueLimit)
    activeTotal,     \* f.activeTotal
    activeByLane,    \* f.activeByLane
    queues,          \* f.queues[lane], head first
    ready,           \* f.ready: the lanes with waiters, in round-robin order
    queuedTotal,     \* f.queuedTotal
    closed,          \* f.closedErr # nil
    mu,              \* "free", or "pump" while pumpLocked runs
    pc,              \* where each request is
    lane             \* the lane of its current call

limits  == <<connectionLimit, laneLimit>>
credits == <<activeTotal, activeByLane>>
waiters == <<queues, ready, queuedTotal>>
calls   == <<pc, lane>>
vars == <<limits, credits, waiters, closed, mu, calls>>

PCs == {"idle", "queued", "granted", "failed", "giveBack", "holding"}

\* The requests that own a credit of lane l: those that were given one and
\* have not run release.
Owning == {"granted", "giveBack", "holding"}
Owners(l) == {r \in Requests : pc[r] \in Owning /\ lane[r] = l}

effectiveLaneLimit(window) == IF window < LaneQueueLimit THEN window ELSE LaneQueueLimit

TypeOK ==
    /\ connectionLimit \in Nat /\ laneLimit \in Nat
    /\ activeTotal \in Nat /\ activeByLane \in [Lanes -> Nat]
    /\ queues \in [Lanes -> Seq(Requests)]
    /\ ready \in Seq(Lanes)
    /\ queuedTotal \in Nat
    /\ closed \in BOOLEAN
    /\ mu \in {"free", "pump"}
    /\ pc \in [Requests -> PCs]
    /\ lane \in [Requests -> Lanes]

\* newNativeFlowController, with the limits of the handshake.
Init ==
    /\ connectionLimit \in ConnLimits
    /\ \E w \in LaneLimits : laneLimit = effectiveLaneLimit(w)
    /\ activeTotal = 0 /\ activeByLane = [l \in Lanes |-> 0]
    /\ queues = [l \in Lanes |-> <<>>]
    /\ ready = <<>>
    /\ queuedTotal = 0
    /\ closed = FALSE
    /\ mu = "free"
    /\ pc = [r \in Requests |-> "idle"]
    /\ lane = [r \in Requests |-> CHOOSE l \in Lanes : TRUE]

Goto(r, label) == pc' = [pc EXCEPT ![r] = label]

canAcquireLocked(l) == activeTotal < connectionLimit /\ activeByLane[l] < laneLimit

activateLocked(l) ==
    /\ activeTotal' = activeTotal + 1
    /\ activeByLane' = [activeByLane EXCEPT ![l] = @ + 1]

----------------------------------------------------------------------------
\* acquire's early returns: closed, lane queue disabled, no credit advertised.
\* Each returns an error and changes nothing.
Admits == mu = "free" /\ ~closed /\ LaneQueueLimit > 0 /\ connectionLimit > 0 /\ laneLimit > 0

\* acquire finds a credit.
AcquireNow(r, l) ==
    /\ pc[r] = "idle"
    /\ Admits
    /\ canAcquireLocked(l)
    /\ activateLocked(l)
    /\ Goto(r, "holding")
    /\ lane' = [lane EXCEPT ![r] = l]
    /\ UNCHANGED <<limits, waiters, closed, mu>>

\* acquire finds none and links a waiter behind the lane's tail; with the
\* client queue full it returns errNativeClientQueueFull instead.
AcquireQueue(r, l) ==
    /\ pc[r] = "idle"
    /\ Admits
    /\ ~canAcquireLocked(l)
    /\ queuedTotal < MaxQueued
    /\ queues' = [queues EXCEPT ![l] = Append(@, r)]
    /\ ready' = IF queues[l] = <<>> THEN Append(ready, l) ELSE ready
    /\ queuedTotal' = queuedTotal + 1
    /\ Goto(r, "queued")
    /\ lane' = [lane EXCEPT ![r] = l]
    /\ UNCHANGED <<limits, credits, closed, mu>>

\* acquire returns after waiter.ready was closed: with a credit, or with the
\* error close left in the waiter.
AcquireReturns(r) ==
    /\ mu = "free"
    /\ \/ pc[r] = "granted" /\ Goto(r, "holding")
       \/ pc[r] = "failed" /\ Goto(r, "idle")
    /\ UNCHANGED <<limits, credits, waiters, closed, mu, lane>>

without(s, i) == SubSeq(s, 1, i - 1) \o SubSeq(s, i + 1, Len(s))

\* Mutant: the last waiter of a lane leaves and the lane stays on the list.
CancelQueuedKeepsLane(r) ==
    /\ pc[r] = "queued"
    /\ mu = "free"
    /\ \E i \in DOMAIN queues[lane[r]] :
          /\ queues[lane[r]][i] = r
          /\ queues' = [queues EXCEPT ![lane[r]] = without(@, i)]
    /\ queuedTotal' = queuedTotal - 1
    /\ Goto(r, "idle")
    /\ UNCHANGED <<limits, credits, ready, closed, mu, lane>>

\* ctx.Done() before the waiter was settled: unlink it, and drop its lane from
\* the round-robin list with the lane's last waiter.
CancelQueued(r) ==
    /\ pc[r] = "queued"
    /\ mu = "free"
    /\ \E i \in DOMAIN queues[lane[r]] :
          /\ queues[lane[r]][i] = r
          /\ queues' = [queues EXCEPT ![lane[r]] = without(@, i)]
    /\ queuedTotal' = queuedTotal - 1
    /\ IF Len(queues[lane[r]]) = 1
       THEN \E k \in DOMAIN ready : ready[k] = lane[r] /\ ready' = without(ready, k)
       ELSE UNCHANGED ready
    /\ Goto(r, "idle")
    /\ UNCHANGED <<limits, credits, closed, mu, lane>>

\* Mutant: a cancelled acquire does not look at waiter.granted.
CancelSettledLeaks(r) ==
    /\ mu = "free"
    /\ pc[r] \in {"granted", "failed"}
    /\ Goto(r, "idle")
    /\ UNCHANGED <<limits, credits, waiters, closed, mu, lane>>

\* ctx.Done() is chosen although the waiter is already settled: the credit of a
\* granted one is given back by release, in a later critical section.
CancelSettled(r) ==
    /\ mu = "free"
    /\ \/ pc[r] = "granted" /\ Goto(r, "giveBack")
       \/ pc[r] = "failed" /\ Goto(r, "idle")
    /\ UNCHANGED <<limits, credits, waiters, closed, mu, lane>>

\* release, by the request that is done or by the cancelled acquire.
Release(r) ==
    /\ pc[r] \in {"holding", "giveBack"}
    /\ mu = "free"
    /\ Goto(r, "idle")
    /\ IF activeByLane[lane[r]] <= 0
       THEN UNCHANGED <<credits, mu>>
       ELSE /\ activeTotal' = activeTotal - 1
            /\ activeByLane' = [activeByLane EXCEPT ![lane[r]] = @ - 1]
            /\ mu' = IF closed THEN "free" ELSE "pump"
    /\ UNCHANGED <<limits, waiters, closed, lane>>

\* Mutant: the inner loop stops at the first lane that is at its limit.
EligibleHeadOnly ==
    IF closed \/ activeTotal >= connectionLimit THEN {}
    ELSE {i \in DOMAIN ready : i = 1 /\ activeByLane[ready[i]] < laneLimit}

\* The positions of the round-robin list whose lane has a free credit.
Eligible ==
    IF closed \/ activeTotal >= connectionLimit THEN {}
    ELSE {i \in DOMAIN ready : activeByLane[ready[i]] < laneLimit}

\* Mutant: takeWaiterLocked takes the newest waiter of the lane.
PumpStepNewestFirst ==
    /\ mu = "pump"
    /\ \/ /\ Eligible = {}
          /\ mu' = "free"
          /\ UNCHANGED <<credits, waiters, pc>>
       \/ \E i \in Eligible :
          LET l == ready[i]
              rest == SubSeq(ready, i + 1, Len(ready)) \o SubSeq(ready, 1, i - 1)
          IN /\ \A j \in Eligible : i <= j
             /\ queues[l] # <<>>
             /\ queues' = [queues EXCEPT ![l] = SubSeq(@, 1, Len(@) - 1)]
             /\ ready' = IF Len(queues[l]) > 1 THEN Append(rest, l) ELSE rest
             /\ queuedTotal' = queuedTotal - 1
             /\ activateLocked(l)
             /\ Goto(queues[l][Len(queues[l])], "granted")
             /\ UNCHANGED mu
    /\ UNCHANGED <<limits, closed, lane>>

\* One iteration of pumpLocked's outer loop: the first eligible lane's oldest
\* waiter gets a credit; the lanes passed over, then the lane itself if it has
\* more waiters, go to the back of the list.  With nothing eligible the inner
\* loop turns the list full circle and the mutex is released.  A lane is on the
\* list exactly when it has waiters (QueuesConsistent) and a queued waiter is
\* never settled, so the code's removal of stale entries never applies.
PumpStep ==
    /\ mu = "pump"
    /\ \/ /\ Eligible = {}
          /\ mu' = "free"
          /\ UNCHANGED <<credits, waiters, pc>>
       \/ \E i \in Eligible :
          LET l == ready[i]
              rest == SubSeq(ready, i + 1, Len(ready)) \o SubSeq(ready, 1, i - 1)
          IN /\ \A j \in Eligible : i <= j
             /\ queues[l] # <<>>
             /\ queues' = [queues EXCEPT ![l] = Tail(@)]
             /\ ready' = IF Len(queues[l]) > 1 THEN Append(rest, l) ELSE rest
             /\ queuedTotal' = queuedTotal - 1
             /\ activateLocked(l)
             /\ Goto(Head(queues[l]), "granted")
             /\ UNCHANGED mu
    /\ UNCHANGED <<limits, closed, lane>>

\* Mutant: raised limits are not offered to the waiters.
UpdateLimitsNoPump ==
    /\ mu = "free"
    /\ connectionLimit' \in ConnLimits
    /\ \E w \in LaneLimits : laneLimit' = effectiveLaneLimit(w)
    /\ UNCHANGED <<credits, waiters, closed, mu, calls>>

\* updateLimits, applied to the response of a WINDOW_UPDATE request.
UpdateLimits ==
    /\ mu = "free"
    /\ connectionLimit' \in ConnLimits
    /\ \E w \in LaneLimits : laneLimit' = effectiveLaneLimit(w)
    /\ mu' = IF closed THEN "free" ELSE "pump"
    /\ UNCHANGED <<credits, waiters, closed, calls>>

\* close: every waiter is settled with the error and every queue dropped.
Close ==
    /\ mu = "free"
    /\ ~closed
    /\ closed' = TRUE
    /\ pc' = [r \in Requests |-> IF pc[r] = "queued" THEN "failed" ELSE pc[r]]
    /\ queues' = [l \in Lanes |-> <<>>]
    /\ ready' = <<>>
    /\ queuedTotal' = 0
    /\ UNCHANGED <<limits, credits, mu, lane>>

Next ==
    \/ \E r \in Requests, l \in Lanes : AcquireNow(r, l) \/ AcquireQueue(r, l)
    \/ \E r \in Requests :
          AcquireReturns(r) \/ CancelQueued(r) \/ CancelSettled(r) \/ Release(r)
    \/ PumpStep
    \/ UpdateLimits
    \/ Close

\* The mutex is always given up, an acquire whose waiter is settled returns,
\* and a request that holds a credit ends (its response arrives, its context
\* ends, or its connection fails) and releases it.  f.mu is free again and
\* again but may be taken by others at every such moment: strong fairness says
\* that Go's mutex, which hands over to a waiter starved for 1ms, serves it.
Fairness ==
    /\ WF_vars(PumpStep)
    /\ \A r \in Requests : SF_vars(AcquireReturns(r) \/ CancelSettled(r)) /\ SF_vars(Release(r))

Spec == Init /\ [][Next]_vars /\ Fairness

----------------------------------------------------------------------------
\* No credit leaks and none is handed out twice: the counters are exactly the
\* requests that own a credit, also while a cancelled acquire that lost the race
\* with its grant has yet to give the credit back (native_limits.go:158-171).
CreditsConserved ==
    /\ \A l \in Lanes : activeByLane[l] = Cardinality(Owners(l))
    /\ activeTotal = Cardinality({r \in Requests : pc[r] \in Owning})

\* The wait queues are intact through cancellation in the middle of a queue:
\* every queued request is in its lane's queue exactly once and in no other, the
\* round-robin list holds exactly the lanes with waiters, each once, and the
\* client-side bound on queued requests is kept.
QueuesConsistent ==
    /\ \A l \in Lanes :
          /\ {queues[l][i] : i \in DOMAIN queues[l]}
                = {r \in Requests : pc[r] = "queued" /\ lane[r] = l}
          /\ \A i, j \in DOMAIN queues[l] : queues[l][i] = queues[l][j] => i = j
    /\ {ready[i] : i \in DOMAIN ready} = {l \in Lanes : queues[l] # <<>>}
    /\ \A i, j \in DOMAIN ready : ready[i] = ready[j] => i = j
    /\ queuedTotal = Cardinality({r \in Requests : pc[r] = "queued"})
    /\ queuedTotal <= MaxQueued

\* No request is left waiting for a credit that is free: whenever the mutex is
\* not held, each lane with waiters is out of credit.  A released credit and a
\* raised limit must reach every waiter that can use them, past lanes that are
\* at their own limit.
NoStrandedWaiter ==
    mu = "free" => \A l \in Lanes : queues[l] # <<>> => ~canAcquireLocked(l)

\* Credits of a lane are granted in the order of arrival: no request, queued
\* later or just arriving, gets a credit of a lane while an earlier one of that
\* lane is still queued.
Ahead(r, s) ==
    \E i, j \in DOMAIN queues[lane[r]] :
        i < j /\ queues[lane[r]][i] = r /\ queues[lane[r]][j] = s
NoOvertaking ==
    [][\A r, s \in Requests :
          /\ pc[r] = "queued" /\ pc[s] \notin Owning /\ pc'[s] \in Owning
          /\ (pc[s] = "idle" /\ lane'[s] = lane[r]) \/ Ahead(r, s)
          => FALSE]_vars

\* Every queued request is eventually granted, cancelled or failed, unless the
\* server stops advertising credit again and again: neither newcomers nor the
\* other lanes can hold a lane back for ever.
EveryWaiterServed ==
    \A r \in Requests :
        pc[r] = "queued" ~> pc[r] # "queued" \/ connectionLimit = 0 \/ laneLimit = 0
============================================================================
