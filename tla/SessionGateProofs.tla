------------------------- MODULE SessionGateProofs -------------------------
(* Proofs about the session gate, for every finite set of goroutines, and     *)
(* about publish/subscribe on the session's connection: that a subscription   *)
(* view follows the connections it is replayed on, and that every event is    *)
(* given once and in order, for every set of subscribers, readers and targets *)
(* and every capacity.                                                        *)
EXTENDS SessionGate, PubSub, FiniteSetTheorems, TLAPS

\* The inductive invariant.  Exclusion needs the counters to mean what they
\* say (readers = 0 must imply that nobody reads), NoLostWakeup needs
\* waitingWriters > 0 to mean that somebody will deregister or acquire.
GateInv ==
    /\ TypeOK
    /\ CountersExact
    /\ Exclusion
    /\ NoLostWakeup

\* The goroutines at given program points form a finite set whose cardinality
\* is a natural number, zero exactly when nobody is there.
LEMMA AtFinite ==
    ASSUME NEW S
    PROVE  /\ IsFiniteSet(At(S))
           /\ Cardinality(At(S)) \in Nat
           /\ Cardinality(At(S)) = 0 <=> At(S) = {}
  <1>1. At(S) \subseteq Callers
    BY DEF At
  <1>2. IsFiniteSet(At(S))
    BY <1>1, CallersFinite, FS_Subset
  <1> QED
    BY <1>2, FS_CardinalityType, FS_EmptySet

\* How a move of one goroutine changes the population of a set of points.
LEMMA MoveCount ==
    ASSUME TypeOK, NEW S, NEW c \in Callers, NEW l, Goto(c, l)
    PROVE  /\ pc[c] \notin S /\ l \in S
                 => Cardinality(At(S))' = Cardinality(At(S)) + 1
           /\ pc[c] \in S /\ l \notin S
                 => Cardinality(At(S))' = Cardinality(At(S)) - 1
           /\ (pc[c] \in S <=> l \in S) => Cardinality(At(S))' = Cardinality(At(S))
  <1>1. ASSUME pc[c] \notin S, l \in S
        PROVE  Cardinality(At(S))' = Cardinality(At(S)) + 1
    <2>1. At(S)' = At(S) \cup {c} /\ c \notin At(S)
      BY <1>1 DEF At, Goto, TypeOK
    <2> QED BY <2>1, AtFinite, FS_AddElement
  <1>2. ASSUME pc[c] \in S, l \notin S
        PROVE  Cardinality(At(S))' = Cardinality(At(S)) - 1
    <2>1. At(S)' = At(S) \ {c} /\ c \in At(S)
      BY <1>2 DEF At, Goto, TypeOK
    <2> QED BY <2>1, AtFinite, FS_RemoveElement
  <1>3. (pc[c] \in S <=> l \in S) => At(S)' = At(S)
    BY DEF At, Goto, TypeOK
  <1> QED BY <1>1, <1>2, <1>3

\* What a move of goroutine c to point l does to the two populations that the
\* counters stand for, and what the counters say of c before it.
Moved(c, l) ==
    /\ pc' \in [Callers -> PCs]
    /\ pc' = [pc EXCEPT ![c] = l]
    /\ Cardinality(At({"reading"}))' =
          readers + (IF l = "reading" THEN 1 ELSE 0) - (IF pc[c] = "reading" THEN 1 ELSE 0)
    /\ Cardinality(At(Registered))' =
          waitingWriters + (IF l \in Registered THEN 1 ELSE 0)
                         - (IF pc[c] \in Registered THEN 1 ELSE 0)
    /\ pc[c] = "reading" => readers > 0
    /\ pc[c] \in Registered => waitingWriters > 0

\* Exact counters follow a move.
LEMMA MoveGate ==
    ASSUME TypeOK, CountersExact, NEW c \in Callers, NEW l \in PCs, Goto(c, l)
    PROVE  Moved(c, l)
  <1>1. pc' \in [Callers -> PCs] /\ pc' = [pc EXCEPT ![c] = l]
    BY DEF Goto, TypeOK
  <1>2. Cardinality(At({"reading"}))' =
           readers + (IF l = "reading" THEN 1 ELSE 0) - (IF pc[c] = "reading" THEN 1 ELSE 0)
    BY MoveCount, AtFinite DEF CountersExact
  <1>3. Cardinality(At(Registered))' =
           waitingWriters + (IF l \in Registered THEN 1 ELSE 0)
                          - (IF pc[c] \in Registered THEN 1 ELSE 0)
    BY MoveCount, AtFinite DEF CountersExact
  <1>4. pc[c] = "reading" => readers > 0
    <2>1. pc[c] = "reading" => At({"reading"}) # {}
      BY DEF At
    <2> QED BY <2>1, AtFinite DEF CountersExact
  <1>5. pc[c] \in Registered => waitingWriters > 0
    <2>1. pc[c] \in Registered => At(Registered) # {}
      BY DEF At
    <2> QED BY <2>1, AtFinite DEF CountersExact
  <1> QED BY <1>1, <1>2, <1>3, <1>4, <1>5 DEF Moved

\* Every step of the gate preserves the invariant: one case per action.
LEMMA GateStep ==
    ASSUME GateInv, [Next]_vars
    PROVE  GateInv'
  <1> USE DEF GateInv
  <1>r. (Cardinality(At({"reading"})) = 0 <=> At({"reading"}) = {}) /\ readers \in Nat
    BY AtFinite DEF TypeOK
  <1>u. CASE UNCHANGED vars
    BY <1>u DEF vars, TypeOK, CountersExact, Exclusion, NoLostWakeup, At
  <1>1. ASSUME NEW c \in Callers, BeginRead(c) PROVE GateInv'
    <2>1. PICK l \in PCs : (l = "rTry") /\ Goto(c, l)
      BY <1>1 DEF BeginRead, PCs
    <2>2. Moved(c, l)
      BY <2>1, MoveGate
    <2>3. TypeOK'
      BY <1>1, <2>2 DEF Moved, BeginRead, TypeOK, Registered
    <2>4. CountersExact'
      BY <1>1, <2>1, <2>2 DEF Moved, BeginRead, TypeOK, CountersExact, Registered
    <2>5. Exclusion'
      BY <1>1, <1>r, <2>1, <2>2 DEF Moved, BeginRead, TypeOK, CountersExact, Exclusion, At, Goto
    <2>6. NoLostWakeup'
      BY <1>1, <2>1, <2>2 DEF Moved, BeginRead, TypeOK, NoLostWakeup, Registered, Goto
    <2> QED BY <2>3, <2>4, <2>5, <2>6
  <1>2. ASSUME NEW c \in Callers, BeginWrite(c) PROVE GateInv'
    <2>1. PICK l \in PCs : (l = "wNew") /\ Goto(c, l)
      BY <1>2 DEF BeginWrite, PCs
    <2>2. Moved(c, l)
      BY <2>1, MoveGate
    <2>3. TypeOK'
      BY <1>2, <2>2 DEF Moved, BeginWrite, TypeOK, Registered
    <2>4. CountersExact'
      BY <1>2, <2>1, <2>2 DEF Moved, BeginWrite, TypeOK, CountersExact, Registered
    <2>5. Exclusion'
      BY <1>2, <1>r, <2>1, <2>2 DEF Moved, BeginWrite, TypeOK, CountersExact, Exclusion, At, Goto
    <2>6. NoLostWakeup'
      BY <1>2, <2>1, <2>2 DEF Moved, BeginWrite, TypeOK, NoLostWakeup, Registered, Goto
    <2> QED BY <2>3, <2>4, <2>5, <2>6
  <1>3. ASSUME NEW c \in Callers, TryReadLock(c) PROVE GateInv'
    <2>1. PICK l \in PCs : (l = "reading") /\ Goto(c, l)
      BY <1>3 DEF TryReadLock, PCs
    <2>2. Moved(c, l)
      BY <2>1, MoveGate
    <2>3. TypeOK'
      BY <1>3, <2>2 DEF Moved, TryReadLock, TypeOK, Registered
    <2>4. CountersExact'
      <3>1. l = "reading" /\ pc[c] = "idle" /\ l \notin Registered /\ pc[c] \notin Registered
        BY <1>3, <2>1 DEF TryReadLock, Registered
      <3>2. Cardinality(At({"reading"}))' = readers + 1 /\ Cardinality(At(Registered))' =
              waitingWriters
        BY <2>2, <3>1 DEF Moved, TypeOK
      <3> QED BY <1>3, <3>2 DEF TryReadLock, CountersExact
    <2>5. Exclusion'
      BY <1>3, <1>r, <2>1, <2>2 DEF Moved, TryReadLock, TypeOK, CountersExact, Exclusion, At, Goto
    <2>6. NoLostWakeup'
      BY <1>3, <2>1, <2>2 DEF Moved, TryReadLock, TypeOK, NoLostWakeup, Registered, Goto
    <2> QED BY <2>3, <2>4, <2>5, <2>6
  <1>4. ASSUME NEW c \in Callers, Cancel(c) PROVE GateInv'
    BY <1>4 DEF Cancel, TypeOK, CountersExact, Exclusion, NoLostWakeup, At
  <1>5. ASSUME NEW c \in Callers, ReadTry(c) PROVE GateInv'
    <2>1. PICK l \in PCs : (l = "idle" \/ l = "reading" \/ l = "rWait") /\ Goto(c, l)
      BY <1>5 DEF ReadTry, PCs
    <2>2. Moved(c, l)
      BY <2>1, MoveGate
    <2>3. TypeOK'
      <3>1. readers' \in Nat /\ waitingWriters' \in Nat /\ writer' \in BOOLEAN
        BY <1>5, <2>2 DEF Moved, ReadTry, TypeOK, Registered
      <3>2. woken' \in [Callers -> BOOLEAN] /\ cancelled' \in [Callers -> BOOLEAN]
        BY <1>5 DEF ReadTry, changedLocked, TypeOK
      <3> QED BY <2>2, <3>1, <3>2 DEF Moved, TypeOK
    <2>4. CountersExact'
      BY <1>5, <2>1, <2>2 DEF Moved, ReadTry, TypeOK, CountersExact, Registered, Goto
    <2>5. Exclusion'
      BY <1>5, <1>r, <2>1, <2>2 DEF Moved, ReadTry, changedLocked, TypeOK, CountersExact,
           Exclusion, At, Goto
    <2>6. NoLostWakeup'
      BY <1>5, <2>1, <2>2 DEF Moved, ReadTry, changedLocked, TypeOK, NoLostWakeup, Registered, Goto
    <2> QED BY <2>3, <2>4, <2>5, <2>6
  <1>6. ASSUME NEW c \in Callers, ReadWake(c) PROVE GateInv'
    <2>1. PICK l \in PCs : (l = "rTry" \/ l = "idle") /\ Goto(c, l)
      BY <1>6 DEF ReadWake, PCs
    <2>2. Moved(c, l)
      BY <2>1, MoveGate
    <2>3. TypeOK'
      BY <1>6, <2>2 DEF Moved, ReadWake, TypeOK, Registered
    <2>4. CountersExact'
      BY <1>6, <2>1, <2>2 DEF Moved, ReadWake, TypeOK, CountersExact, Registered, Goto
    <2>5. Exclusion'
      BY <1>6, <1>r, <2>1, <2>2 DEF Moved, ReadWake, TypeOK, CountersExact, Exclusion, At, Goto
    <2>6. NoLostWakeup'
      BY <1>6, <2>1, <2>2 DEF Moved, ReadWake, TypeOK, NoLostWakeup, Registered, Goto
    <2> QED BY <2>3, <2>4, <2>5, <2>6
  <1>7. ASSUME NEW c \in Callers, ReadUnlock(c) PROVE GateInv'
    <2>1. PICK l \in PCs : (l = "idle") /\ Goto(c, l)
      BY <1>7 DEF ReadUnlock, PCs
    <2>2. Moved(c, l)
      BY <2>1, MoveGate
    <2>3. TypeOK'
      <3>1. readers' \in Nat /\ waitingWriters' \in Nat /\ writer' \in BOOLEAN
        BY <1>7, <2>2 DEF Moved, ReadUnlock, TypeOK, Registered
      <3>2. woken' \in [Callers -> BOOLEAN] /\ cancelled' \in [Callers -> BOOLEAN]
        BY <1>7 DEF ReadUnlock, signalLocked, TypeOK
      <3> QED BY <2>2, <3>1, <3>2 DEF Moved, TypeOK
    <2>4. CountersExact'
      BY <1>7, <2>1, <2>2 DEF Moved, ReadUnlock, TypeOK, CountersExact, Registered
    <2>5. Exclusion'
      BY <1>7, <1>r, <2>1, <2>2 DEF Moved, ReadUnlock, signalLocked, TypeOK, CountersExact,
           Exclusion, At, Goto
    <2>6. NoLostWakeup'
      <3>1. \A k \in Callers : pc'[k] = IF k = c THEN "idle" ELSE pc[k]
        BY <2>1, <2>2 DEF Moved, TypeOK
      <3>2. CASE readers' = 0
        BY <1>7, <3>1, <3>2 DEF ReadUnlock, signalLocked, NoLostWakeup, TypeOK
      <3>3. CASE readers' # 0
        BY <1>7, <3>1, <3>3 DEF ReadUnlock, NoLostWakeup, TypeOK
      <3> QED BY <3>2, <3>3
    <2> QED BY <2>3, <2>4, <2>5, <2>6
  <1>8. ASSUME NEW c \in Callers, WriteRegister(c) PROVE GateInv'
    <2>1. PICK l \in PCs : (l = "wTry") /\ Goto(c, l)
      BY <1>8 DEF WriteRegister, PCs
    <2>2. Moved(c, l)
      BY <2>1, MoveGate
    <2>3. TypeOK'
      BY <1>8, <2>2 DEF Moved, WriteRegister, TypeOK, Registered
    <2>4. CountersExact'
      BY <1>8, <2>1, <2>2 DEF Moved, WriteRegister, TypeOK, CountersExact, Registered
    <2>5. Exclusion'
      BY <1>8, <1>r, <2>1, <2>2 DEF Moved, WriteRegister, TypeOK, CountersExact, Exclusion, At, Goto
    <2>6. NoLostWakeup'
      BY <1>8, <2>1, <2>2 DEF Moved, WriteRegister, TypeOK, NoLostWakeup, Registered, Goto
    <2> QED BY <2>3, <2>4, <2>5, <2>6
  <1>9. ASSUME NEW c \in Callers, WriteTry(c) PROVE GateInv'
    <2>1. PICK l \in PCs : (l = "wDereg" \/ l = "writing" \/ l = "wWait") /\ Goto(c, l)
      BY <1>9 DEF WriteTry, PCs
    <2>2. Moved(c, l)
      BY <2>1, MoveGate
    <2>3. TypeOK'
      <3>a. waitingWriters - 1 \in Nat
        BY <1>9, <2>2 DEF Moved, WriteTry, TypeOK, Registered
      <3>1. readers' \in Nat /\ waitingWriters' \in Nat /\ writer' \in BOOLEAN
        BY <1>9, <3>a DEF WriteTry, TypeOK
      <3>2. woken' \in [Callers -> BOOLEAN] /\ cancelled' \in [Callers -> BOOLEAN]
        BY <1>9 DEF WriteTry, changedLocked, TypeOK
      <3> QED BY <2>2, <3>1, <3>2 DEF Moved, TypeOK
    <2>4. CountersExact'
      BY <1>9, <2>1, <2>2 DEF Moved, WriteTry, TypeOK, CountersExact, Registered, Goto
    <2>5. Exclusion'
      BY <1>9, <1>r, <2>1, <2>2 DEF Moved, WriteTry, changedLocked, TypeOK, CountersExact,
           Exclusion, At, Goto
    <2>6. NoLostWakeup'
      BY <1>9, <2>1, <2>2 DEF Moved, WriteTry, changedLocked, TypeOK, NoLostWakeup, Registered, Goto
    <2> QED BY <2>3, <2>4, <2>5, <2>6
  <1>10. ASSUME NEW c \in Callers, WriteWake(c) PROVE GateInv'
    <2>1. PICK l \in PCs : (l = "wTry" \/ l = "wDereg") /\ Goto(c, l)
      BY <1>10 DEF WriteWake, PCs
    <2>2. Moved(c, l)
      BY <2>1, MoveGate
    <2>3. TypeOK'
      BY <1>10, <2>2 DEF Moved, WriteWake, TypeOK, Registered
    <2>4. CountersExact'
      BY <1>10, <2>1, <2>2 DEF Moved, WriteWake, TypeOK, CountersExact, Registered, Goto
    <2>5. Exclusion'
      BY <1>10, <1>r, <2>1, <2>2 DEF Moved, WriteWake, TypeOK, CountersExact, Exclusion, At, Goto
    <2>6. NoLostWakeup'
      BY <1>10, <2>1, <2>2 DEF Moved, WriteWake, TypeOK, NoLostWakeup, Registered, Goto
    <2> QED BY <2>3, <2>4, <2>5, <2>6
  <1>11. ASSUME NEW c \in Callers, WriteDeregister(c) PROVE GateInv'
    <2>1. PICK l \in PCs : (l = "idle") /\ Goto(c, l)
      BY <1>11 DEF WriteDeregister, PCs
    <2>2. Moved(c, l)
      BY <2>1, MoveGate
    <2>3. TypeOK'
      <3>1. readers' \in Nat /\ waitingWriters' \in Nat /\ writer' \in BOOLEAN
        BY <1>11, <2>2 DEF Moved, WriteDeregister, TypeOK, Registered
      <3>2. woken' \in [Callers -> BOOLEAN] /\ cancelled' \in [Callers -> BOOLEAN]
        BY <1>11 DEF WriteDeregister, signalLocked, TypeOK
      <3> QED BY <2>2, <3>1, <3>2 DEF Moved, TypeOK
    <2>4. CountersExact'
      BY <1>11, <2>1, <2>2 DEF Moved, WriteDeregister, TypeOK, CountersExact, Registered
    <2>5. Exclusion'
      BY <1>11, <1>r, <2>1, <2>2 DEF Moved, WriteDeregister, signalLocked, TypeOK, CountersExact,
           Exclusion, At, Goto
    <2>6. NoLostWakeup'
      BY <1>11, <2>1, <2>2 DEF Moved, WriteDeregister, signalLocked, TypeOK, NoLostWakeup,
           Registered, Goto
    <2> QED BY <2>3, <2>4, <2>5, <2>6
  <1>12. ASSUME NEW c \in Callers, Unlock(c) PROVE GateInv'
    <2>1. PICK l \in PCs : (l = "idle") /\ Goto(c, l)
      BY <1>12 DEF Unlock, PCs
    <2>2. Moved(c, l)
      BY <2>1, MoveGate
    <2>3. TypeOK'
      <3>1. readers' \in Nat /\ waitingWriters' \in Nat /\ writer' \in BOOLEAN
        BY <1>12, <2>2 DEF Moved, Unlock, TypeOK, Registered
      <3>2. woken' \in [Callers -> BOOLEAN] /\ cancelled' \in [Callers -> BOOLEAN]
        BY <1>12 DEF Unlock, signalLocked, TypeOK
      <3> QED BY <2>2, <3>1, <3>2 DEF Moved, TypeOK
    <2>4. CountersExact'
      BY <1>12, <2>1, <2>2 DEF Moved, Unlock, TypeOK, CountersExact, Registered
    <2>5. Exclusion'
      BY <1>12, <1>r, <2>1, <2>2 DEF Moved, Unlock, signalLocked, TypeOK, CountersExact,
           Exclusion, At, Goto
    <2>6. NoLostWakeup'
      BY <1>12, <2>1, <2>2 DEF Moved, Unlock, signalLocked, TypeOK, NoLostWakeup, Registered, Goto
    <2> QED BY <2>3, <2>4, <2>5, <2>6
  <1> QED
    BY <1>u, <1>1, <1>2, <1>3, <1>4, <1>5, <1>6, <1>7, <1>8, <1>9, <1>10, <1>11, <1>12 DEF Next,
         Progress

\* The gate is empty at the start: nobody is inside, nobody sleeps.
LEMMA GateInit == Init => GateInv
  <1> SUFFICES ASSUME Init PROVE GateInv
    OBVIOUS
  <1>1. At({"reading"}) = {} /\ At(Registered) = {} /\ At({"writing"}) = {}
    BY DEF Init, At, Registered
  <1>2. TypeOK
    BY DEF Init, TypeOK, PCs
  <1>3. CountersExact
    BY <1>1, FS_EmptySet DEF Init, CountersExact
  <1>4. Exclusion /\ NoLostWakeup
    BY <1>1 DEF Init, Exclusion, NoLostWakeup
  <1> QED BY <1>2, <1>3, <1>4 DEF GateInv

\* The invariant holds in every reachable state of the gate.
THEOREM GateInvariant == Spec => []GateInv
  <1>1. Init => GateInv
    BY GateInit
  <1>2. GateInv /\ [Next]_vars => GateInv'
    BY GateStep
  <1> QED BY <1>1, <1>2, PTL DEF Spec

\* The gate's fields and the goroutines' program points keep their types; in
\* particular no counter of the gate goes below zero.
THEOREM GateTypes == Spec => []TypeOK
  <1>1. GateInv => TypeOK
    BY DEF GateInv
  <1> QED BY <1>1, GateInvariant, PTL

\* Whatever number of goroutines use the gate and whichever are cancelled, its
\* counters are exactly the goroutines inside readLock's and lock's sections.
THEOREM GateCounters == Spec => []CountersExact
  <1>1. GateInv => CountersExact
    BY DEF GateInv
  <1> QED BY <1>1, GateInvariant, PTL

\* A transaction excludes every request and every other transaction.
THEOREM GateExclusion == Spec => []Exclusion
  <1>1. GateInv => Exclusion
    BY DEF GateInv
  <1> QED BY <1>1, GateInvariant, PTL

\* No goroutine sleeps on an open channel without a reason that some holder or
\* waiter of the gate will remove.
THEOREM GateNoLostWakeup == Spec => []NoLostWakeup
  <1>1. GateInv => NoLostWakeup
    BY DEF GateInv
  <1> QED BY <1>1, GateInvariant, PTL

-----------------------------------------------------------------------------
(* The publish/subscribe view: who holds replayMu and what for.               *)

UnderReplayMu == {"ensure", "replay", "settle", "stamp", "request", "track", "verify"}

\* The call at one of these places holds replayMu, knows what it asks for and where
\* it goes on once the view is up to date.
HolderOK ==
    /\ \A c \in Users : at[c] \in UnderReplayMu <=> replayMu = c
    /\ \A c \in Subscribers :
         /\ at[c] \in UnderReplayMu \cup {"idle"}
         /\ at[c] # "idle" => call[c] \in Calls /\ replay.next \in {"request", "idle"}
    /\ \A r \in Readers :
         /\ at[r] \notin {"stamp", "request", "track", "verify"}
         /\ at[r] \in UnderReplayMu => replay.next \in {"load", "check"}

\* Stamps are of connections that have been made.
StampsOK == last <= generation /\ replay.stamp <= generation

\* The view is subscribed to what it tracks, if g is the connection it has.
Covered(g) == up /\ g = generation => tracked \subseteq subscribed \cup unknown \cup slipped

\* What the steps of a replay and of a request establish for the next.
SubscribedOK ==
    /\ (\A c \in Users : at[c] \notin {"track", "verify"}) => Covered(last)
    /\ \A c \in Users :
         /\ at[c] = "replay" =>
              (up /\ replay.stamp = generation => tracked \subseteq replay.todo \cup subscribed)
         /\ at[c] \in {"request", "verify"} => Covered(replay.stamp)
    /\ \A c \in Subscribers : at[c] = "track" =>
         (up /\ replay.stamp = generation =>
            Served(call[c], tracked)
              \subseteq subscribed \cup unknown \cup (slipped \ call[c].targets))

-----------------------------------------------------------------------------
(* Its readers: who reads the queue, and where each event is.                 *)

\* There is one reader; nothing it wants is in the buffers.
ReadingOK ==
    /\ \A r \in Readers :
         /\ eventReading = r <=> at[r] \notin {"idle", "top", "parked"}
         /\ at[r] # "idle" => want[r] \in Kinds
         /\ eventReading = r => buffer[want[r]] = <<>>
         /\ held[r] # NoEvent <=> at[r] = "got"

\* Events in the order of their numbers.
Rising(s, origin) == \A i, j \in DOMAIN s : i < j => Before(s[i].n, s[j].n, origin)

\* Of the events of one executor, what has left its queue came before what is in it,
\* what the reader has in its hands is later than all that was kept, and what was kept
\* is in order.
OrderOK ==
    /\ \A e \in Executors : /\ Rising(events[e], sent)
                            /\ \A y \in Numbers(events[e]) : sent[y] = e
    /\ \A x \in Given \cup InBuffers \cup InHands, y \in InQueues : Before(x, y, sent)
    /\ \A x \in Given \cup InBuffers, y \in InHands : Before(x, y, sent)
    /\ \A k \in Kinds : /\ Rising(buffer[k], sent)
                        /\ \A x \in GivenOf(k), y \in Numbers(buffer[k]) : Before(x, y, sent)
    /\ \A k, l \in Kinds : k # l => Numbers(buffer[k]) \cap Numbers(buffer[l]) = {}

PubSubInv ==
    /\ PubSubTypeOK /\ IsFiniteSet(Slots) /\ HolderOK /\ StampsOK /\ SubscribedOK
    /\ ReadingOK /\ OrderOK /\ EventsOnceInOrder /\ ParkedAreRemembered

-----------------------------------------------------------------------------
(* What the steps of the view have in common.                                 *)

\* A connection that is needed is there afterwards, the same one or the next.
LEMMA Connecting ==
    ASSUME ViewTypes, Connected
    PROVE  /\ up' = TRUE /\ generation' \in 0..MaxGen /\ generation <= generation'
           /\ up <=> generation' = generation
           /\ Carried \subseteq Targets /\ Carried \subseteq subscribed
           /\ ~up => Carried = {}
  BY PubSubConstants DEF ViewTypes, Connected, Carried

\* What the server makes of a call is about the targets of the view.
LEMMA Serving ==
    ASSUME ViewTypes, NEW c \in Subscribers, NEW S \in SUBSET Targets
    PROVE  /\ Served(call[c], S) \subseteq Targets
           /\ call[c].targets \subseteq Targets
  BY DEF ViewTypes, Served, Calls, NoCall

\* The locals of a replay have their types.
ReplayTypes ==
    [stamp : 0..MaxGen, todo : SUBSET Targets, attempt : 0..ReconnectMaxRetries,
     retries : 0..ReconnectMaxRetries, next : {"none", "request", "idle", "load", "check"}]

\* The fields of the replay that a call records.
LEMMA ReplayFields ==
    ASSUME NEW s \in 0..MaxGen, NEW t \in SUBSET Targets, NEW a \in 0..ReconnectMaxRetries,
           NEW r \in 0..ReconnectMaxRetries, NEW n \in {"none", "request", "idle", "load", "check"}
    PROVE  /\ Replay(s, t, a, r, n) \in ReplayTypes
           /\ Replay(s, t, a, r, n).stamp = s /\ Replay(s, t, a, r, n).todo = t
           /\ Replay(s, t, a, r, n).attempt = a /\ Replay(s, t, a, r, n).retries = r
           /\ Replay(s, t, a, r, n).next = n
  BY DEF Replay, ReplayTypes

\* The record of a call that replays nothing.
LEMMA NoReplayFields ==
    /\ NoReplay \in ReplayTypes
    /\ NoReplay.stamp = 0 /\ NoReplay.next = "none"
  BY PubSubConstants DEF Replay, NoReplay, ReplayTypes

\* A replay built from typed fields is typed.
LEMMA ReplayTyped ==
    ASSUME ViewTypes
    PROVE  /\ replay \in ReplayTypes
           /\ replay.stamp \in 0..MaxGen /\ replay.todo \in SUBSET Targets
           /\ replay.attempt \in 0..ReconnectMaxRetries /\ replay.retries \in 0..ReconnectMaxRetries
           /\ replay.next \in {"none", "request", "idle", "load", "check"}
  BY DEF ViewTypes, ReplayTypes

-----------------------------------------------------------------------------
(* The steps, flat.  replayMu is kept or released, and the locals of the      *)
(* replay are given by their fields.                                          *)

StaysAt(c, x) == at' = [at EXCEPT ![c] = x] /\ replayMu' = replayMu /\ call' = call
LeavesTo(c, x) ==
    /\ at' = [at EXCEPT ![c] = x] /\ replayMu' = "none"
    /\ replay' \in ReplayTypes /\ replay'.stamp = 0
    /\ c \in Subscribers => call' = [call EXCEPT ![c] = NoCall]
    /\ c \notin Subscribers => call' = call
FailsOf(c) == LeavesTo(c, IF c \in Readers THEN "failed" ELSE "idle")
ReplayIs(s, t, n) ==
    replay' \in ReplayTypes /\ replay'.stamp = s /\ replay'.todo = t /\ replay'.next = n
AgainOf(c) ==
    (StaysAt(c, "ensure") /\ ReplayIs(replay.stamp, replay.todo, replay.next)) \/ FailsOf(c)
Connects ==
    /\ up' = TRUE /\ generation' \in 0..MaxGen /\ generation <= generation'
    /\ up <=> generation' = generation
SameView == UNCHANGED <<tracked, last, unknown, slipped>>
SameConnection == UNCHANGED <<up, generation, subscribed>>
SameEvents == UNCHANGED <<events, sent, eventReading, buffer, want, held, seen, signalled, given,
                          dropped>>

\* A subscription call takes replayMu.
SubscribeDoes(c, o) ==
    /\ at[c] = "idle" /\ replayMu = "none" /\ replayMu' = c
    /\ call' = [call EXCEPT ![c] = o] /\ at' = [at EXCEPT ![c] = "ensure"]
    /\ ReplayIs(0, {}, "request") /\ SameConnection /\ SameView /\ SameEvents

\* The action does just that: calling Subscribe or Unsubscribe.
LEMMA SubscribeEffect ==
    ASSUME NEW c \in Subscribers, NEW o \in Calls, Subscribe(c, o) PROVE SubscribeDoes(c, o)
  <1>1. ReplayIs(0, {}, "request")
    BY ReplayFields, PubSubConstants DEF Subscribe, ReplayIs
  <1> QED
    BY <1>1 DEF Subscribe, SubscribeDoes, Go, SameConnection, SameView, SameEvents, net, demux

\* A reader does.
LockReplayDoes(c) ==
    /\ at[c] \in {"lockThenLoad", "lock"} /\ replayMu = "none" /\ replayMu' = c
    /\ at' = [at EXCEPT ![c] = "ensure"] /\ call' = call
    /\ (ReplayIs(0, {}, "check") \/ ReplayIs(0, {}, "load"))
    /\ SameConnection /\ SameView /\ SameEvents

\* The action does just that: taking replayMu.
LEMMA LockReplayEffect ==
    ASSUME NEW c \in Readers, LockReplay(c) PROVE LockReplayDoes(c)
  <1>1. ReplayIs(0, {}, "check") \/ ReplayIs(0, {}, "load")
    BY ReplayFields, PubSubConstants DEF LockReplay, ReplayIs
  <1> QED
    BY <1>1 DEF LockReplay, LockReplayDoes, Go, SameConnection, SameView, SameEvents, net, demux

\* A call leaves, or tries again.
LEMMA LeaveEffect ==
    ASSUME NEW c, NEW x, Leave(c, x) PROVE LeavesTo(c, x)
  BY NoReplayFields DEF Leave, Go, LeavesTo

\* A call that fails leaves with the lock.
LEMMA FailEffect ==
    ASSUME NEW c, Fail(c) PROVE FailsOf(c)
  BY LeaveEffect DEF Fail, FailsOf

\* A call that was overtaken tries again from the start, or gives up.
LEMMA AgainEffect ==
    ASSUME ViewTypes, NEW c, TryAgain(c) PROVE AgainOf(c)
  <1>1. CASE Fail(c)
    BY <1>1, FailEffect DEF AgainOf
  <1>2. CASE ~ Fail(c)
    <2>1. /\ replay' = Replay(replay.stamp, replay.todo, replay.attempt + 1, replay.retries,
                              replay.next)
          /\ replay.attempt + 1 \in 0..ReconnectMaxRetries /\ StaysAt(c, "ensure")
      BY <1>2, ReplayTyped, PubSubConstants DEF TryAgain, Go, StaysAt
    <2> QED
      BY <2>1, ReplayTyped, ReplayFields DEF AgainOf, ReplayIs
  <1> QED
    BY <1>1, <1>2

\* The steps of a replay.
EnsureDoes(c) ==
    /\ at[c] = "ensure" /\ Connects /\ subscribed' = Carried
    /\ \/ /\ generation' # last /\ StaysAt(c, "replay")
          /\ ReplayIs(generation', tracked, replay.next)
       \/ /\ generation' = last /\ replay.next = "request" /\ StaysAt(c, "stamp")
          /\ ReplayIs(generation', tracked, replay.next)
       \/ generation' = last /\ replay.next # "request" /\ LeavesTo(c, replay.next)
    /\ SameView /\ SameEvents

\* The action does just that: checking the connection before a replay.
LEMMA EnsureEffect ==
    ASSUME ViewTypes, NEW c \in Users, Ensure(c) PROVE EnsureDoes(c)
  <1> DEFINE r == Replay(generation', tracked, replay.attempt, replay.retries, replay.next)
  <1>1. Connects
    BY Connecting DEF Ensure, Connects
  <1>2. r \in ReplayTypes /\ r.stamp = generation' /\ r.todo = tracked /\ r.next = replay.next
    BY <1>1, ReplayTyped, ReplayFields DEF Connects, ViewTypes
  <1> HIDE DEF r
  <1>3. IF generation' = last THEN UpToDate(c, r)
        ELSE replay' = r /\ Go(c, "replay") /\ UNCHANGED <<replayMu, call>>
    BY DEF Ensure, r
  <1>4. /\ at[c] = "ensure" /\ subscribed' = Carried /\ SameView /\ SameEvents
    BY DEF Ensure, SameView, SameEvents, demux
  <1>5. CASE generation' # last
    BY <1>1, <1>2, <1>3, <1>4, <1>5 DEF EnsureDoes, StaysAt, ReplayIs, Go
  <1>6. CASE generation' = last
    <2>1. CASE Leave(c, r.next) /\ r.next # "request"
      BY <1>1, <1>2, <1>4, <1>6, <2>1, LeaveEffect DEF EnsureDoes
    <2>2. CASE r.next = "request" /\ Go(c, "stamp") /\ replay' = r /\ UNCHANGED <<replayMu, call>>
      BY <1>1, <1>2, <1>4, <1>6, <2>2 DEF EnsureDoes, StaysAt, ReplayIs, Go
    <2> QED
      BY <1>3, <1>6, <2>1, <2>2 DEF UpToDate
  <1> QED
    BY <1>5, <1>6

ReplayOneDoes(c) ==
    /\ at[c] = "replay" /\ Connects
    /\ \E x \in replay.todo : /\ subscribed' = Carried \cup {x}
                              /\ ReplayIs(replay.stamp, replay.todo \ {x}, replay.next)
    /\ UNCHANGED <<at, replayMu, call>> /\ SameView /\ SameEvents

\* The action does just that: sending one subscription again.
LEMMA ReplayOneEffect ==
    ASSUME ViewTypes, NEW c \in Users, ReplayOne(c) PROVE ReplayOneDoes(c)
  <1>1. Connects
    BY Connecting DEF ReplayOne, Connects
  <1>2. PICK x \in replay.todo :
          /\ subscribed' = Carried \cup {x}
          /\ replay' = Replay(replay.stamp, replay.todo \ {x}, replay.attempt, replay.retries,
                              replay.next)
    BY DEF ReplayOne
  <1>3. ReplayIs(replay.stamp, replay.todo \ {x}, replay.next)
    BY <1>2, ReplayTyped, ReplayFields DEF ReplayIs
  <1> QED
    BY <1>1, <1>2, <1>3 DEF ReplayOne, ReplayOneDoes, SameView, SameEvents, demux

ReplayedDoes(c) ==
    /\ at[c] = "replay" /\ replay.todo = {}
    /\ \/ /\ replay.stamp = generation /\ last' = replay.stamp /\ StaysAt(c, "settle")
          /\ replay' = replay /\ slipped' = {}
       \/ /\ replay.stamp # generation /\ last' = last /\ AgainOf(c)
          /\ slipped' = IF last = replay.stamp THEN {} ELSE slipped
    /\ UNCHANGED <<tracked, unknown>> /\ SameConnection /\ SameEvents

\* The action does just that: the end of a replay.
LEMMA ReplayedEffect ==
    ASSUME ViewTypes, NEW c \in Users, Replayed(c) PROVE ReplayedDoes(c)
  BY AgainEffect DEF Replayed, ReplayedDoes, StaysAt, Go, SameConnection, SameEvents, net, demux

SettleDoes(c) ==
    /\ at[c] = "settle"
    /\ \/ /\ replay.stamp = generation /\ replay.next = "request" /\ StaysAt(c, "stamp")
          /\ replay' = replay
       \/ replay.stamp = generation /\ replay.next # "request" /\ LeavesTo(c, replay.next)
       \/ replay.stamp # generation /\ AgainOf(c)
    /\ SameConnection /\ SameView /\ SameEvents

\* The action does just that: settling the stamp after a replay.
LEMMA SettleEffect ==
    ASSUME ViewTypes, NEW c \in Users, SettleStamp(c) PROVE SettleDoes(c)
  <1>1. SameConnection /\ SameView /\ SameEvents
    BY DEF SettleStamp, SameConnection, SameView, SameEvents, net, demux
  <1> QED
    BY <1>1, AgainEffect, LeaveEffect DEF SettleStamp, SettleDoes, UpToDate, StaysAt, Go

ReplayFailsDoes(c) ==
    at[c] \in {"ensure", "replay"} /\ FailsOf(c) /\ SameConnection /\ SameView /\ SameEvents

\* The action does just that: a replay that fails.
LEMMA ReplayFailsEffect ==
    ASSUME NEW c \in Users, ReplayFails(c) PROVE ReplayFailsDoes(c)
  BY FailEffect DEF ReplayFails, ReplayFailsDoes, SameConnection, SameView, SameEvents, net, demux

\* The steps of a request.
StampDoes(c) ==
    /\ at[c] = "stamp" /\ StaysAt(c, "request")
    /\ ReplayIs(generation, replay.todo, replay.next)
    /\ slipped' = IF generation = last THEN slipped ELSE tracked
    /\ UNCHANGED <<tracked, last, unknown>> /\ SameConnection /\ SameEvents

\* The action does just that: stamping the view.
LEMMA StampEffect ==
    ASSUME ViewTypes, NEW c \in Subscribers, Stamp(c) PROVE StampDoes(c)
  <1>1. ReplayIs(generation, replay.todo, replay.next)
    BY ReplayTyped, ReplayFields DEF Stamp, ReplayIs, ViewTypes
  <1> QED
    BY <1>1 DEF Stamp, StampDoes, StaysAt, Go, SameConnection, SameEvents, net, demux

RequestDoes(c) ==
    /\ at[c] = "request" /\ Connects /\ subscribed' = Served(call[c], Carried)
    /\ unknown' = IF call[c].name = "subscribe" THEN unknown \ call[c].targets ELSE unknown
    /\ StaysAt(c, "track")
    /\ UNCHANGED <<tracked, last, replay, slipped>> /\ SameEvents

\* The action does just that: an acknowledged request.
LEMMA RequestEffect ==
    ASSUME ViewTypes, NEW c \in Subscribers, Request(c) PROVE RequestDoes(c)
  <1>1. Connects
    BY Connecting DEF Request, Connects
  <1> QED
    BY <1>1 DEF Request, RequestDoes, StaysAt, Go, SameEvents, demux

RequestBreaksDoes(c) ==
    /\ at[c] = "request" /\ up /\ up' = FALSE /\ subscribed' = {} /\ generation' = generation
    /\ \/ LeavesTo(c, "idle")
       \/ StaysAt(c, "ensure") /\ ReplayIs(replay.stamp, replay.todo, replay.next)
    /\ SameView /\ SameEvents

\* The action does just that: a request that breaks the connection.
LEMMA RequestBreaksEffect ==
    ASSUME ViewTypes, NEW c \in Subscribers, RequestBreaks(c) PROVE RequestBreaksDoes(c)
  <1>1. /\ at[c] = "request" /\ up /\ up' = FALSE /\ subscribed' = {} /\ generation' = generation
        /\ SameView /\ SameEvents
    BY DEF RequestBreaks, SameView, SameEvents, demux
  <1>2. CASE Leave(c, "idle")
    BY <1>1, <1>2, LeaveEffect DEF RequestBreaksDoes
  <1>3. CASE ~ Leave(c, "idle")
    <2>1. /\ replay' = Replay(replay.stamp, replay.todo, 0, replay.retries - 1, replay.next)
          /\ replay.retries - 1 \in 0..ReconnectMaxRetries /\ StaysAt(c, "ensure")
      BY <1>3, ReplayTyped, PubSubConstants DEF RequestBreaks, StaysAt, Go
    <2>2. ReplayIs(replay.stamp, replay.todo, replay.next)
      BY <2>1, ReplayTyped, ReplayFields, PubSubConstants DEF ReplayIs
    <2> QED
      BY <1>1, <2>1, <2>2 DEF RequestBreaksDoes
  <1> QED
    BY <1>2, <1>3

RequestFailsDoes(c) ==
    /\ at[c] = "request" /\ up
    /\ \/ UNCHANGED <<subscribed, unknown>>
       \/ /\ subscribed' = Served(call[c], subscribed)
          /\ unknown' = IF call[c].name = "subscribe" THEN unknown
                        ELSE unknown \cup (tracked \ Served(call[c], tracked))
    /\ LeavesTo(c, "idle")
    /\ UNCHANGED <<up, generation, tracked, last, slipped>> /\ SameEvents

\* The action does just that: a request that fails.
LEMMA RequestFailsEffect ==
    ASSUME NEW c \in Subscribers, RequestFails(c) PROVE RequestFailsDoes(c)
  BY LeaveEffect DEF RequestFails, RequestFailsDoes, SameEvents, demux

TrackDoes(c) ==
    /\ at[c] = "track" /\ tracked' = Served(call[c], tracked) /\ last' = generation
    /\ slipped' = slipped \ call[c].targets /\ StaysAt(c, "verify")
    /\ UNCHANGED <<replay, unknown>> /\ SameConnection /\ SameEvents

\* The action does just that: recording the target of a request.
LEMMA TrackEffect ==
    ASSUME NEW c \in Subscribers, Track(c) PROVE TrackDoes(c)
  BY DEF Track, TrackDoes, StaysAt, Go, SameConnection, SameEvents, net, demux

VerifyDoes(c) ==
    /\ at[c] = "verify"
    /\ \/ replay.stamp = generation /\ last' = last /\ LeavesTo(c, "idle")
       \/ /\ replay.stamp # generation /\ last' = replay.stamp /\ StaysAt(c, "ensure")
          /\ ReplayIs(replay.stamp, replay.todo, "idle")
    /\ UNCHANGED <<tracked, unknown, slipped>> /\ SameConnection /\ SameEvents

\* The action does just that: checking the generation after a request.
LEMMA VerifyEffect ==
    ASSUME ViewTypes, NEW c \in Subscribers, Verify(c) PROVE VerifyDoes(c)
  <1>1. /\ at[c] = "verify" /\ UNCHANGED <<tracked, unknown, slipped>>
        /\ SameConnection /\ SameEvents
    BY DEF Verify, SameConnection, SameEvents, net, demux
  <1>2. CASE replay.stamp = generation
    BY <1>1, <1>2, LeaveEffect DEF Verify, VerifyDoes
  <1>3. CASE replay.stamp # generation
    <2>1. ReplayIs(replay.stamp, replay.todo, "idle")
      BY <1>3, ReplayTyped, ReplayFields, PubSubConstants DEF Verify, ReplayIs
    <2> QED
      BY <1>1, <1>3, <2>1 DEF Verify, VerifyDoes, StaysAt, Go
  <1> QED
    BY <1>2, <1>3

\* The steps as the view sees them: a connection that is lost or made, a step of a
\* call under replayMu, or a step of a reader outside of it.
Untouched == UNCHANGED <<at, replayMu, replay, call>> /\ SameView
LosesIt == up' = FALSE /\ subscribed' = {} /\ generation' = generation /\ Untouched
MadeByOther == Connects /\ ~up /\ subscribed' = {} /\ Untouched
NothingForView == SameConnection /\ Untouched
ReaderPlaces == {"idle", "top", "parked", "check", "lockThenLoad", "lock", "load", "read",
  "select", "got",
                 "failed"}
Aside(c) ==
    /\ at[c] \in ReaderPlaces /\ \E x \in ReaderPlaces : at' = [at EXCEPT ![c] = x]
    /\ SameConnection \/ (Connects /\ ~up /\ subscribed' = {})
    /\ UNCHANGED <<replayMu, replay, call>> /\ SameView
ViewStep ==
    \/ LosesIt \/ MadeByOther \/ NothingForView
    \/ \E c \in Subscribers, o \in Calls : SubscribeDoes(c, o)
    \/ \E c \in Subscribers : \/ StampDoes(c) \/ RequestDoes(c) \/ RequestBreaksDoes(c)
                              \/ RequestFailsDoes(c) \/ TrackDoes(c) \/ VerifyDoes(c)
    \/ \E c \in Users : \/ EnsureDoes(c) \/ ReplayOneDoes(c) \/ ReplayedDoes(c) \/ SettleDoes(c)
                        \/ ReplayFailsDoes(c)
    \/ \E c \in Readers : LockReplayDoes(c) \/ Aside(c)

\* Every step is one of these.
LEMMA ViewSteps == ASSUME ViewTypes, [PubSubNext]_pubSubVars PROVE ViewStep
  <1>1. ASSUME LoseConnection PROVE ViewStep
    BY <1>1 DEF ViewStep, LosesIt, Untouched, SameView, LoseConnection, track
  <1>2. ASSUME ReconnectedByOther PROVE ViewStep
    BY <1>2, Connecting DEF ViewStep, MadeByOther, Connects, Untouched, SameView,
         ReconnectedByOther, track
  <1>3. ASSUME NEW k \in Kinds, DeliverEvent(k) PROVE ViewStep
    BY <1>3 DEF ViewStep, NothingForView, Untouched, SameConnection, SameView, DeliverEvent, track
  <1>4. ASSUME NEW c \in Subscribers, NEW o \in Calls, Subscribe(c, o) PROVE ViewStep
    BY <1>4, SubscribeEffect DEF ViewStep
  <1>5. ASSUME NEW c \in Subscribers, Stamp(c) PROVE ViewStep
    BY <1>5, StampEffect DEF ViewStep
  <1>6. ASSUME NEW c \in Subscribers, Request(c) PROVE ViewStep
    BY <1>6, RequestEffect DEF ViewStep
  <1>7. ASSUME NEW c \in Subscribers, RequestBreaks(c) PROVE ViewStep
    BY <1>7, RequestBreaksEffect DEF ViewStep
  <1>8. ASSUME NEW c \in Subscribers, RequestFails(c) PROVE ViewStep
    BY <1>8, RequestFailsEffect DEF ViewStep
  <1>9. ASSUME NEW c \in Subscribers, Track(c) PROVE ViewStep
    BY <1>9, TrackEffect DEF ViewStep
  <1>10. ASSUME NEW c \in Subscribers, Verify(c) PROVE ViewStep
    BY <1>10, VerifyEffect DEF ViewStep
  <1>11. ASSUME NEW c \in Users, Ensure(c) PROVE ViewStep
    BY <1>11, EnsureEffect DEF ViewStep
  <1>12. ASSUME NEW c \in Users, ReplayOne(c) PROVE ViewStep
    BY <1>12, ReplayOneEffect DEF ViewStep
  <1>13. ASSUME NEW c \in Users, Replayed(c) PROVE ViewStep
    BY <1>13, ReplayedEffect DEF ViewStep
  <1>14. ASSUME NEW c \in Users, SettleStamp(c) PROVE ViewStep
    BY <1>14, SettleEffect DEF ViewStep
  <1>15. ASSUME NEW c \in Users, ReplayFails(c) PROVE ViewStep
    BY <1>15, ReplayFailsEffect DEF ViewStep
  <1>16. ASSUME NEW c \in Readers, NEW k \in Kinds, Pop(c, k) PROVE ViewStep
    <2>1. Aside(c)
      BY <1>16 DEF Pop, Wants, Go, Aside, ReaderPlaces, SameConnection, SameView, net, track
    <2> QED
      BY <2>1 DEF ViewStep
  <1>17. ASSUME NEW c \in Readers, NEW k \in Kinds, BecomeReader(c, k) PROVE ViewStep
    <2>1. Aside(c)
      BY <1>17 DEF BecomeReader, Wants, Go, Aside, ReaderPlaces, SameConnection, SameView, net,
           track
    <2> QED
      BY <2>1 DEF ViewStep
  <1>18. ASSUME NEW c \in Readers, NEW k \in Kinds, Park(c, k) PROVE ViewStep
    <2>1. Aside(c)
      BY <1>18 DEF Park, Wants, Go, Aside, ReaderPlaces, SameConnection, SameView, net, track
    <2> QED
      BY <2>1 DEF ViewStep
  <1>19. ASSUME NEW c \in Readers, Unpark(c) PROVE ViewStep
    <2>1. Aside(c)
      BY <1>19 DEF Unpark, Go, Aside, ReaderPlaces, SameConnection, SameView, net, track
    <2> QED
      BY <2>1 DEF ViewStep
  <1>20. ASSUME NEW c \in Readers, ParkedGivesUp(c) PROVE ViewStep
    <2>1. Aside(c)
      BY <1>20 DEF ParkedGivesUp, Go, Aside, ReaderPlaces, SameConnection, SameView, net, track
    <2> QED
      BY <2>1 DEF ViewStep
  <1>21. ASSUME NEW c \in Readers, Check(c) PROVE ViewStep
    <2>1. Aside(c)
      BY <1>21 DEF Check, Go, Aside, ReaderPlaces, SameConnection, SameView, net, track
    <2> QED
      BY <2>1 DEF ViewStep
  <1>22. ASSUME NEW c \in Readers, LockReplay(c) PROVE ViewStep
    BY <1>22, LockReplayEffect DEF ViewStep
  <1>23. ASSUME NEW c \in Readers, TakeEvent(c) PROVE ViewStep
    <2>1. Aside(c)
      BY <1>23 DEF TakeEvent, Go, Aside, ReaderPlaces, SameConnection, SameView, net, track
    <2> QED
      BY <2>1 DEF ViewStep
  <1>24. ASSUME NEW c \in Readers, WaitOnConnection(c) PROVE ViewStep
    <2>1. Aside(c)
      BY <1>24 DEF WaitOnConnection, Go, Aside, ReaderPlaces, SameConnection, SameView, net, track
    <2> QED
      BY <2>1 DEF ViewStep
  <1>25. ASSUME NEW c \in Readers, ConnectToRead(c) PROVE ViewStep
    <2>1. SameConnection \/ (Connects /\ ~up /\ subscribed' = {})
      BY <1>25, Connecting DEF ConnectToRead, Connects, SameConnection
    <2>2. Aside(c)
      BY <1>25, <2>1 DEF ConnectToRead, Aside, ReaderPlaces, Go, SameView, track
    <2> QED
      BY <2>2 DEF ViewStep
  <1>26. ASSUME NEW c \in Readers, ConnectionDone(c) PROVE ViewStep
    <2>1. Aside(c)
      BY <1>26 DEF ConnectionDone, Go, Aside, ReaderPlaces, SameConnection, SameView, net, track
    <2> QED
      BY <2>1 DEF ViewStep
  <1>27. ASSUME NEW c \in Readers, ReadFails(c) PROVE ViewStep
    <2>1. Aside(c)
      BY <1>27 DEF ReadFails, Go, Aside, ReaderPlaces, SameConnection, SameView, net, track
    <2> QED
      BY <2>1 DEF ViewStep
  <1>28. ASSUME NEW c \in Readers, Dispatch(c) PROVE ViewStep
    <2>1. Aside(c)
      BY <1>28 DEF Dispatch, Go, Aside, ReaderPlaces, SameConnection, SameView, net, track
    <2> QED
      BY <2>1 DEF ViewStep
  <1>30. ASSUME NEW c \in Readers, Load(c) PROVE ViewStep
    <2>1. Aside(c)
      BY <1>30 DEF Load, Go, Aside, ReaderPlaces, SameConnection, SameView, net, track
    <2> QED
      BY <2>1 DEF ViewStep
  <1>29. CASE UNCHANGED pubSubVars
    BY <1>29 DEF pubSubVars, ViewStep, NothingForView, Untouched, SameConnection, SameView, net,
         track
  <1> QED
    BY <1>1, <1>2, <1>3, <1>4, <1>5, <1>6, <1>7, <1>8, <1>9, <1>10, <1>11, <1>12, <1>13, <1>14,
         <1>15, <1>16, <1>17, <1>18, <1>19, <1>20, <1>21, <1>22, <1>23, <1>24, <1>25, <1>26,
           <1>27, <1>28, <1>29, <1>30 DEF PubSubNext

\* The view keeps its types.
LEMMA ViewTypesKept == ASSUME PubSubInv, [PubSubNext]_pubSubVars PROVE ViewTypes'
  <1> USE DEF PubSubInv, PubSubTypeOK, ViewTypes, HolderOK, Users, ReplayTypes, UnderReplayMu
  <1>1. ASSUME LosesIt PROVE ViewTypes'
    BY <1>1 DEF LosesIt, Untouched, SameView
  <1>2. ASSUME MadeByOther PROVE ViewTypes'
    BY <1>2 DEF MadeByOther, Untouched, SameView, Connects
  <1>3. ASSUME NothingForView PROVE ViewTypes'
    BY <1>3 DEF NothingForView, Untouched, SameView, SameConnection
  <1>4. ASSUME NEW c \in Subscribers, NEW o \in Calls, SubscribeDoes(c, o) PROVE ViewTypes'
    BY <1>4 DEF SubscribeDoes, ReplayIs, SameConnection, SameView
  <1>5. ASSUME NEW c \in Subscribers, StampDoes(c) PROVE ViewTypes'
    BY <1>5 DEF StampDoes, StaysAt, ReplayIs, SameConnection
  <1>6. ASSUME NEW c \in Subscribers, RequestDoes(c) PROVE ViewTypes'
    BY <1>6, Serving DEF RequestDoes, Connects, StaysAt, Carried
  <1>7. ASSUME NEW c \in Subscribers, RequestBreaksDoes(c) PROVE ViewTypes'
    BY <1>7 DEF RequestBreaksDoes, LeavesTo, StaysAt, ReplayIs, SameView
  <1>8. ASSUME NEW c \in Subscribers, RequestFailsDoes(c) PROVE ViewTypes'
    BY <1>8, Serving DEF RequestFailsDoes, LeavesTo
  <1>9. ASSUME NEW c \in Subscribers, TrackDoes(c) PROVE ViewTypes'
    BY <1>9, Serving DEF TrackDoes, StaysAt, SameConnection
  <1>10. ASSUME NEW c \in Subscribers, VerifyDoes(c) PROVE ViewTypes'
    BY <1>10 DEF VerifyDoes, StaysAt, LeavesTo, ReplayIs, SameConnection
  <1>11. ASSUME NEW c \in Users, EnsureDoes(c) PROVE ViewTypes'
    BY <1>11 DEF EnsureDoes, Connects, Carried, StaysAt, LeavesTo, ReplayIs, SameView
  <1>12. ASSUME NEW c \in Users, ReplayOneDoes(c) PROVE ViewTypes'
    BY <1>12 DEF ReplayOneDoes, Connects, Carried, ReplayIs, SameView
  <1>13. ASSUME NEW c \in Users, ReplayedDoes(c) PROVE ViewTypes'
    BY <1>13 DEF ReplayedDoes, AgainOf, FailsOf, LeavesTo, StaysAt, ReplayIs, SameConnection
  <1>14. ASSUME NEW c \in Users, SettleDoes(c) PROVE ViewTypes'
    BY <1>14 DEF SettleDoes, AgainOf, FailsOf, LeavesTo, StaysAt, ReplayIs, SameConnection, SameView
  <1>15. ASSUME NEW c \in Users, ReplayFailsDoes(c) PROVE ViewTypes'
    BY <1>15 DEF ReplayFailsDoes, FailsOf, LeavesTo, SameConnection, SameView
  <1>16. ASSUME NEW c \in Readers, LockReplayDoes(c) PROVE ViewTypes'
    BY <1>16 DEF LockReplayDoes, ReplayIs, SameConnection, SameView
  <1>17. ASSUME NEW c \in Readers, Aside(c) PROVE ViewTypes'
    <2>1. PICK x \in ReaderPlaces : at' = [at EXCEPT ![c] = x]
      BY <1>17 DEF Aside
    <2>2. /\ up' \in BOOLEAN /\ generation' \in 0..MaxGen /\ subscribed' \subseteq Targets
      BY <1>17 DEF Aside, SameConnection, Connects
    <2> QED
      BY <1>17, <2>1, <2>2 DEF Aside, SameView, ReaderPlaces
  <1> QED
    BY ViewSteps, <1>1, <1>2, <1>3, <1>4, <1>5, <1>6, <1>7, <1>8, <1>9, <1>10, <1>11, <1>12,
         <1>13, <1>14, <1>15, <1>16, <1>17 DEF ViewStep, PubSubInv, PubSubTypeOK

\* The holder of replayMu keeps it through its steps.
LEMMA HolderKept == ASSUME PubSubInv, [PubSubNext]_pubSubVars PROVE HolderOK'
  <1> USE PubSubConstants DEF PubSubInv, PubSubTypeOK, ViewTypes, HolderOK, Users, UnderReplayMu
  <1>1. ASSUME LosesIt PROVE HolderOK'
    BY <1>1 DEF LosesIt, Untouched, SameView
  <1>2. ASSUME MadeByOther PROVE HolderOK'
    BY <1>2 DEF MadeByOther, Untouched, SameView, Connects
  <1>3. ASSUME NothingForView PROVE HolderOK'
    BY <1>3 DEF NothingForView, Untouched, SameView, SameConnection
  <1>4. ASSUME NEW c \in Subscribers, NEW o \in Calls, SubscribeDoes(c, o) PROVE HolderOK'
    <2>1. \A b \in Users : at'[b] = (IF b = c THEN "ensure" ELSE at[b])
      BY <1>4 DEF SubscribeDoes
    <2>2. \A b \in Subscribers : call'[b] = (IF b = c THEN o ELSE call[b])
      BY <1>4 DEF SubscribeDoes
    <2>3. \A b \in Users : at[b] \notin UnderReplayMu
      BY <1>4 DEF SubscribeDoes
    <2>4. replayMu' = c /\ replay'.next = "request"
      BY <1>4 DEF SubscribeDoes, ReplayIs
    <2>5. \A b \in Users : at'[b] \in UnderReplayMu <=> replayMu' = b
      BY <2>1, <2>3, <2>4
    <2>6. \A b \in Subscribers : b # c => at'[b] = "idle"
      BY <2>1, <2>3
    <2> QED
      BY <2>1, <2>2, <2>3, <2>4, <2>5, <2>6
  <1>5. ASSUME NEW c \in Subscribers, StampDoes(c) PROVE HolderOK'
    BY <1>5 DEF StampDoes, StaysAt, ReplayIs, SameConnection
  <1>6. ASSUME NEW c \in Subscribers, RequestDoes(c) PROVE HolderOK'
    BY <1>6 DEF RequestDoes, Connects, StaysAt, Carried
  <1>7. ASSUME NEW c \in Subscribers, RequestBreaksDoes(c) PROVE HolderOK'
    BY <1>7 DEF RequestBreaksDoes, LeavesTo, StaysAt, ReplayIs, SameView
  <1>8. ASSUME NEW c \in Subscribers, RequestFailsDoes(c) PROVE HolderOK'
    BY <1>8 DEF RequestFailsDoes, LeavesTo
  <1>9. ASSUME NEW c \in Subscribers, TrackDoes(c) PROVE HolderOK'
    BY <1>9 DEF TrackDoes, StaysAt, SameConnection
  <1>10. ASSUME NEW c \in Subscribers, VerifyDoes(c) PROVE HolderOK'
    BY <1>10 DEF VerifyDoes, StaysAt, LeavesTo, ReplayIs, SameConnection
  <1>11. ASSUME NEW c \in Users, EnsureDoes(c) PROVE HolderOK'
    BY <1>11 DEF EnsureDoes, Connects, Carried, StaysAt, LeavesTo, ReplayIs, SameView
  <1>12. ASSUME NEW c \in Users, ReplayOneDoes(c) PROVE HolderOK'
    BY <1>12 DEF ReplayOneDoes, Connects, Carried, ReplayIs, SameView
  <1>13. ASSUME NEW c \in Users, ReplayedDoes(c) PROVE HolderOK'
    BY <1>13 DEF ReplayedDoes, AgainOf, FailsOf, LeavesTo, StaysAt, ReplayIs, SameConnection
  <1>14. ASSUME NEW c \in Users, SettleDoes(c) PROVE HolderOK'
    BY <1>14 DEF SettleDoes, AgainOf, FailsOf, LeavesTo, StaysAt, ReplayIs, SameConnection, SameView
  <1>15. ASSUME NEW c \in Users, ReplayFailsDoes(c) PROVE HolderOK'
    BY <1>15 DEF ReplayFailsDoes, FailsOf, LeavesTo, SameConnection, SameView
  <1>16. ASSUME NEW c \in Readers, LockReplayDoes(c) PROVE HolderOK'
    BY <1>16 DEF LockReplayDoes, ReplayIs, SameConnection, SameView
  <1>17. ASSUME NEW c \in Readers, Aside(c) PROVE HolderOK'
    BY <1>17 DEF Aside, SameConnection, Connects, SameView, ReaderPlaces
  <1> QED
    BY ViewSteps, <1>1, <1>2, <1>3, <1>4, <1>5, <1>6, <1>7, <1>8, <1>9, <1>10, <1>11, <1>12,
         <1>13, <1>14, <1>15, <1>16, <1>17 DEF ViewStep, PubSubInv, PubSubTypeOK

\* Stamps stay behind the connection.
LEMMA StampsKept == ASSUME PubSubInv, [PubSubNext]_pubSubVars PROVE StampsOK'
  <1> USE PubSubConstants, ReplayTyped DEF PubSubInv, PubSubTypeOK, ViewTypes, StampsOK
  <1>1. ASSUME LosesIt PROVE StampsOK'
    BY <1>1 DEF LosesIt, Untouched, SameView
  <1>2. ASSUME MadeByOther PROVE StampsOK'
    BY <1>2 DEF MadeByOther, Untouched, SameView, Connects
  <1>3. ASSUME NothingForView PROVE StampsOK'
    BY <1>3 DEF NothingForView, Untouched, SameView, SameConnection
  <1>4. ASSUME NEW c \in Subscribers, NEW o \in Calls, SubscribeDoes(c, o) PROVE StampsOK'
    BY <1>4 DEF SubscribeDoes, ReplayIs, SameConnection, SameView
  <1>5. ASSUME NEW c \in Subscribers, StampDoes(c) PROVE StampsOK'
    BY <1>5 DEF StampDoes, StaysAt, ReplayIs, SameConnection
  <1>6. ASSUME NEW c \in Subscribers, RequestDoes(c) PROVE StampsOK'
    BY <1>6 DEF RequestDoes, Connects, StaysAt, Carried
  <1>7. ASSUME NEW c \in Subscribers, RequestBreaksDoes(c) PROVE StampsOK'
    BY <1>7 DEF RequestBreaksDoes, LeavesTo, StaysAt, ReplayIs, SameView
  <1>8. ASSUME NEW c \in Subscribers, RequestFailsDoes(c) PROVE StampsOK'
    BY <1>8 DEF RequestFailsDoes, LeavesTo
  <1>9. ASSUME NEW c \in Subscribers, TrackDoes(c) PROVE StampsOK'
    BY <1>9 DEF TrackDoes, StaysAt, SameConnection
  <1>10. ASSUME NEW c \in Subscribers, VerifyDoes(c) PROVE StampsOK'
    BY <1>10 DEF VerifyDoes, StaysAt, LeavesTo, ReplayIs, SameConnection
  <1>11. ASSUME NEW c \in Users, EnsureDoes(c) PROVE StampsOK'
    BY <1>11 DEF EnsureDoes, Connects, Carried, StaysAt, LeavesTo, ReplayIs, SameView
  <1>12. ASSUME NEW c \in Users, ReplayOneDoes(c) PROVE StampsOK'
    BY <1>12 DEF ReplayOneDoes, Connects, Carried, ReplayIs, SameView
  <1>13. ASSUME NEW c \in Users, ReplayedDoes(c) PROVE StampsOK'
    BY <1>13 DEF ReplayedDoes, AgainOf, FailsOf, LeavesTo, StaysAt, ReplayIs, SameConnection
  <1>14. ASSUME NEW c \in Users, SettleDoes(c) PROVE StampsOK'
    BY <1>14 DEF SettleDoes, AgainOf, FailsOf, LeavesTo, StaysAt, ReplayIs, SameConnection, SameView
  <1>15. ASSUME NEW c \in Users, ReplayFailsDoes(c) PROVE StampsOK'
    BY <1>15 DEF ReplayFailsDoes, FailsOf, LeavesTo, SameConnection, SameView
  <1>16. ASSUME NEW c \in Readers, LockReplayDoes(c) PROVE StampsOK'
    BY <1>16 DEF LockReplayDoes, ReplayIs, SameConnection, SameView
  <1>17. ASSUME NEW c \in Readers, Aside(c) PROVE StampsOK'
    BY <1>17 DEF Aside, SameConnection, Connects, SameView, ReaderPlaces
  <1> QED
    BY ViewSteps, <1>1, <1>2, <1>3, <1>4, <1>5, <1>6, <1>7, <1>8, <1>9, <1>10, <1>11, <1>12,
         <1>13, <1>14, <1>15, <1>16, <1>17 DEF ViewStep, PubSubInv, PubSubTypeOK

\* What the view tracks stays covered.
LEMMA SubscribedKept == ASSUME PubSubInv, [PubSubNext]_pubSubVars PROVE SubscribedOK'
  <1> USE PubSubConstants, ReplayTyped DEF PubSubInv, PubSubTypeOK, ViewTypes, HolderOK, StampsOK,
        SubscribedOK, Covered, Users, UnderReplayMu
  <1>1. ASSUME LosesIt PROVE SubscribedOK'
    BY <1>1 DEF LosesIt, Untouched, SameView
  <1>2. ASSUME MadeByOther PROVE SubscribedOK'
    BY <1>2 DEF MadeByOther, Untouched, SameView, Connects
  <1>3. ASSUME NothingForView PROVE SubscribedOK'
    BY <1>3 DEF NothingForView, Untouched, SameView, SameConnection
  <1>4. ASSUME NEW c \in Subscribers, NEW o \in Calls, SubscribeDoes(c, o) PROVE SubscribedOK'
    BY <1>4 DEF SubscribeDoes, ReplayIs, SameConnection, SameView
  <1>5. ASSUME NEW c \in Subscribers, StampDoes(c) PROVE SubscribedOK'
    BY <1>5 DEF StampDoes, StaysAt, ReplayIs, SameConnection
  <1>6. ASSUME NEW c \in Subscribers, RequestDoes(c) PROVE SubscribedOK'
    <2>1. /\ \A b \in Users : b # c => at'[b] = at[b] /\ at[b] \notin UnderReplayMu
          /\ at'[c] = "track" /\ call' = call /\ c \in Users
      BY <1>6 DEF RequestDoes, StaysAt
    <2>2. ASSUME up', replay'.stamp = generation'
          PROVE  /\ tracked \subseteq subscribed \cup unknown \cup slipped
                 /\ subscribed' = Served(call[c], subscribed)
      BY <1>6, <2>2 DEF RequestDoes, Connects, Carried
    <2>3. ASSUME up', replay'.stamp = generation'
          PROVE  Served(call[c], tracked)
                   \subseteq subscribed' \cup unknown' \cup (slipped \ call[c].targets)
      BY <1>6, <2>2, <2>3 DEF RequestDoes, Served
    <2>4. tracked' = tracked /\ slipped' = slipped
      BY <1>6 DEF RequestDoes
    <2>5. \A b \in Users : b # c => at'[b] \notin {"replay", "request", "verify", "track"}
      BY <2>1
    <2>6. \A b \in Subscribers : at'[b] = "track" =>
            (up' /\ replay'.stamp = generation' =>
               Served(call'[b], tracked')
                 \subseteq subscribed' \cup unknown' \cup (slipped' \ call'[b].targets))
      BY <2>1, <2>3, <2>4, <2>5
    <2> QED
      BY <2>1, <2>5, <2>6
  <1>7. ASSUME NEW c \in Subscribers, RequestBreaksDoes(c) PROVE SubscribedOK'
    BY <1>7 DEF RequestBreaksDoes, LeavesTo, StaysAt, ReplayIs, SameView
  <1>8. ASSUME NEW c \in Subscribers, RequestFailsDoes(c) PROVE SubscribedOK'
    <2>1. \A b \in Users : at'[b] \notin {"replay", "request", "verify", "track"}
      BY <1>8 DEF RequestFailsDoes, LeavesTo
    <2>2. up /\ last = generation => tracked \subseteq subscribed \cup unknown \cup slipped
      BY <1>8 DEF RequestFailsDoes
    <2>3. up /\ last = generation => tracked \subseteq subscribed' \cup unknown' \cup slipped
      BY <1>8, <2>2 DEF RequestFailsDoes, Served
    <2> QED
      BY <1>8, <2>1, <2>3 DEF RequestFailsDoes
  <1>9. ASSUME NEW c \in Subscribers, TrackDoes(c) PROVE SubscribedOK'
    BY <1>9 DEF TrackDoes, StaysAt, SameConnection
  <1>10. ASSUME NEW c \in Subscribers, VerifyDoes(c) PROVE SubscribedOK'
    BY <1>10 DEF VerifyDoes, StaysAt, LeavesTo, ReplayIs, SameConnection
  <1>11. ASSUME NEW c \in Users, EnsureDoes(c) PROVE SubscribedOK'
    BY <1>11 DEF EnsureDoes, Connects, Carried, StaysAt, LeavesTo, ReplayIs, SameView
  <1>12. ASSUME NEW c \in Users, ReplayOneDoes(c) PROVE SubscribedOK'
    BY <1>12 DEF ReplayOneDoes, Connects, Carried, ReplayIs, SameView
  <1>13. ASSUME NEW c \in Users, ReplayedDoes(c) PROVE SubscribedOK'
    BY <1>13 DEF ReplayedDoes, AgainOf, FailsOf, LeavesTo, StaysAt, ReplayIs, SameConnection
  <1>14. ASSUME NEW c \in Users, SettleDoes(c) PROVE SubscribedOK'
    BY <1>14 DEF SettleDoes, AgainOf, FailsOf, LeavesTo, StaysAt, ReplayIs, SameConnection, SameView
  <1>15. ASSUME NEW c \in Users, ReplayFailsDoes(c) PROVE SubscribedOK'
    BY <1>15 DEF ReplayFailsDoes, FailsOf, LeavesTo, SameConnection, SameView
  <1>16. ASSUME NEW c \in Readers, LockReplayDoes(c) PROVE SubscribedOK'
    BY <1>16 DEF LockReplayDoes, ReplayIs, SameConnection, SameView
  <1>17. ASSUME NEW c \in Readers, Aside(c) PROVE SubscribedOK'
    BY <1>17 DEF Aside, SameConnection, Connects, SameView, ReaderPlaces
  <1> QED
    BY ViewSteps, <1>1, <1>2, <1>3, <1>4, <1>5, <1>6, <1>7, <1>8, <1>9, <1>10, <1>11, <1>12,
         <1>13, <1>14, <1>15, <1>16, <1>17 DEF ViewStep, PubSubInv, PubSubTypeOK

-----------------------------------------------------------------------------
(* The steps as the readers see them.                                         *)

InReading ==
    UnderReplayMu \cup {"check", "lockThenLoad", "lock", "load", "read", "select", "failed"}

\* A step that moves no event, and nobody in or out of the reader's part.
Unseen ==
    /\ SameEvents
    /\ \A r \in Readers : at'[r] = at[r] \/ (at[r] \in InReading /\ at'[r] \in InReading)
ReaderStep ==
    \/ Unseen
    \/ \E k \in Kinds : DeliverEvent(k)
    \/ \E c \in Readers, k \in Kinds : Pop(c, k) \/ BecomeReader(c, k) \/ Park(c, k)
    \/ \E c \in Readers : \/ Unpark(c) \/ ParkedGivesUp(c) \/ TakeEvent(c) \/ WaitOnConnection(c)
                          \/ ConnectionDone(c) \/ ReadFails(c) \/ Dispatch(c)

\* Every step is one of these.
LEMMA ReaderSteps == ASSUME ViewTypes, HolderOK, [PubSubNext]_pubSubVars PROVE ReaderStep
  <1>1. ASSUME LoseConnection PROVE ReaderStep
    <2>1. Unseen
      BY <1>1 DEF LoseConnection, Go, Unseen, InReading, SameEvents, demux, HolderOK, Users,
           ViewTypes
    <2> QED
      BY <2>1 DEF ReaderStep
  <1>2. ASSUME ReconnectedByOther PROVE ReaderStep
    <2>1. Unseen
      BY <1>2 DEF ReconnectedByOther, Go, Unseen, InReading, SameEvents, demux, HolderOK, Users,
           ViewTypes
    <2> QED
      BY <2>1 DEF ReaderStep
  <1>3. ASSUME NEW k \in Kinds, DeliverEvent(k) PROVE ReaderStep
    BY <1>3 DEF ReaderStep
  <1>4. ASSUME NEW c \in Subscribers, NEW o \in Calls, Subscribe(c, o) PROVE ReaderStep
    <2>1. Unseen
      BY <1>4, SubscribeEffect, PubSubConstants DEF SubscribeDoes, Unseen, InReading, HolderOK,
           Users, ViewTypes, UnderReplayMu
    <2> QED
      BY <2>1 DEF ReaderStep
  <1>5. ASSUME NEW c \in Subscribers, Stamp(c) PROVE ReaderStep
    <2>1. Unseen
      BY <1>5, StampEffect, PubSubConstants DEF StampDoes, StaysAt, Unseen, InReading, HolderOK,
           Users, ViewTypes, UnderReplayMu
    <2> QED
      BY <2>1 DEF ReaderStep
  <1>6. ASSUME NEW c \in Subscribers, Request(c) PROVE ReaderStep
    <2>1. Unseen
      BY <1>6, RequestEffect, PubSubConstants DEF RequestDoes, StaysAt, Unseen, InReading,
           HolderOK, Users, ViewTypes, UnderReplayMu
    <2> QED
      BY <2>1 DEF ReaderStep
  <1>7. ASSUME NEW c \in Subscribers, RequestBreaks(c) PROVE ReaderStep
    <2>1. SameEvents /\ \E x : at' = [at EXCEPT ![c] = x]
      BY <1>7, RequestBreaksEffect DEF RequestBreaksDoes, LeavesTo, StaysAt
    <2>2. \A r \in Readers : at'[r] = at[r]
      BY <2>1, PubSubConstants DEF ViewTypes, Users
    <2> QED
      BY <2>1, <2>2 DEF ReaderStep, Unseen
  <1>8. ASSUME NEW c \in Subscribers, RequestFails(c) PROVE ReaderStep
    <2>1. Unseen
      BY <1>8, RequestFailsEffect, PubSubConstants DEF RequestFailsDoes, LeavesTo, Unseen,
           InReading, HolderOK, Users, ViewTypes, UnderReplayMu
    <2> QED
      BY <2>1 DEF ReaderStep
  <1>9. ASSUME NEW c \in Subscribers, Track(c) PROVE ReaderStep
    <2>1. Unseen
      BY <1>9, TrackEffect, PubSubConstants DEF TrackDoes, StaysAt, Unseen, InReading, HolderOK,
           Users, ViewTypes, UnderReplayMu
    <2> QED
      BY <2>1 DEF ReaderStep
  <1>10. ASSUME NEW c \in Subscribers, Verify(c) PROVE ReaderStep
    <2>1. Unseen
      BY <1>10, VerifyEffect, PubSubConstants DEF VerifyDoes, StaysAt, LeavesTo, Unseen,
           InReading, HolderOK, Users, ViewTypes, UnderReplayMu
    <2> QED
      BY <2>1 DEF ReaderStep
  <1>11. ASSUME NEW c \in Users, Ensure(c) PROVE ReaderStep
    <2>1. Unseen
      BY <1>11, EnsureEffect, PubSubConstants DEF EnsureDoes, StaysAt, LeavesTo, Unseen,
           InReading, HolderOK, Users, ViewTypes, UnderReplayMu
    <2> QED
      BY <2>1 DEF ReaderStep
  <1>12. ASSUME NEW c \in Users, ReplayOne(c) PROVE ReaderStep
    <2>1. Unseen
      BY <1>12, ReplayOneEffect, PubSubConstants DEF ReplayOneDoes, Unseen, InReading, HolderOK,
           Users, ViewTypes, UnderReplayMu
    <2> QED
      BY <2>1 DEF ReaderStep
  <1>13. ASSUME NEW c \in Users, Replayed(c) PROVE ReaderStep
    <2>1. Unseen
      BY <1>13, ReplayedEffect, PubSubConstants DEF ReplayedDoes, AgainOf, FailsOf, LeavesTo,
           StaysAt, Unseen, InReading, HolderOK, Users, ViewTypes, UnderReplayMu
    <2> QED
      BY <2>1 DEF ReaderStep
  <1>14. ASSUME NEW c \in Users, SettleStamp(c) PROVE ReaderStep
    <2>1. Unseen
      BY <1>14, SettleEffect, PubSubConstants DEF SettleDoes, AgainOf, FailsOf, LeavesTo, StaysAt,
           Unseen, InReading, HolderOK, Users, ViewTypes, UnderReplayMu
    <2> QED
      BY <2>1 DEF ReaderStep
  <1>15. ASSUME NEW c \in Users, ReplayFails(c) PROVE ReaderStep
    <2>1. Unseen
      BY <1>15, ReplayFailsEffect, PubSubConstants DEF ReplayFailsDoes, FailsOf, LeavesTo, Unseen,
           InReading, HolderOK, Users, ViewTypes, UnderReplayMu
    <2> QED
      BY <2>1 DEF ReaderStep
  <1>16. ASSUME NEW c \in Readers, NEW k \in Kinds, Pop(c, k) PROVE ReaderStep
    BY <1>16 DEF ReaderStep
  <1>17. ASSUME NEW c \in Readers, NEW k \in Kinds, BecomeReader(c, k) PROVE ReaderStep
    BY <1>17 DEF ReaderStep
  <1>18. ASSUME NEW c \in Readers, NEW k \in Kinds, Park(c, k) PROVE ReaderStep
    BY <1>18 DEF ReaderStep
  <1>19. ASSUME NEW c \in Readers, Unpark(c) PROVE ReaderStep
    BY <1>19 DEF ReaderStep
  <1>20. ASSUME NEW c \in Readers, ParkedGivesUp(c) PROVE ReaderStep
    BY <1>20 DEF ReaderStep
  <1>21. ASSUME NEW c \in Readers, Check(c) PROVE ReaderStep
    <2>1. SameEvents /\ at[c] = "check"
          /\ \E x \in {"lockThenLoad", "load"} : at' = [at EXCEPT ![c] = x]
      BY <1>21 DEF Check, Go, SameEvents, net, demux
    <2>2. Unseen
      BY <2>1 DEF Unseen, InReading, ViewTypes, Users
    <2> QED
      BY <2>2 DEF ReaderStep
  <1>22. ASSUME NEW c \in Readers, LockReplay(c) PROVE ReaderStep
    <2>1. Unseen
      BY <1>22, LockReplayEffect, PubSubConstants DEF LockReplayDoes, Unseen, InReading, HolderOK,
           Users, ViewTypes, UnderReplayMu
    <2> QED
      BY <2>1 DEF ReaderStep
  <1>23. ASSUME NEW c \in Readers, TakeEvent(c) PROVE ReaderStep
    BY <1>23 DEF ReaderStep
  <1>24. ASSUME NEW c \in Readers, WaitOnConnection(c) PROVE ReaderStep
    BY <1>24 DEF ReaderStep
  <1>25. ASSUME NEW c \in Readers, ConnectToRead(c) PROVE ReaderStep
    <2>1. Unseen
      BY <1>25 DEF ConnectToRead, Go, Unseen, InReading, SameEvents, demux, HolderOK, Users,
           ViewTypes
    <2> QED
      BY <2>1 DEF ReaderStep
  <1>26. ASSUME NEW c \in Readers, ConnectionDone(c) PROVE ReaderStep
    BY <1>26 DEF ReaderStep
  <1>27. ASSUME NEW c \in Readers, ReadFails(c) PROVE ReaderStep
    BY <1>27 DEF ReaderStep
  <1>28. ASSUME NEW c \in Readers, Dispatch(c) PROVE ReaderStep
    BY <1>28 DEF ReaderStep
  <1>30. ASSUME NEW c \in Readers, Load(c) PROVE ReaderStep
    <2>1. Unseen
      BY <1>30 DEF Load, Go, Unseen, InReading, SameEvents, net, ViewTypes, Users
    <2> QED
      BY <2>1 DEF ReaderStep
  <1>29. CASE UNCHANGED pubSubVars
    BY <1>29 DEF pubSubVars, ReaderStep, Unseen, SameEvents, net, demux
  <1> QED
    BY <1>1, <1>2, <1>3, <1>4, <1>5, <1>6, <1>7, <1>8, <1>9, <1>10, <1>11, <1>12, <1>13, <1>14,
         <1>15, <1>16, <1>17, <1>18, <1>19, <1>20, <1>21, <1>22, <1>23, <1>24, <1>25, <1>26,
           <1>27, <1>28, <1>29, <1>30 DEF PubSubNext

-----------------------------------------------------------------------------
(* The readers: numbers of events in a queue.                                 *)

\* One more event at the end.
LEMMA NumbersAppend ==
    ASSUME NEW S, NEW w, NEW s \in Seq(S), NEW e \in S
    PROVE  /\ Append(s, e) \in Seq(S) /\ Len(Append(s, e)) = Len(s) + 1
           /\ Numbers(Append(s, e)) = Numbers(s) \cup {e.n}
           /\ Rising(s, w) /\ (\A x \in Numbers(s) : Before(x, e.n, w)) => Rising(Append(s, e), w)
  <1> DEFINE t == Append(s, e)
  <1>1. /\ t \in Seq(S) /\ Len(t) = Len(s) + 1 /\ t[Len(s) + 1] = e
        /\ \A i \in 1..Len(s) : t[i] = s[i]
        /\ DOMAIN s = 1..Len(s) /\ DOMAIN t = 1..(Len(s) + 1) /\ Len(s) \in Nat
    OBVIOUS
  <1> HIDE DEF t
  <1>2. Numbers(t) = Numbers(s) \cup {e.n}
    <2>1. ASSUME NEW x \in Numbers(t) PROVE x \in Numbers(s) \cup {e.n}
      BY <1>1, <2>1 DEF Numbers
    <2>2. ASSUME NEW x \in Numbers(s) PROVE x \in Numbers(t)
      BY <1>1, <2>2 DEF Numbers
    <2>3. e.n \in Numbers(t)
      BY <1>1 DEF Numbers
    <2> QED
      BY <2>1, <2>2, <2>3
  <1>3. ASSUME Rising(s, w), \A x \in Numbers(s) : Before(x, e.n, w) PROVE Rising(t, w)
    BY <1>1, <1>3 DEF Rising, Numbers
  <1> QED
    BY <1>1, <1>2, <1>3 DEF t

\* The first one is taken: the others are later and stay in order.
LEMMA NumbersTail ==
    ASSUME NEW S, NEW w, NEW s \in Seq(S), s # <<>>
    PROVE  /\ Head(s) \in S /\ Tail(s) \in Seq(S) /\ Len(Tail(s)) = Len(s) - 1
           /\ Numbers(s) = {Head(s).n} \cup Numbers(Tail(s))
           /\ Rising(s, w) => Rising(Tail(s), w) /\ \A x \in Numbers(Tail(s)) : Before(Head(s).n,
                x, w)
  <1> DEFINE t == Tail(s)
  <1>1. /\ t \in Seq(S) /\ Len(t) = Len(s) - 1 /\ Head(s) = s[1] /\ Head(s) \in S
        /\ \A i \in 1..Len(t) : t[i] = s[i + 1]
        /\ DOMAIN s = 1..Len(s) /\ DOMAIN t = 1..(Len(s) - 1) /\ Len(s) \in Nat /\ Len(s) > 0
    OBVIOUS
  <1> HIDE DEF t
  <1>2. Numbers(s) = {Head(s).n} \cup Numbers(t)
    <2>1. ASSUME NEW i \in 1..Len(s) PROVE s[i].n \in {Head(s).n} \cup Numbers(t)
      <3>1. CASE i = 1
        BY <1>1, <3>1
      <3>2. CASE i # 1
        <4>1. i - 1 \in DOMAIN t /\ t[i - 1] = s[i]
          BY <1>1, <3>2
        <4> QED
          BY <4>1 DEF Numbers
      <3> QED
        BY <3>1, <3>2
    <2>2. ASSUME NEW x \in Numbers(t) PROVE x \in Numbers(s)
      BY <1>1, <2>2 DEF Numbers
    <2>3. Head(s).n \in Numbers(s)
      BY <1>1 DEF Numbers
    <2> QED
      BY <1>1, <2>1, <2>2, <2>3 DEF Numbers
  <1>3. ASSUME Rising(s, w) PROVE Rising(t, w) /\ \A x \in Numbers(t) : Before(Head(s).n, x, w)
    <2>1. ASSUME NEW i \in DOMAIN t PROVE i + 1 \in DOMAIN s /\ t[i] = s[i + 1] /\ 1 \in DOMAIN s
      BY <1>1
    <2>2. ASSUME NEW i \in DOMAIN t, NEW j \in DOMAIN t, i < j PROVE Before(t[i].n, t[j].n, w)
      <3>1. i + 1 < j + 1
        BY <1>1, <2>2
      <3> QED
        BY <1>3, <2>1, <2>2, <3>1 DEF Rising
    <2>3. ASSUME NEW i \in DOMAIN t PROVE Before(s[1].n, t[i].n, w)
      <3>1. 1 < i + 1
        BY <1>1
      <3> QED
        BY <1>3, <2>1, <3>1 DEF Rising
    <2> QED
      BY <1>1, <2>2, <2>3 DEF Rising, Numbers
  <1> QED
    BY <1>1, <1>2, <1>3 DEF t

\* An empty queue.
LEMMA NumbersEmpty == Numbers(<<>>) = {} /\ \A w : Rising(<<>>, w)
  BY DEF Numbers, Rising

\* What is given to the application.
Members(s) == {s[i] : i \in DOMAIN s}
Ascending(s, origin) == \A i, j \in DOMAIN s : i < j => Before(s[i], s[j], origin)

\* A later event at the end keeps what was given in order.
LEMMA GivenAppend ==
    ASSUME NEW S, NEW w, NEW s \in Seq(S), NEW e \in S
    PROVE  /\ Append(s, e) \in Seq(S) /\ Members(Append(s, e)) = Members(s) \cup {e}
           /\ Ascending(s, w) /\ (\A x \in Members(s) : Before(x, e, w)) => Ascending(Append(s,
                e), w)
  <1> DEFINE t == Append(s, e)
  <1>1. /\ t \in Seq(S) /\ Len(t) = Len(s) + 1 /\ t[Len(s) + 1] = e
        /\ \A i \in 1..Len(s) : t[i] = s[i]
        /\ DOMAIN s = 1..Len(s) /\ DOMAIN t = 1..(Len(s) + 1) /\ Len(s) \in Nat
    OBVIOUS
  <1> HIDE DEF t
  <1>2. Members(t) = Members(s) \cup {e}
    <2>1. ASSUME NEW i \in DOMAIN t PROVE t[i] \in Members(s) \cup {e}
      BY <1>1 DEF Members
    <2>2. ASSUME NEW i \in DOMAIN s PROVE s[i] \in Members(t)
      BY <1>1 DEF Members
    <2>3. e \in Members(t)
      BY <1>1 DEF Members
    <2> QED
      BY <2>1, <2>2, <2>3 DEF Members
  <1>3. ASSUME Ascending(s, w), \A x \in Members(s) : Before(x, e, w) PROVE Ascending(t, w)
    BY <1>1, <1>3 DEF Ascending, Members
  <1> QED
    BY <1>1, <1>2, <1>3 DEF t

\* The view and its reader are at executors.
LEMMA ExecutorsKept == ASSUME PubSubInv, [PubSubNext]_pubSubVars PROVE ChannelTypes'
  <1>1. ChannelTypes
    BY DEF PubSubInv, PubSubTypeOK
  <1>2. ASSUME NEW c \in Users, Ensure(c) PROVE ChannelTypes'
    BY <1>1, <1>2 DEF ChannelTypes, Ensure, demux
  <1>3. ASSUME NEW c \in Readers, Load(c) PROVE ChannelTypes'
    BY <1>1, <1>3 DEF ChannelTypes, Load, net
  <1>4. ASSUME UNCHANGED <<exec, reading>> PROVE ChannelTypes'
    BY <1>1, <1>4 DEF ChannelTypes
  <1>5. ASSUME LoseConnection \/ ReconnectedByOther \/ \E k \in Kinds : DeliverEvent(k)
        PROVE  UNCHANGED <<exec, reading>>
    BY <1>5 DEF LoseConnection, ReconnectedByOther, DeliverEvent, demux
  <1>6. ASSUME NEW c \in Subscribers,
               \/ \E o \in Calls : Subscribe(c, o)
               \/ Stamp(c) \/ Request(c) \/ RequestBreaks(c) \/ RequestFails(c) \/ Track(c)
               \/ Verify(c)
        PROVE  UNCHANGED <<exec, reading>>
    BY <1>6 DEF Subscribe, Stamp, Request, RequestBreaks, RequestFails, Track, Verify, net, demux
  <1>7. ASSUME NEW c \in Users,
               ReplayOne(c) \/ Replayed(c) \/ SettleStamp(c) \/ ReplayFails(c)
        PROVE  UNCHANGED <<exec, reading>>
    BY <1>7 DEF ReplayOne, Replayed, SettleStamp, ReplayFails, net, demux
  <1>8. ASSUME NEW c \in Readers,
               \/ \E k \in Kinds : Pop(c, k) \/ BecomeReader(c, k) \/ Park(c, k)
               \/ Unpark(c) \/ ParkedGivesUp(c) \/ Check(c) \/ LockReplay(c)
        PROVE  UNCHANGED <<exec, reading>>
    BY <1>8 DEF Pop, BecomeReader, Park, Unpark, ParkedGivesUp, Check, LockReplay, net, demux
  <1>9. ASSUME NEW c \in Readers,
               \/ TakeEvent(c) \/ WaitOnConnection(c) \/ ConnectToRead(c) \/ ConnectionDone(c)
               \/ ReadFails(c) \/ Dispatch(c)
        PROVE  UNCHANGED <<exec, reading>>
    BY <1>9 DEF TakeEvent, WaitOnConnection, ConnectToRead, ConnectionDone, ReadFails, Dispatch,
         net, demux
  <1>10. CASE UNCHANGED pubSubVars
    BY <1>4, <1>10 DEF pubSubVars, net, demux
  <1> QED
    BY <1>2, <1>3, <1>4, <1>5, <1>6, <1>7, <1>8, <1>9, <1>10 DEF PubSubNext

\* What is at the head of the reader's queue is an event.
LEMMA HeadTyped ==
    ASSUME PubSubInv, NEW c \in Readers, TakeEvent(c) PROVE Head(events[reading]) \in Events
  <1>1. events[reading] \in Seq(Events) /\ events[reading] # <<>>
    BY DEF TakeEvent, PubSubInv, PubSubTypeOK, EventTypes, ChannelTypes
  <1> QED
    BY <1>1, NumbersTail

\* The readers keep their types.
LEMMA ReaderTypesKept == ASSUME PubSubInv, [PubSubNext]_pubSubVars PROVE ReaderTypes'
  <1> USE PubSubConstants DEF PubSubInv, PubSubTypeOK, ReaderTypes, EventTypes, ViewTypes
  <1>1. ASSUME Unseen PROVE ReaderTypes'
    BY <1>1 DEF Unseen, SameEvents, InReading, UnderReplayMu
  <1>2. ASSUME NEW k \in Kinds, DeliverEvent(k) PROVE ReaderTypes'
    BY <1>2 DEF DeliverEvent
  <1>3. ASSUME NEW c \in Readers, NEW k \in Kinds, Pop(c, k) PROVE ReaderTypes'
    BY <1>3 DEF Pop, Wants, Go
  <1>4. ASSUME NEW c \in Readers, NEW k \in Kinds, BecomeReader(c, k) PROVE ReaderTypes'
    BY <1>4 DEF BecomeReader, Wants, Go
  <1>5. ASSUME NEW c \in Readers, NEW k \in Kinds, Park(c, k) PROVE ReaderTypes'
    BY <1>5 DEF Park, Wants, Go
  <1>6. ASSUME NEW c \in Readers, Unpark(c) PROVE ReaderTypes'
    BY <1>6 DEF Unpark, Go
  <1>7. ASSUME NEW c \in Readers, ParkedGivesUp(c) PROVE ReaderTypes'
    BY <1>7 DEF ParkedGivesUp, Go
  <1>8. ASSUME NEW c \in Readers, TakeEvent(c) PROVE ReaderTypes'
    <2>1. Head(events[reading]) \in Events
      BY <1>8, HeadTyped
    <2> QED
      BY <1>8, <2>1, SMTT(30) DEF TakeEvent
  <1>9. ASSUME NEW c \in Readers, WaitOnConnection(c) PROVE ReaderTypes'
    BY <1>9 DEF WaitOnConnection, Go
  <1>10. ASSUME NEW c \in Readers, ConnectionDone(c) PROVE ReaderTypes'
    BY <1>10 DEF ConnectionDone, Go
  <1>11. ASSUME NEW c \in Readers, ReadFails(c) PROVE ReaderTypes'
    BY <1>11 DEF ReadFails, Go
  <1>12. ASSUME NEW c \in Readers, Dispatch(c) PROVE ReaderTypes'
    <2>1. /\ want' = want \/ want' = [want EXCEPT ![c] = "none"]
          /\ held' = [held EXCEPT ![c] = NoEvent] /\ seen' = seen
          /\ signalled' \subseteq Readers /\ eventReading' = "none"
      BY <1>12 DEF Dispatch
    <2>2. want' \in [Readers -> Kinds \cup {"none"}]
      <3>1. want \in [Readers -> Kinds \cup {"none"}]
        BY DEF ReaderTypes
      <3>2. [want EXCEPT ![c] = "none"] \in [Readers -> Kinds \cup {"none"}]
        BY <3>1
      <3> QED
        BY <2>1, <3>1, <3>2
    <2>3. held' \in [Readers -> Events \cup {NoEvent}]
      BY <2>1 DEF ReaderTypes
    <2> QED
      BY <2>1, <2>2, <2>3 DEF ReaderTypes
  <1> QED
    BY ReaderSteps, <1>1, <1>2, <1>3, <1>4, <1>5, <1>6, <1>7, <1>8, <1>9, <1>10, <1>11,
         <1>12 DEF ReaderStep, PubSubInv, PubSubTypeOK

\* There stays one reader.
LEMMA ReadingKept == ASSUME PubSubInv, [PubSubNext]_pubSubVars PROVE ReadingOK'
  <1> USE PubSubConstants DEF PubSubInv, PubSubTypeOK, ReaderTypes, EventTypes, ViewTypes,
        HolderOK, ReadingOK, Users, UnderReplayMu, Go
  <1>1. ASSUME Unseen PROVE ReadingOK'
    <2>1. UNCHANGED <<eventReading, want, buffer, held>>
      BY <1>1 DEF Unseen, SameEvents
    <2>2. ASSUME NEW r \in Readers
          PROVE  /\ at'[r] \in {"idle", "top", "parked"} <=> at[r] \in {"idle", "top", "parked"}
                 /\ at'[r] = "idle" <=> at[r] = "idle"
                 /\ at'[r] = "got" <=> at[r] = "got"
      BY <1>1 DEF Unseen, InReading
    <2> QED
      BY <2>1, <2>2 DEF ReadingOK
  <1>2. ASSUME NEW k \in Kinds, DeliverEvent(k) PROVE ReadingOK'
    BY <1>2 DEF DeliverEvent
  <1>3. ASSUME NEW c \in Readers, NEW k \in Kinds, Pop(c, k) PROVE ReadingOK'
    <2>1. /\ at' = [at EXCEPT ![c] = "idle"] /\ want' = [want EXCEPT ![c] = "none"]
          /\ buffer' = [buffer EXCEPT ![k] = Tail(@)] /\ UNCHANGED <<eventReading, held>>
          /\ at[c] \in {"idle", "top"} /\ buffer[k] # <<>>
      BY <1>3 DEF Pop, Wants
    <2>2. eventReading # c /\ held[c] = NoEvent /\ at'[c] = "idle"
      BY <2>1
    <2>3. ASSUME NEW r \in Readers, r # c
          PROVE  at'[r] = at[r] /\ want'[r] = want[r]
      BY <2>1, <2>3
    <2>4. ASSUME NEW r \in Readers, eventReading = r
          PROVE  buffer'[want[r]] = <<>>
      <3>1. want[r] \in Kinds /\ buffer[want[r]] = <<>> /\ want[r] # k
        BY <2>1, <2>4
      <3> QED
        BY <2>1, <3>1
    <2> QED
      BY <2>1, <2>2, <2>3, <2>4 DEF ReadingOK
  <1>4. ASSUME NEW c \in Readers, NEW k \in Kinds, BecomeReader(c, k) PROVE ReadingOK'
    BY <1>4 DEF BecomeReader, Wants, Go
  <1>5. ASSUME NEW c \in Readers, NEW k \in Kinds, Park(c, k) PROVE ReadingOK'
    BY <1>5 DEF Park, Wants, Go
  <1>6. ASSUME NEW c \in Readers, Unpark(c) PROVE ReadingOK'
    BY <1>6 DEF Unpark, Go
  <1>7. ASSUME NEW c \in Readers, ParkedGivesUp(c) PROVE ReadingOK'
    BY <1>7 DEF ParkedGivesUp, Go
  <1>8. ASSUME NEW c \in Readers, TakeEvent(c) PROVE ReadingOK'
    <2>1. Head(events[reading]) \in Events
      BY <1>8, HeadTyped
    <2>2. Head(events[reading]) # NoEvent
      BY <2>1 DEF Events, NoEvent
    <2> QED
      BY <1>8, <2>1, <2>2, SMTT(30) DEF TakeEvent
  <1>9. ASSUME NEW c \in Readers, WaitOnConnection(c) PROVE ReadingOK'
    BY <1>9 DEF WaitOnConnection, Go
  <1>10. ASSUME NEW c \in Readers, ConnectionDone(c) PROVE ReadingOK'
    BY <1>10 DEF ConnectionDone, Go
  <1>11. ASSUME NEW c \in Readers, ReadFails(c) PROVE ReadingOK'
    <2>1. /\ at' = [at EXCEPT ![c] = "idle"] /\ want' = [want EXCEPT ![c] = "none"]
          /\ eventReading' = "none" /\ UNCHANGED <<buffer, held>>
          /\ at[c] \in {"read", "select", "failed"}
      BY <1>11 DEF ReadFails
    <2>2. eventReading = c /\ held[c] = NoEvent /\ at'[c] = "idle"
      BY <2>1
    <2>3. ASSUME NEW r \in Readers, r # c
          PROVE  /\ at'[r] = at[r] /\ want'[r] = want[r]
                 /\ at[r] \in {"idle", "top", "parked"}
      BY <2>1, <2>2, <2>3
    <2> QED
      BY <2>1, <2>2, <2>3 DEF ReadingOK
  <1>12. ASSUME NEW c \in Readers, Dispatch(c) PROVE ReadingOK'
    <2>1. /\ eventReading' = "none" /\ held' = [held EXCEPT ![c] = NoEvent]
          /\ \/ want' = [want EXCEPT ![c] = "none"] /\ at' = [at EXCEPT ![c] = "idle"]
             \/ want' = want /\ at' = [at EXCEPT ![c] = "top"]
      BY <1>12 DEF Dispatch
    <2>2. eventReading = c /\ want[c] \in Kinds
      BY <1>12 DEF Dispatch
    <2>3. ASSUME NEW r \in Readers, r # c
          PROVE  /\ at'[r] = at[r] /\ want'[r] = want[r] /\ held'[r] = held[r]
                 /\ at[r] \in {"idle", "top", "parked"}
      BY <2>1, <2>2, <2>3
    <2>4. /\ held'[c] = NoEvent /\ at'[c] \in {"idle", "top"}
          /\ at'[c] = "top" => want'[c] \in Kinds
      BY <2>1, <2>2
    <2> QED
      BY <2>1, <2>3, <2>4
  <1> QED
    BY ReaderSteps, <1>1, <1>2, <1>3, <1>4, <1>5, <1>6, <1>7, <1>8, <1>9, <1>10, <1>11,
         <1>12 DEF ReaderStep, PubSubInv, PubSubTypeOK

\* Nobody who is parked is forgotten.
LEMMA ParkedKept == ASSUME PubSubInv, [PubSubNext]_pubSubVars PROVE ParkedAreRemembered'
  <1> USE PubSubConstants DEF PubSubInv, PubSubTypeOK, ReaderTypes, EventTypes, ViewTypes,
        HolderOK, ReadingOK, Users, UnderReplayMu, ParkedAreRemembered, Go
  <1>1. ASSUME Unseen PROVE ParkedAreRemembered'
    BY <1>1 DEF Unseen, SameEvents, InReading, UnderReplayMu
  <1>2. ASSUME NEW k \in Kinds, DeliverEvent(k) PROVE ParkedAreRemembered'
    BY <1>2 DEF DeliverEvent
  <1>3. ASSUME NEW c \in Readers, NEW k \in Kinds, Pop(c, k) PROVE ParkedAreRemembered'
    BY <1>3 DEF Pop, Wants, Go
  <1>4. ASSUME NEW c \in Readers, NEW k \in Kinds, BecomeReader(c, k) PROVE ParkedAreRemembered'
    BY <1>4 DEF BecomeReader, Wants, Go
  <1>5. ASSUME NEW c \in Readers, NEW k \in Kinds, Park(c, k) PROVE ParkedAreRemembered'
    BY <1>5 DEF Park, Wants, Go
  <1>6. ASSUME NEW c \in Readers, Unpark(c) PROVE ParkedAreRemembered'
    BY <1>6 DEF Unpark, Go
  <1>7. ASSUME NEW c \in Readers, ParkedGivesUp(c) PROVE ParkedAreRemembered'
    BY <1>7 DEF ParkedGivesUp, Go
  <1>8. ASSUME NEW c \in Readers, TakeEvent(c) PROVE ParkedAreRemembered'
    BY <1>8 DEF TakeEvent, Go
  <1>9. ASSUME NEW c \in Readers, WaitOnConnection(c) PROVE ParkedAreRemembered'
    BY <1>9 DEF WaitOnConnection, Go
  <1>10. ASSUME NEW c \in Readers, ConnectionDone(c) PROVE ParkedAreRemembered'
    BY <1>10 DEF ConnectionDone, Go
  <1>11. ASSUME NEW c \in Readers, ReadFails(c) PROVE ParkedAreRemembered'
    BY <1>11 DEF ReadFails, Go
  <1>12. ASSUME NEW c \in Readers, Dispatch(c) PROVE ParkedAreRemembered'
    BY <1>12 DEF Dispatch, Go
  <1> QED
    BY ReaderSteps, <1>1, <1>2, <1>3, <1>4, <1>5, <1>6, <1>7, <1>8, <1>9, <1>10, <1>11,
         <1>12 DEF ReaderStep, PubSubInv, PubSubTypeOK

-----------------------------------------------------------------------------
(* Where the events are.                                                      *)

\* Numbers are natural numbers up to the last one sent.
LEMMA EventFacts ==
    ASSUME PubSubInv
    PROVE  /\ sent \in Seq(Executors) /\ Len(sent) \in Nat /\ MaxEvents \in Nat
           /\ Len(sent) <= MaxEvents
           /\ InQueues \subseteq 1..Len(sent) /\ InBuffers \subseteq 1..Len(sent)
           /\ InHands \subseteq 1..Len(sent) /\ Given \subseteq 1..Len(sent)
           /\ dropped \subseteq 1..Len(sent)
           /\ \A k \in Kinds : /\ Numbers(buffer[k]) \subseteq InBuffers
                               /\ GivenOf(k) \subseteq Given
                               /\ buffer[k] \in Seq(Events) /\ given[k] \in Seq(1..MaxEvents)
           /\ \A e \in Executors : /\ Numbers(events[e]) \subseteq InQueues
                                   /\ events[e] \in Seq(Events)
  <1>1. /\ sent \in Seq(Executors) /\ Len(sent) \in Nat /\ MaxEvents \in Nat
        /\ Len(sent) <= MaxEvents
    BY PubSubConstants DEF PubSubInv, PubSubTypeOK, EventTypes
  <1>2. /\ InQueues \subseteq 1..Len(sent) /\ InBuffers \subseteq 1..Len(sent)
        /\ InHands \subseteq 1..Len(sent) /\ Given \subseteq 1..Len(sent)
        /\ dropped \subseteq 1..Len(sent)
    BY DEF PubSubInv, EventsOnceInOrder
  <1>3. \A k \in Kinds : Numbers(buffer[k]) \subseteq InBuffers /\ GivenOf(k) \subseteq Given
    BY DEF InBuffers, Given
  <1>4. \A k \in Kinds : buffer[k] \in Seq(Events) /\ given[k] \in Seq(1..MaxEvents)
    BY DEF PubSubInv, PubSubTypeOK, EventTypes
  <1>5. \A e \in Executors : Numbers(events[e]) \subseteq InQueues /\ events[e] \in Seq(Events)
    BY DEF InQueues, PubSubInv, PubSubTypeOK, EventTypes
  <1> QED
    BY <1>1, <1>2, <1>3, <1>4, <1>5

\* What came before an event is another one.
LEMMA BeforeIsOther ==
    ASSUME NEW x \in Nat, NEW w, Before(x, x, w) PROVE FALSE
  BY DEF Before

\* One more event is given to the application.
LEMMA GivenTo ==
    ASSUME PubSubInv, NEW k \in Kinds, NEW h \in 1..MaxEvents,
           \A x \in GivenOf(k) : Before(x, h, sent), given' = [given EXCEPT ![k] = Append(@, h)]
    PROVE  /\ given' \in [Kinds -> Seq(1..MaxEvents)]
           /\ GivenOf(k)' = GivenOf(k) \cup {h} /\ Given' = Given \cup {h}
           /\ \A l \in Kinds : l # k => GivenOf(l)' = GivenOf(l)
           /\ \A l \in Kinds : \A i, j \in DOMAIN given'[l] :
                i < j => Before(given'[l][i], given'[l][j], sent)
  <1>1. given \in [Kinds -> Seq(1..MaxEvents)]
    BY DEF PubSubInv, PubSubTypeOK, EventTypes
  <1>2. given'[k] = Append(given[k], h) /\ \A l \in Kinds : l # k => given'[l] = given[l]
    BY <1>1
  <1>3. \A l \in Kinds : Ascending(given[l], sent)
    BY DEF PubSubInv, EventsOnceInOrder, Ascending
  <1>4. /\ Members(given'[k]) = Members(given[k]) \cup {h} /\ given'[k] \in Seq(1..MaxEvents)
        /\ Ascending(given'[k], sent)
    <2>1. given[k] \in Seq(1..MaxEvents) /\ \A x \in Members(given[k]) : Before(x, h, sent)
      BY <1>1 DEF GivenOf, Members
    <2> DEFINE N == 1..MaxEvents
    <2>2. given[k] \in Seq(N) /\ h \in N
      BY <2>1
    <2> HIDE DEF N
    <2>3. given'[k] \in Seq(N) /\ Members(given'[k]) = Members(given[k]) \cup {h}
          /\ Ascending(given'[k], sent)
      BY <1>2, <1>3, <2>1, <2>2, GivenAppend
    <2> QED
      BY <2>3 DEF N
  <1>5. GivenOf(k)' = GivenOf(k) \cup {h}
    BY <1>4 DEF GivenOf, Members
  <1>6. \A l \in Kinds : l # k => GivenOf(l)' = GivenOf(l)
    BY <1>2 DEF GivenOf
  <1>7. Given' = Given \cup {h}
    BY <1>5, <1>6 DEF Given
  <1>8. given' \in [Kinds -> Seq(1..MaxEvents)]
    BY <1>1, <1>4
  <1>9. \A l \in Kinds : Ascending(given'[l], sent)
    BY <1>2, <1>3, <1>4
  <1> QED
    BY <1>5, <1>6, <1>7, <1>8, <1>9 DEF Ascending

\* The executors of the events sent so far, with one more of them: the order of the
\* earlier events is what it was, and the new one comes last.
LEMMA SentAppend ==
    ASSUME PubSubInv, sent' = Append(sent, exec)
    PROVE  /\ sent' \in Seq(Executors) /\ Len(sent') = Len(sent) + 1
           /\ sent'[Len(sent) + 1] = exec /\ \A x \in 1..Len(sent) : sent'[x] = sent[x]
           /\ \A x, y \in 1..Len(sent) : Before(x, y, sent') <=> Before(x, y, sent)
           /\ \A x \in 1..Len(sent) : Before(x, Len(sent) + 1, sent')
  <1>1. sent \in Seq(Executors) /\ exec \in Executors /\ Len(sent) \in Nat
    BY EventFacts DEF PubSubInv, PubSubTypeOK, ChannelTypes
  <1>2. /\ sent' \in Seq(Executors) /\ Len(sent') = Len(sent) + 1
        /\ sent'[Len(sent) + 1] = exec /\ \A x \in 1..Len(sent) : sent'[x] = sent[x]
    BY <1>1
  <1>3. \A x, y \in 1..Len(sent) : Before(x, y, sent') <=> Before(x, y, sent)
    BY <1>2 DEF Before
  <1>4. \A x \in 1..Len(sent) : Before(x, Len(sent) + 1, sent')
    BY <1>1 DEF Before
  <1> QED
    BY <1>2, <1>3, <1>4

\* A queue in order stays in order when only its own events matter.
LEMMA RisingOn ==
    ASSUME NEW s, NEW w, NEW v, NEW D, Rising(s, w), Numbers(s) \subseteq D,
           \A x, y \in D : Before(x, y, v) <=> Before(x, y, w)
    PROVE  Rising(s, v)
  BY DEF Rising, Numbers

\* An event arrives in its executor's queue or is dropped.
LEMMA DeliverKept ==
    ASSUME PubSubInv, NEW k \in Kinds, DeliverEvent(k)
    PROVE  EventTypes' /\ OrderOK' /\ EventsOnceInOrder'
  <1> DEFINE e == [kind |-> k, n |-> Len(sent) + 1]
             D == 1..Len(sent)
             new == Len(sent) + 1
  <1>0. sent' = Append(sent, exec) /\ exec \in Executors
    BY DEF DeliverEvent, PubSubInv, PubSubTypeOK, ChannelTypes
  <1>1. e \in Events /\ e.n = new /\ Len(sent') = new /\ new <= MaxEvents /\ new \in Nat
    BY <1>0, SentAppend, EventFacts DEF DeliverEvent, Events
  <1> HIDE DEF e
  <1>2. /\ buffer' = buffer /\ given' = given
        /\ InBuffers' = InBuffers /\ InHands' = InHands /\ Given' = Given
        /\ \A l \in Kinds : GivenOf(l)' = GivenOf(l)
    BY DEF DeliverEvent, InBuffers, InHands, Given, GivenOf, Numbers
  <1>3. /\ events \in [Executors -> Seq(Events)] /\ dropped \subseteq 1..MaxEvents
        /\ 1..Len(sent') = D \cup {new} /\ new \notin D /\ new \in 1..MaxEvents
    BY <1>1, EventFacts DEF PubSubInv, PubSubTypeOK, EventTypes
  <1>4. /\ \A x, y \in D : Before(x, y, sent') <=> Before(x, y, sent)
        /\ \A x \in D : Before(x, new, sent') /\ sent'[x] = sent[x]
        /\ sent'[new] = exec /\ sent' \in Seq(Executors)
    BY <1>0, SentAppend
  <1>5. /\ InQueues \subseteq D /\ InBuffers \subseteq D /\ InHands \subseteq D /\ Given \subseteq D
        /\ dropped \subseteq D /\ \A l \in Kinds : Numbers(buffer[l]) \subseteq D
        /\ \A l \in Kinds : GivenOf(l) \subseteq D
        /\ \A a \in Executors : Numbers(events[a]) \subseteq D
    BY EventFacts
  <1> HIDE DEF D, new
  <1>6. \A l \in Kinds : /\ Rising(buffer'[l], sent')
                         /\ \A x \in GivenOf(l)', y \in Numbers(buffer'[l]) : Before(x, y, sent')
    <2>1. \A l \in Kinds : Rising(buffer[l], sent')
      BY <1>4, <1>5, RisingOn DEF PubSubInv, OrderOK
    <2>2. \A l \in Kinds : \A x \in GivenOf(l), y \in Numbers(buffer[l]) : Before(x, y, sent')
      BY <1>4, <1>5 DEF PubSubInv, OrderOK
    <2> QED
      BY <1>2, <2>1, <2>2
  <1>7. \A x \in Given' \cup InBuffers', y \in InHands' : Before(x, y, sent')
    BY <1>2, <1>4, <1>5 DEF PubSubInv, OrderOK
  <1>8. \A x \in Given' \cup InBuffers' \cup InHands', y \in InQueues : Before(x, y, sent')
    BY <1>2, <1>4, <1>5 DEF PubSubInv, OrderOK
  <1>9. \A a \in Executors : /\ Rising(events[a], sent')
                             /\ \A y \in Numbers(events[a]) : sent'[y] = a
    BY <1>4, <1>5, RisingOn DEF PubSubInv, OrderOK
  <1>10. \A l \in Kinds : \A i, j \in DOMAIN given'[l] :
           i < j => Before(given'[l][i], given'[l][j], sent')
    <2>1. \A l \in Kinds : \A i \in DOMAIN given[l] : given[l][i] \in D
      BY <1>5 DEF GivenOf
    <2> QED
      BY <1>2, <1>4, <2>1 DEF PubSubInv, EventsOnceInOrder
  <1>11. \A l, m \in Kinds : l # m => Numbers(buffer'[l]) \cap Numbers(buffer'[m]) = {}
    BY <1>2 DEF PubSubInv, OrderOK
  <1>12. CASE events' = [events EXCEPT ![exec] = Append(@, e)] /\ dropped' = dropped
    <2>1. \A x \in Numbers(events[exec]) : Before(x, e.n, sent')
      BY <1>0, <1>1, <1>4, <1>5
    <2>2. /\ events'[exec] \in Seq(Events)
          /\ Numbers(events'[exec]) = Numbers(events[exec]) \cup {new}
          /\ Rising(events'[exec], sent')
      <3>1. events[exec] \in Seq(Events) /\ events'[exec] = Append(events[exec], e)
        BY <1>0, <1>3, <1>12
      <3> QED
        BY <1>0, <1>1, <1>9, <2>1, <3>1, NumbersAppend
    <2>3. \A a \in Executors : a # exec => events'[a] = events[a]
      BY <1>3, <1>12
    <2>4. events' \in [Executors -> Seq(Events)]
      BY <1>0, <1>3, <1>12, <2>2
    <2>5. InQueues' = InQueues \cup {new}
      BY <1>0, <2>2, <2>3 DEF InQueues
    <2>6. EventTypes'
      BY <1>1, <1>2, <1>3, <1>4, <1>12, <2>4 DEF PubSubInv, PubSubTypeOK, EventTypes
    <2>7. \A a \in Executors : /\ Rising(events'[a], sent')
                               /\ \A y \in Numbers(events'[a]) : sent'[y] = a
      BY <1>0, <1>4, <1>9, <2>2, <2>3
    <2>8. \A x \in Given' \cup InBuffers' \cup InHands', y \in InQueues' : Before(x, y, sent')
      BY <1>2, <1>4, <1>5, <1>8, <2>5
    <2>9. OrderOK'
      BY <1>6, <1>7, <1>11, <2>7, <2>8 DEF OrderOK
    <2>10. EventsOnceInOrder'
      BY <1>2, <1>3, <1>5, <1>10, <1>12, <2>5 DEF PubSubInv, EventsOnceInOrder, D
    <2> QED
      BY <2>6, <2>9, <2>10
  <1>13. CASE events' = events /\ dropped' = dropped \cup {new}
    <2>1. EventTypes'
      BY <1>1, <1>2, <1>3, <1>4, <1>13 DEF PubSubInv, PubSubTypeOK, EventTypes
    <2>2. InQueues' = InQueues
      BY <1>13 DEF InQueues
    <2>3. OrderOK'
      BY <1>6, <1>7, <1>8, <1>9, <1>11, <1>13, <2>2 DEF OrderOK
    <2>4. EventsOnceInOrder'
      BY <1>2, <1>3, <1>5, <1>10, <1>13, <2>2 DEF PubSubInv, EventsOnceInOrder, D
    <2> QED
      BY <2>1, <2>3, <2>4
  <1> QED
    BY <1>12, <1>13 DEF DeliverEvent, e, new

\* The reader takes the first event of the queue it reads.
LEMMA TakeKept ==
    ASSUME PubSubInv, NEW c \in Readers, TakeEvent(c)
    PROVE  EventTypes' /\ OrderOK' /\ EventsOnceInOrder'
  <1> DEFINE q == events[reading]
             h == Head(q)
  <1>1. /\ reading \in Executors /\ events \in [Executors -> Seq(Events)]
        /\ q \in Seq(Events) /\ q # <<>> /\ Rising(q, sent)
        /\ events' = [events EXCEPT ![reading] = Tail(q)]
    BY DEF TakeEvent, PubSubInv, PubSubTypeOK, EventTypes, ChannelTypes, OrderOK
  <1>2. /\ h \in Events /\ Tail(q) \in Seq(Events) /\ Numbers(q) = {h.n} \cup Numbers(Tail(q))
        /\ Rising(Tail(q), sent) /\ \A x \in Numbers(Tail(q)) : Before(h.n, x, sent)
    BY <1>1, NumbersTail
  <1>3. /\ events'[reading] = Tail(q) /\ \A a \in Executors : a # reading => events'[a] = events[a]
        /\ events' \in [Executors -> Seq(Events)]
    BY <1>1, <1>2
  <1>4. /\ buffer' = buffer /\ given' = given /\ dropped' = dropped /\ sent' = sent
        /\ InBuffers' = InBuffers /\ Given' = Given /\ \A l \in Kinds : GivenOf(l)' = GivenOf(l)
    BY DEF TakeEvent, InBuffers, Given, GivenOf, Numbers
  <1>5. h # NoEvent
    BY <1>2, PubSubConstants DEF Events, NoEvent
  <1>6. \A r \in Readers : held[r] = NoEvent
    <2>1. eventReading = c /\ at[c] # "got"
      BY DEF TakeEvent, PubSubInv, ReadingOK
    <2> QED
      BY <2>1 DEF PubSubInv, ReadingOK
  <1>7. \A r \in Readers : held'[r] = IF r = c THEN h ELSE NoEvent
    BY <1>6 DEF TakeEvent, PubSubInv, PubSubTypeOK, ReaderTypes
  <1>8. InHands = {} /\ InHands' = {h.n}
    BY <1>5, <1>6, <1>7 DEF InHands
  <1>9. h.n \in Numbers(events[reading]) /\ h.n \in InQueues /\ h.n \in 1..Len(sent)
    BY <1>1, <1>2, EventFacts
  <1>10. Numbers(events'[reading]) \subseteq Numbers(events[reading])
         /\ Numbers(events[reading]) = {h.n} \cup Numbers(events'[reading])
         /\ Rising(events'[reading], sent)
         /\ \A x \in Numbers(events'[reading]) : Before(h.n, x, sent)
    BY <1>2, <1>3
  <1>11. sent[h.n] = reading /\ \A a \in Executors : \A y \in Numbers(events[a]) : sent[y] = a
    BY <1>1, <1>9 DEF PubSubInv, OrderOK
  <1> HIDE DEF q, h
  <1>12. InQueues = {h.n} \cup InQueues' /\ InQueues' \subseteq InQueues
    BY <1>1, <1>3, <1>10 DEF InQueues
  <1>13. \A y \in InQueues' : Before(h.n, y, sent)
    <2>1. ASSUME NEW a \in Executors, NEW y \in Numbers(events'[a]) PROVE Before(h.n, y, sent)
      <3>1. CASE a = reading
        BY <1>10, <2>1, <3>1
      <3>2. CASE a # reading
        <4>1. sent[y] = a
          BY <1>3, <1>11, <2>1, <3>2
        <4> QED
          BY <1>11, <3>2, <4>1 DEF Before
      <3> QED
        BY <3>1, <3>2
    <2> QED
      BY <2>1 DEF InQueues
  <1>14. h.n \notin InQueues'
    BY <1>9, <1>13, BeforeIsOther
  <1>15. EventTypes'
    BY <1>3, <1>4 DEF PubSubInv, PubSubTypeOK, EventTypes
  <1>16. OrderOK'
    <2>1. \A a \in Executors : /\ Rising(events'[a], sent)
                               /\ \A y \in Numbers(events'[a]) : sent[y] = a
      <3>1. \A a \in Executors : Rising(events[a], sent)
        BY DEF PubSubInv, OrderOK
      <3>2. \A a \in Executors : Rising(events'[a], sent)
        BY <1>3, <1>10, <3>1
      <3>3. \A a \in Executors : Numbers(events'[a]) \subseteq Numbers(events[a])
        BY <1>3, <1>10
      <3> QED
        BY <1>11, <3>2, <3>3
    <2>2. \A x \in Given \cup InBuffers \cup {h.n}, y \in InQueues' : Before(x, y, sent)
      BY <1>12, <1>13 DEF PubSubInv, OrderOK
    <2>3. \A x \in Given \cup InBuffers, y \in {h.n} : Before(x, y, sent)
      BY <1>9 DEF PubSubInv, OrderOK
    <2>4. /\ \A k \in Kinds : /\ Rising(buffer[k], sent)
                              /\ \A x \in GivenOf(k), y \in Numbers(buffer[k]) : Before(x, y, sent)
          /\ \A k, l \in Kinds : k # l => Numbers(buffer[k]) \cap Numbers(buffer[l]) = {}
      BY DEF PubSubInv, OrderOK
    <2> QED
      BY <1>4, <1>8, <2>1, <2>2, <2>3, <2>4 DEF OrderOK
  <1>17. EventsOnceInOrder'
    BY <1>4, <1>8, <1>12, <1>14 DEF PubSubInv, EventsOnceInOrder
  <1> QED
    BY <1>15, <1>16, <1>17

\* An event of a buffer is given to a caller.
LEMMA PopKept ==
    ASSUME PubSubInv, NEW c \in Readers, NEW k \in Kinds, Pop(c, k)
    PROVE  EventTypes' /\ OrderOK' /\ EventsOnceInOrder'
  <1> DEFINE s == buffer[k]
             h == Head(s).n
  <1>1. s \in Seq(Events) /\ s # <<>> /\ Rising(s, sent)
    BY EventFacts DEF Pop, PubSubInv, OrderOK
  <1>2. /\ Head(s) \in Events /\ Tail(s) \in Seq(Events) /\ Numbers(s) = {h} \cup Numbers(Tail(s))
        /\ Rising(Tail(s), sent) /\ \A x \in Numbers(Tail(s)) : Before(h, x, sent)
    BY <1>1, NumbersTail
  <1>3. h \in 1..MaxEvents
    BY <1>2 DEF Events
  <1>4. /\ buffer' \in [Kinds -> Seq(Events)] /\ buffer'[k] = Tail(s)
        /\ \A l \in Kinds : l # k => buffer'[l] = buffer[l]
    BY <1>2 DEF Pop, PubSubInv, PubSubTypeOK, EventTypes
  <1>5. given' = [given EXCEPT ![k] = Append(@, h)]
    BY DEF Pop
  <1>6. /\ UNCHANGED <<events, held, dropped, sent>> /\ InHands' = InHands
    BY DEF Pop, InHands, net
  <1> HIDE DEF h, s
  <1>7. /\ Numbers(buffer[k]) = {h} \cup Numbers(buffer'[k]) /\ Rising(buffer'[k], sent)
        /\ \A x \in Numbers(buffer'[k]) : Before(h, x, sent)
    BY <1>2, <1>4 DEF s
  <1>8. \A l \in Kinds : l # k => h \notin Numbers(buffer[l])
    BY <1>7 DEF PubSubInv, OrderOK
  <1>9. h \notin Numbers(buffer'[k])
    <2>1. ASSUME h \in Numbers(buffer'[k]) PROVE FALSE
      BY <1>3, <1>7, <2>1, BeforeIsOther
    <2> QED BY <2>1
  <1>10. InBuffers = {h} \cup InBuffers' /\ h \notin InBuffers'
    BY <1>4, <1>7, <1>8, <1>9 DEF InBuffers
  <1>11. \A x \in GivenOf(k) : Before(x, h, sent)
    BY <1>7 DEF PubSubInv, OrderOK
  <1>12. /\ given' \in [Kinds -> Seq(1..MaxEvents)]
         /\ GivenOf(k)' = GivenOf(k) \cup {h} /\ Given' = Given \cup {h}
         /\ \A l \in Kinds : l # k => GivenOf(l)' = GivenOf(l)
         /\ \A l \in Kinds : \A i, j \in DOMAIN given'[l] : 
                i < j => Before(given'[l][i], given'[l][j], sent)
    BY <1>3, <1>5, <1>11, GivenTo
  <1>14. EventTypes'
    BY <1>4, <1>6, <1>12 DEF PubSubInv, PubSubTypeOK, EventTypes
  <1>15. OrderOK'
    <2>1. \A l \in Kinds : Rising(buffer'[l], sent) /\
            Numbers(buffer'[l]) \subseteq Numbers(buffer[l])
      BY <1>4, <1>7 DEF PubSubInv, OrderOK
    <2>2. \A l \in Kinds : \A x \in GivenOf(l)', y \in Numbers(buffer'[l]) : Before(x, y, sent)
      <3>1. ASSUME NEW l \in Kinds, NEW x \in GivenOf(l)', NEW y \in Numbers(buffer'[l])
            PROVE  Before(x, y, sent)
        <4>1. \A z \in GivenOf(l) : Before(z, y, sent)
          BY <2>1 DEF PubSubInv, OrderOK
        <4> QED
          BY <1>7, <1>12, <4>1
      <3> QED BY <3>1
    <2>3. Given' \cup InBuffers' = Given \cup InBuffers
      BY <1>10, <1>12
    <2>4. InQueues' = InQueues
      BY <1>6 DEF InQueues
    <2>5. \A l, m \in Kinds : l # m => Numbers(buffer'[l]) \cap Numbers(buffer'[m]) = {}
      BY <2>1 DEF PubSubInv, OrderOK
    <2>6. /\ \A e \in Executors : /\ Rising(events'[e], sent')
                                  /\ \A y \in Numbers(events'[e]) : sent'[y] = e
          /\ \A x \in Given' \cup InBuffers' \cup InHands', y \in InQueues' : Before(x, y, sent')
          /\ \A x \in Given' \cup InBuffers', y \in InHands' : Before(x, y, sent')
      BY <1>6, <2>3, <2>4 DEF PubSubInv, OrderOK
    <2> QED
      BY <1>6, <2>1, <2>2, <2>5, <2>6 DEF OrderOK
  <1>16. EventsOnceInOrder'
    <2>2. InQueues' = InQueues
      BY <1>6 DEF InQueues
    <2>3. h \notin InQueues /\ h \notin InHands /\ h \notin dropped
      <3>1. h \in InBuffers
        BY <1>10
      <3>2. ASSUME h \in InQueues \cup InHands PROVE FALSE
        <4>1. Before(h, h, sent)
          BY <3>1, <3>2 DEF PubSubInv, OrderOK
        <4> QED
          BY <1>3, <4>1, BeforeIsOther
      <3> QED
        BY <3>1, <3>2 DEF PubSubInv, EventsOnceInOrder
    <2> QED
      BY <1>6, <1>10, <1>12, <2>2, <2>3 DEF PubSubInv, EventsOnceInOrder
  <1> QED
    BY <1>14, <1>15, <1>16

\* The reader gives its event to its own caller, or keeps it for another, or drops it.
LEMMA DispatchKept ==
    ASSUME PubSubInv, NEW c \in Readers, Dispatch(c)
    PROVE  EventTypes' /\ OrderOK' /\ EventsOnceInOrder'
  <1>0. eventReading = c /\ held[c] # NoEvent /\ buffer[want[c]] = <<>>
    BY DEF Dispatch, PubSubInv, ReadingOK
  <1>1. PICK e \in Events : e = held[c]
    BY <1>0 DEF PubSubInv, PubSubTypeOK, ReaderTypes
  <1>2. PICK k \in Kinds : k = e.kind /\ e.n \in 1..MaxEvents
    BY DEF Events
  <1>3. \A r \in Readers : r # c => held[r] = NoEvent
    BY <1>0 DEF PubSubInv, ReadingOK
  <1>4. \A r \in Readers : held'[r] = NoEvent
    BY <1>3 DEF Dispatch, PubSubInv, PubSubTypeOK, ReaderTypes
  <1>5. InHands = {e.n} /\ InHands' = {}
    BY <1>0, <1>1, <1>3, <1>4 DEF InHands
  <1>6. UNCHANGED <<events, sent>> /\ InQueues' = InQueues
    BY DEF Dispatch, net, InQueues
  <1>7. /\ \A x \in Given \cup InBuffers : Before(x, e.n, sent)
        /\ e.n \notin Given /\ e.n \notin InBuffers /\ e.n \notin InQueues /\
             e.n \notin dropped
        /\ \A y \in InQueues : Before(e.n, y, sent)
    <2>1. e.n \in InHands
      BY <1>5
    <2>2. /\ \A x \in Given \cup InBuffers : Before(x, e.n, sent)
          /\ \A y \in InQueues : Before(e.n, y, sent)
      BY <2>1 DEF PubSubInv, OrderOK
    <2>3. ASSUME e.n \in Given \cup InBuffers \cup InQueues PROVE FALSE
      BY <1>2, <2>2, <2>3, BeforeIsOther
    <2>4. e.n \notin dropped
      BY <2>1 DEF PubSubInv, EventsOnceInOrder
    <2> QED
      BY <2>2, <2>3, <2>4
  <1>8. /\ buffer \in [Kinds -> Seq(Events)] /\ given \in [Kinds -> Seq(1..MaxEvents)]
        /\ dropped \subseteq 1..MaxEvents /\ events \in [Executors -> Seq(Events)]
        /\ sent \in Seq(Executors) /\ Len(sent) <= MaxEvents
    BY DEF PubSubInv, PubSubTypeOK, EventTypes
  <1>9. CASE /\ e.kind = want[c] /\ given' = [given EXCEPT ![k] = Append(@, e.n)]
             /\ UNCHANGED <<buffer, dropped>>
    <2>3. /\ given' \in [Kinds -> Seq(1..MaxEvents)]
          /\ GivenOf(k)' = GivenOf(k) \cup {e.n} /\ Given' = Given \cup {e.n}
          /\ \A l \in Kinds : l # k => GivenOf(l)' = GivenOf(l)
          /\ \A l \in Kinds : \A i, j \in DOMAIN given'[l] : 
                i < j => Before(given'[l][i], given'[l][j], sent)
      <3>1. \A x \in GivenOf(k) : Before(x, e.n, sent)
        BY <1>2, <1>7, EventFacts
      <3>2. given' = [given EXCEPT ![k] = Append(@, e.n)]
        BY <1>9
      <3> QED
        BY <1>2, <3>1, <3>2, GivenTo
    <2>4. InBuffers' = InBuffers /\ Numbers(buffer[k]) = {}
      BY <1>0, <1>2, <1>9, NumbersEmpty DEF InBuffers
    <2>5. EventTypes'
      BY <1>6, <1>8, <1>9, <2>3 DEF EventTypes
    <2>6. OrderOK'
      <3>1. \A l \in Kinds : /\ Rising(buffer'[l], sent')
                             /\ \A x \in GivenOf(l)', y \in Numbers(buffer'[l]) : Before(x, y, sent')
        <4>1. ASSUME NEW l \in Kinds
              PROVE  /\ Rising(buffer[l], sent)
                     /\ \A x \in GivenOf(l), y \in Numbers(buffer[l]) : Before(x, y, sent)
          BY DEF PubSubInv, OrderOK
        <4> QED
          BY <1>6, <1>9, <2>3, <2>4, <4>1
      <3>2. \A x \in Given' \cup InBuffers' \cup InHands', y \in InQueues' : Before(x, y, sent')
        <4>1. \A x \in Given \cup InBuffers, y \in InQueues : Before(x, y, sent)
          BY DEF PubSubInv, OrderOK
        <4> QED
          BY <1>5, <1>6, <1>7, <2>3, <2>4, <4>1
      <3>3. /\ \A d \in Executors : /\ Rising(events'[d], sent')
                                    /\ \A y \in Numbers(events'[d]) : sent'[y] = d
            /\ \A l, m \in Kinds : l # m => Numbers(buffer'[l]) \cap Numbers(buffer'[m]) = {}
        BY <1>6, <1>9 DEF PubSubInv, OrderOK
      <3> QED
        BY <1>5, <3>1, <3>2, <3>3 DEF OrderOK
    <2>7. EventsOnceInOrder'
      BY <1>5, <1>6, <1>7, <1>9, <2>3, <2>4 DEF PubSubInv, EventsOnceInOrder
    <2> QED
      BY <2>5, <2>6, <2>7
  <1>10. CASE /\ buffer' = [buffer EXCEPT ![k] = Append(@, e)]
              /\ UNCHANGED <<given, dropped>>
    <2>1. /\ buffer'[k] = Append(buffer[k], e) /\ \A l \in Kinds : l # k => buffer'[l] = buffer[l]
          /\ buffer[k] \in Seq(Events)
      BY <1>2, <1>8, <1>10
    <2>2. /\ Numbers(buffer'[k]) = Numbers(buffer[k]) \cup {e.n} /\ buffer'[k] \in Seq(Events)
          /\ Rising(buffer'[k], sent)
      <3>1. Rising(buffer[k], sent) /\ \A x \in Numbers(buffer[k]) : Before(x, e.n, sent)
        BY <1>2, <1>7, EventFacts DEF PubSubInv, OrderOK
      <3> QED
        BY <1>2, <2>1, <3>1, NumbersAppend
    <2>3. /\ InBuffers' = InBuffers \cup {e.n} /\ Given' = Given
          /\ \A l \in Kinds : GivenOf(l)' = GivenOf(l)
      BY <1>2, <1>10, <2>1, <2>2 DEF InBuffers, Given, GivenOf
    <2>4. EventTypes'
      <3>1. buffer' \in [Kinds -> Seq(Events)]
        BY <1>2, <1>8, <1>10, <2>1, <2>2
      <3> QED
        BY <1>6, <1>8, <1>10, <3>1 DEF EventTypes
    <2>5. OrderOK'
      <3>1. \A l \in Kinds : /\ Rising(buffer'[l], sent)
                             /\ \A x \in GivenOf(l), y \in Numbers(buffer'[l]) : Before(x, y, sent)
        <4>1. ASSUME NEW l \in Kinds
              PROVE  /\ Rising(buffer[l], sent)
                     /\ \A x \in GivenOf(l), y \in Numbers(buffer[l]) : Before(x, y, sent)
          BY <4>1 DEF PubSubInv, OrderOK
        <4>2. \A x \in GivenOf(k) : Before(x, e.n, sent)
          BY <1>2, <1>7, EventFacts
        <4>3. \A x \in GivenOf(k), y \in Numbers(buffer'[k]) : Before(x, y, sent)
          BY <1>2, <2>2, <4>1, <4>2
        <4> QED
          BY <2>1, <2>2, <4>1, <4>3
      <3>2. \A l, m \in Kinds : l # m => Numbers(buffer'[l]) \cap Numbers(buffer'[m]) = {}
        <4>1. \A l \in Kinds : e.n \notin Numbers(buffer[l])
          BY <1>7, EventFacts
        <4>2. ASSUME NEW l \in Kinds, NEW m \in Kinds, l # m
              PROVE  Numbers(buffer'[l]) \cap Numbers(buffer'[m]) = {}
          <5>1. Numbers(buffer[l]) \cap Numbers(buffer[m]) = {}
            BY <4>2 DEF PubSubInv, OrderOK
          <5>2. CASE l = k
            BY <2>1, <2>2, <4>1, <4>2, <5>1, <5>2
          <5>3. CASE m = k
            BY <2>1, <2>2, <4>1, <4>2, <5>1, <5>3
          <5> QED
            BY <2>1, <5>1, <5>2, <5>3
        <4> QED
          BY <4>2
      <3> QED
        BY <1>5, <1>6, <1>7, <2>3, <3>1, <3>2 DEF PubSubInv, OrderOK
    <2>6. EventsOnceInOrder'
      BY <1>5, <1>6, <1>7, <1>10, <2>3 DEF PubSubInv, EventsOnceInOrder
    <2> QED
      BY <2>4, <2>5, <2>6
  <1>11. CASE buffer' = buffer /\ given' = given /\ dropped' = dropped \cup {e.n}
    <2>1. /\ InBuffers' = InBuffers /\ Given' = Given /\ \A l \in Kinds : GivenOf(l)' = GivenOf(l)
      BY <1>11 DEF InBuffers, Given, GivenOf
    <2>2. EventTypes'
      BY <1>2, <1>6, <1>8, <1>11 DEF EventTypes
    <2>3. OrderOK'
      BY <1>5, <1>6, <1>11, <2>1 DEF PubSubInv, OrderOK
    <2>4. EventsOnceInOrder'
      BY <1>5, <1>6, <1>7, <1>11, <2>1 DEF PubSubInv, EventsOnceInOrder
    <2> QED
      BY <2>2, <2>3, <2>4
  <1> QED
    BY <1>1, <1>2, <1>9, <1>10, <1>11 DEF Dispatch

\* A step that moves no event.
SameEventsHere == UNCHANGED <<events, buffer, given, held, dropped, sent>>

\* A step that moves no event keeps the invariants of the events.
LEMMA StillKept ==
    ASSUME PubSubInv, SameEventsHere
    PROVE  EventTypes' /\ OrderOK' /\ EventsOnceInOrder'
  <1>1. /\ events' = events /\ buffer' = buffer /\ given' = given /\ dropped' = dropped
        /\ sent' = sent /\ held' = held
    BY DEF SameEventsHere
  <1>2. /\ InBuffers' = InBuffers /\ InHands' = InHands /\ Given' = Given
        /\ InQueues' = InQueues /\ \A l \in Kinds : GivenOf(l)' = GivenOf(l)
    BY <1>1 DEF InQueues, InBuffers, InHands, Given, GivenOf
  <1> QED
    BY <1>1, <1>2 DEF PubSubInv, PubSubTypeOK, EventTypes, OrderOK, EventsOnceInOrder

\* The events keep their order.
LEMMA EventsKept == ASSUME PubSubInv, [PubSubNext]_pubSubVars PROVE (EventTypes /\ OrderOK /\
        EventsOnceInOrder)'
  <1>1. ASSUME Unseen PROVE (EventTypes /\ OrderOK /\ EventsOnceInOrder)'
    BY <1>1, StillKept DEF SameEventsHere, Unseen, SameEvents
  <1>2. ASSUME NEW k \in Kinds, DeliverEvent(k) PROVE (EventTypes /\ OrderOK /\ EventsOnceInOrder)'
    BY <1>2, DeliverKept
  <1>3. ASSUME NEW c \in Readers, NEW k \in Kinds, Pop(c, k) PROVE (EventTypes /\ OrderOK /\
                 EventsOnceInOrder)'
    BY <1>3, PopKept
  <1>4. ASSUME NEW c \in Readers, NEW k \in Kinds, BecomeReader(c, k) PROVE (EventTypes /\
                 OrderOK /\ EventsOnceInOrder)'
    BY <1>4, StillKept DEF SameEventsHere, BecomeReader, net
  <1>5. ASSUME NEW c \in Readers, NEW k \in Kinds, Park(c, k) PROVE (EventTypes /\ OrderOK /\
                 EventsOnceInOrder)'
    BY <1>5, StillKept DEF SameEventsHere, Park, net
  <1>6. ASSUME NEW c \in Readers, Unpark(c) PROVE (EventTypes /\ OrderOK /\ EventsOnceInOrder)'
    BY <1>6, StillKept DEF SameEventsHere, Unpark, net
  <1>7. ASSUME NEW c \in Readers, ParkedGivesUp(c) PROVE (EventTypes /\ OrderOK /\
                 EventsOnceInOrder)'
    BY <1>7, StillKept DEF SameEventsHere, ParkedGivesUp, net
  <1>8. ASSUME NEW c \in Readers, TakeEvent(c) PROVE (EventTypes /\ OrderOK /\ EventsOnceInOrder)'
    BY <1>8, TakeKept
  <1>9. ASSUME NEW c \in Readers, WaitOnConnection(c) PROVE (EventTypes /\ OrderOK /\
                 EventsOnceInOrder)'
    BY <1>9, StillKept DEF SameEventsHere, WaitOnConnection, net
  <1>10. ASSUME NEW c \in Readers, ConnectionDone(c) PROVE (EventTypes /\ OrderOK /\
                  EventsOnceInOrder)'
    BY <1>10, StillKept DEF SameEventsHere, ConnectionDone, net
  <1>11. ASSUME NEW c \in Readers, ReadFails(c) PROVE (EventTypes /\ OrderOK /\ EventsOnceInOrder)'
    BY <1>11, StillKept DEF SameEventsHere, ReadFails, net
  <1>12. ASSUME NEW c \in Readers, Dispatch(c) PROVE (EventTypes /\ OrderOK /\ EventsOnceInOrder)'
    BY <1>12, DispatchKept
  <1> QED
    BY ReaderSteps, <1>1, <1>2, <1>3, <1>4, <1>5, <1>6, <1>7, <1>8, <1>9, <1>10, <1>11,
         <1>12 DEF ReaderStep, PubSubInv, PubSubTypeOK

-----------------------------------------------------------------------------
(* The capacity of the queue and of the buffers.                              *)

\* A step that puts nothing into a buffer.
LEMMA NotFuller ==
    ASSUME PubSubInv, Slots' \subseteq Slots, \A a \in Executors : Len(events'[a]) <= BufferCapacity
    PROVE  (WithinCapacity /\ IsFiniteSet(Slots))'
  <1>1. /\ IsFiniteSet(Slots) /\ Cardinality(Slots) <= BufferCapacity /\ BufferCapacity \in Nat
    BY PubSubConstants DEF PubSubInv, PubSubTypeOK, WithinCapacity, Buffered
  <1>2. IsFiniteSet(Slots') /\ Cardinality(Slots') <= Cardinality(Slots)
    BY <1>1, FS_Subset
  <1>3. Cardinality(Slots') \in Nat /\ Cardinality(Slots) \in Nat
    BY <1>1, <1>2, FS_CardinalityType
  <1> QED
    BY <1>1, <1>2, <1>3 DEF WithinCapacity, Buffered

\* The bounds hold.
LEMMA CapacityKept == ASSUME PubSubInv, [PubSubNext]_pubSubVars PROVE (WithinCapacity /\
        IsFiniteSet(Slots))'
  <1>1. ASSUME Unseen PROVE (WithinCapacity /\ IsFiniteSet(Slots))'
    <2>1. Slots' = Slots /\ events' = events
      BY <1>1 DEF Unseen, SameEvents, Slots
    <2>2. \A a \in Executors : Len(events'[a]) <= BufferCapacity
      BY <2>1 DEF PubSubInv, PubSubTypeOK, WithinCapacity
    <2> QED
      BY <2>1, <2>2, NotFuller
  <1>2. ASSUME NEW k \in Kinds, DeliverEvent(k) PROVE (WithinCapacity /\ IsFiniteSet(Slots))'
    <2>1. Slots' = Slots
      BY <1>2 DEF DeliverEvent, Slots
    <2>2. \A a \in Executors : Len(events'[a]) <= BufferCapacity
      <3>1. /\ events \in [Executors -> Seq(Events)] /\ BufferCapacity \in Nat
            /\ \A a \in Executors : Len(events[a]) \in Nat /\ Len(events[a]) <= BufferCapacity
        BY PubSubConstants DEF PubSubInv, PubSubTypeOK, EventTypes, WithinCapacity
      <3>2. CASE events' = events
        BY <3>1, <3>2
      <3>3. CASE /\ events' = [events EXCEPT ![exec] =
                                 Append(@, [kind |-> k, n |-> Len(sent) + 1])]
                 /\ Len(events[exec]) < BufferCapacity
        <4>1. ASSUME NEW a \in Executors PROVE Len(events'[a]) <= BufferCapacity
          <5>1. CASE a = exec
            <6>1. /\ events'[a] = Append(events[a], [kind |-> k, n |-> Len(sent) + 1])
                  /\ events[a] \in Seq(Events)
              BY <3>1, <3>3, <5>1
            <6>2. Len(events'[a]) = Len(events[a]) + 1
              BY <6>1
            <6> QED
              BY <3>1, <3>3, <5>1, <6>2
          <5>2. CASE a # exec
            BY <3>1, <3>3, <5>2
          <5> QED
            BY <5>1, <5>2
        <4> QED
          BY <4>1
      <3> QED
        BY <1>2, <3>2, <3>3 DEF DeliverEvent
    <2> QED
      BY <2>1, <2>2, NotFuller
  <1>3. ASSUME NEW c \in Readers, NEW k \in Kinds, Pop(c, k) PROVE (WithinCapacity /\
                 IsFiniteSet(Slots))'
    <2>1. buffer[k] \in Seq(Events) /\ buffer[k] # <<>> /\ events' = events
      BY <1>3, EventFacts DEF Pop, net
    <2>2. /\ buffer'[k] = Tail(buffer[k]) /\ \A l \in Kinds : l # k => buffer'[l] = buffer[l]
      BY <1>3 DEF Pop, PubSubInv, PubSubTypeOK, EventTypes
    <2>3. DOMAIN buffer'[k] \subseteq DOMAIN buffer[k]
      BY <2>1, <2>2
    <2>4. \A l \in Kinds : DOMAIN buffer'[l] \subseteq DOMAIN buffer[l]
      BY <2>2, <2>3
    <2>5. Slots' \subseteq Slots
      BY <2>4 DEF Slots
    <2>6. \A a \in Executors : Len(events'[a]) <= BufferCapacity
      BY <2>1 DEF PubSubInv, PubSubTypeOK, WithinCapacity
    <2> QED
      BY <2>5, <2>6, NotFuller
  <1>4. ASSUME NEW c \in Readers, NEW k \in Kinds, BecomeReader(c, k) PROVE (WithinCapacity /\
                 IsFiniteSet(Slots))'
    <2>1. Slots' = Slots /\ events' = events
      BY <1>4 DEF BecomeReader, net, Slots
    <2>2. \A a \in Executors : Len(events'[a]) <= BufferCapacity
      BY <2>1 DEF PubSubInv, PubSubTypeOK, WithinCapacity
    <2> QED
      BY <2>1, <2>2, NotFuller
  <1>5. ASSUME NEW c \in Readers, NEW k \in Kinds, Park(c, k) PROVE (WithinCapacity /\
                 IsFiniteSet(Slots))'
    <2>1. Slots' = Slots /\ events' = events
      BY <1>5 DEF Park, net, Slots
    <2>2. \A a \in Executors : Len(events'[a]) <= BufferCapacity
      BY <2>1 DEF PubSubInv, PubSubTypeOK, WithinCapacity
    <2> QED
      BY <2>1, <2>2, NotFuller
  <1>6. ASSUME NEW c \in Readers, Unpark(c) PROVE (WithinCapacity /\ IsFiniteSet(Slots))'
    <2>1. Slots' = Slots /\ events' = events
      BY <1>6 DEF Unpark, net, Slots
    <2>2. \A a \in Executors : Len(events'[a]) <= BufferCapacity
      BY <2>1 DEF PubSubInv, PubSubTypeOK, WithinCapacity
    <2> QED
      BY <2>1, <2>2, NotFuller
  <1>7. ASSUME NEW c \in Readers, ParkedGivesUp(c) PROVE (WithinCapacity /\ IsFiniteSet(Slots))'
    <2>1. Slots' = Slots /\ events' = events
      BY <1>7 DEF ParkedGivesUp, net, Slots
    <2>2. \A a \in Executors : Len(events'[a]) <= BufferCapacity
      BY <2>1 DEF PubSubInv, PubSubTypeOK, WithinCapacity
    <2> QED
      BY <2>1, <2>2, NotFuller
  <1>8. ASSUME NEW c \in Readers, TakeEvent(c) PROVE (WithinCapacity /\ IsFiniteSet(Slots))'
    <2>1. /\ Slots' = Slots /\ reading \in Executors /\ events \in [Executors -> Seq(Events)]
          /\ events' = [events EXCEPT ![reading] = Tail(@)] /\ events[reading] # <<>>
      BY <1>8 DEF TakeEvent, Slots, PubSubInv, PubSubTypeOK, EventTypes, ChannelTypes
    <2>2. Len(Tail(events[reading])) <= Len(events[reading]) /\ Len(events[reading]) \in Nat
          /\ Len(Tail(events[reading])) \in Nat
      BY <2>1
    <2>3. \A a \in Executors : Len(events[a]) \in Nat /\ Len(events[a]) <= BufferCapacity
      BY <2>1 DEF PubSubInv, PubSubTypeOK, WithinCapacity
    <2>4. \A a \in Executors : events'[a] = IF a = reading THEN Tail(events[a]) ELSE events[a]
      BY <2>1
    <2>5. \A a \in Executors : Len(events'[a]) <= BufferCapacity
      BY <2>1, <2>2, <2>3, <2>4, PubSubConstants
    <2> QED
      BY <2>1, <2>5, NotFuller
  <1>9. ASSUME NEW c \in Readers, WaitOnConnection(c) PROVE (WithinCapacity /\ IsFiniteSet(Slots))'
    <2>1. Slots' = Slots /\ events' = events
      BY <1>9 DEF WaitOnConnection, net, Slots
    <2>2. \A a \in Executors : Len(events'[a]) <= BufferCapacity
      BY <2>1 DEF PubSubInv, PubSubTypeOK, WithinCapacity
    <2> QED
      BY <2>1, <2>2, NotFuller
  <1>10. ASSUME NEW c \in Readers, ConnectionDone(c) PROVE (WithinCapacity /\ IsFiniteSet(Slots))'
    <2>1. Slots' = Slots /\ events' = events
      BY <1>10 DEF ConnectionDone, net, Slots
    <2>2. \A a \in Executors : Len(events'[a]) <= BufferCapacity
      BY <2>1 DEF PubSubInv, PubSubTypeOK, WithinCapacity
    <2> QED
      BY <2>1, <2>2, NotFuller
  <1>11. ASSUME NEW c \in Readers, ReadFails(c) PROVE (WithinCapacity /\ IsFiniteSet(Slots))'
    <2>1. Slots' = Slots /\ events' = events
      BY <1>11 DEF ReadFails, net, Slots
    <2>2. \A a \in Executors : Len(events'[a]) <= BufferCapacity
      BY <2>1 DEF PubSubInv, PubSubTypeOK, WithinCapacity
    <2> QED
      BY <2>1, <2>2, NotFuller
  <1>12. ASSUME NEW c \in Readers, Dispatch(c) PROVE (WithinCapacity /\ IsFiniteSet(Slots))'
    <2>1. events' = events /\ \A a \in Executors : Len(events'[a]) <= BufferCapacity
      BY <1>12 DEF Dispatch, net, PubSubInv, PubSubTypeOK, WithinCapacity
    <2>2. CASE buffer' = buffer
      BY <2>1, <2>2, NotFuller DEF Slots
    <2>3. CASE buffer' # buffer
      <3>1. PICK e : e = held[c]
        OBVIOUS
      <3>2. /\ buffer' = [buffer EXCEPT ![e.kind] = Append(@, e)] /\
                 Cardinality(Slots) < BufferCapacity
        BY <1>12, <2>3, <3>1 DEF Dispatch, Buffered
      <3>3. e \in Events
        BY <1>12, <3>1 DEF Dispatch, PubSubInv, PubSubTypeOK, ReaderTypes, ReadingOK
      <3>4. PICK k \in Kinds : k = e.kind
        BY <3>3 DEF Events
      <3>5. /\ buffer'[k] = Append(buffer[k], e) /\ \A l \in Kinds : l # k => buffer'[l] = buffer[l]
            /\ buffer[k] \in Seq(Events)
        BY <3>2, <3>4 DEF PubSubInv, PubSubTypeOK, EventTypes
      <3> DEFINE p == <<k, Len(buffer[k]) + 1>>
      <3>6. DOMAIN buffer'[k] = DOMAIN buffer[k] \cup {Len(buffer[k]) + 1}
        BY <3>3, <3>5
      <3>7. Slots' \subseteq Slots \cup {p}
        BY <3>5, <3>6 DEF Slots
      <3> HIDE DEF p
      <3>8. IsFiniteSet(Slots) /\ Cardinality(Slots) \in Nat /\ BufferCapacity \in Nat
        BY FS_CardinalityType, PubSubConstants DEF PubSubInv
      <3>9. /\ IsFiniteSet(Slots \cup {p}) /\ Cardinality(Slots \cup {p}) <= Cardinality(Slots) + 1
            /\ Cardinality(Slots \cup {p}) \in Nat
        <4>1. /\ IsFiniteSet(Slots \cup {p})
              /\ Cardinality(Slots \cup {p}) =
                   IF p \in Slots THEN Cardinality(Slots) ELSE Cardinality(Slots) + 1
          BY <3>8, FS_AddElement, Zenon
        <4> QED
          BY <3>8, <4>1
      <3>10. IsFiniteSet(Slots') /\ Cardinality(Slots') <= Cardinality(Slots \cup {p})
        BY <3>7, <3>9, FS_Subset
      <3>11. Cardinality(Slots') \in Nat
        BY <3>10, FS_CardinalityType
      <3> QED
        BY <2>1, <3>2, <3>8, <3>9, <3>10, <3>11 DEF WithinCapacity, Buffered
    <2> QED
      BY <2>2, <2>3
  <1> QED
    BY ReaderSteps, <1>1, <1>2, <1>3, <1>4, <1>5, <1>6, <1>7, <1>8, <1>9, <1>10, <1>11,
         <1>12 DEF ReaderStep, PubSubInv, PubSubTypeOK

-----------------------------------------------------------------------------
(* The results.                                                               *)

\* The invariant holds initially.
LEMMA PubSubStarts == ASSUME PubSubInit PROVE PubSubInv
  <1> USE PubSubConstants DEF PubSubInit
  <1>1. ViewTypes
    BY NoReplayFields DEF ViewTypes, ReplayTypes, Users
  <1>2. ReaderTypes /\ EventTypes /\ ChannelTypes
    BY DEF ReaderTypes, EventTypes, ChannelTypes
  <1>3. Slots = {}
    BY DEF Slots
  <1>4. WithinCapacity /\ IsFiniteSet(Slots)
    BY <1>3, FS_EmptySet DEF WithinCapacity, Buffered
  <1>5. HolderOK
    BY DEF HolderOK, Users, UnderReplayMu
  <1>6. StampsOK
    BY NoReplayFields DEF StampsOK
  <1>7. SubscribedOK
    BY DEF SubscribedOK, Covered, Users
  <1>8. ReadingOK
    BY DEF ReadingOK, Users
  <1>9. /\ InQueues = {} /\ InBuffers = {} /\ InHands = {} /\ Given = {}
        /\ \A e \in Executors : Rising(events[e], sent) /\ Numbers(events[e]) = {}
    BY NumbersEmpty DEF InQueues, InBuffers, InHands, Given, GivenOf
  <1>10. OrderOK
    BY <1>9, NumbersEmpty DEF OrderOK
  <1>11. EventsOnceInOrder
    BY <1>9 DEF EventsOnceInOrder
  <1>12. ParkedAreRemembered
    BY DEF ParkedAreRemembered, Users
  <1> QED
    BY <1>1, <1>2, <1>4, <1>5, <1>6, <1>7, <1>8, <1>10, <1>11, <1>12 DEF PubSubInv, PubSubTypeOK

\* The invariant of the publish/subscribe view: the types, the one holder of replayMu
\* and what it has established, the one reader, and where each event is.
THEOREM PubSubInvariant == PubSubSpec => []PubSubInv
  <1>1. PubSubInit => PubSubInv
    BY PubSubStarts
  <1>2. PubSubInv /\ [PubSubNext]_pubSubVars => PubSubInv'
    BY ViewTypesKept, HolderKept, StampsKept, SubscribedKept, ReaderTypesKept, ReadingKept,
       ParkedKept, EventsKept, ExecutorsKept, CapacityKept
       DEF PubSubInv, PubSubTypeOK
  <1> QED
    BY <1>1, <1>2, PTL DEF PubSubSpec

\* While nobody holds replayMu, a view whose stamp is the current connection is subscribed
\* there to everything it tracks, whatever connections were lost and replaced under the
\* replays and requests before (pubsub.go:377).
THEOREM SubscriptionsFollowTheConnection == PubSubSpec => []StampMeansSubscribed
  <1>1. PubSubInv => StampMeansSubscribed
    BY PubSubConstants
       DEF PubSubInv, HolderOK, SubscribedOK, Covered, StampMeansSubscribed, UnderReplayMu, Users
  <1> QED
    BY <1>1, PubSubInvariant, PTL

\* Every event is given once, in the order of its executor, to a caller that asked for its
\* kind, or is counted as dropped, or is still in a queue, which may be that of an executor
\* the view has left; a parked caller has a reader that will wake it (pubsub_events.go:27).
THEOREM EventsAreGivenOnce == PubSubSpec => []EventsReachCallers
  <1>1. PubSubInv => EventsReachCallers
    BY DEF PubSubInv, EventsReachCallers
  <1> QED
    BY <1>1, PubSubInvariant, PTL

\* The event queue and the buffers together with it stay within nativeEventBufferCapacity.
THEOREM EventsWithinCapacity == PubSubSpec => []WithinCapacity
  <1>1. PubSubInv => WithinCapacity
    BY DEF PubSubInv, PubSubTypeOK
  <1> QED
    BY <1>1, PubSubInvariant, PTL

=============================================================================
