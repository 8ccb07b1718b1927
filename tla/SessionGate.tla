---------------------------- MODULE SessionGate ----------------------------
(* The context-aware, writer-preferring reader/writer gate of session.go.     *)
(*                                                                            *)
(* A transaction (lock/unlock) holds the writer side, an ordinary multiplexed *)
(* request (readLock/readUnlock) the reader side.  Every critical section of  *)
(* g.mu is one action: the mutex is never held across a blocking operation.   *)
(*                                                                            *)
(* The channel g.changed is modelled by what a goroutine can observe of it.   *)
(* A goroutine that sleeps on the channel it captured has woken[c] = FALSE    *)
(* until signalLocked closes that channel.  signalLocked always closes the    *)
(* current channel and installs a new one, so a sleeper holds either the      *)
(* current channel or a closed one, and one Boolean per sleeper is all there  *)
(* is to know.  A nil channel is one that nobody sleeps on.                   *)
EXTENDS Integers, FiniteSets

CONSTANT Callers    \* the goroutines that use the gate

ASSUME CallersFinite == IsFiniteSet(Callers)

VARIABLES
    readers,         \* g.readers
    writer,          \* g.writer
    waitingWriters,  \* g.waitingWriters
    pc,              \* where each goroutine is
    woken,           \* the channel a sleeper captured has been closed
    cancelled        \* ctx.Done() of the goroutine's current call

vars == <<readers, writer, waitingWriters, pc, woken, cancelled>>

PCs == {"idle",
        "rTry", "rWait", "reading",           \* readLock
        "wNew", "wTry", "wWait", "wDereg",    \* lock, and its deferred function
        "writing"}

\* Goroutines counted by g.waitingWriters: lock() registered and has neither
\* acquired the gate nor run its deferred deregistration.
Registered == {"wTry", "wWait", "wDereg"}

At(S) == {c \in Callers : pc[c] \in S}

TypeOK ==
    /\ readers \in Nat
    /\ writer \in BOOLEAN
    /\ waitingWriters \in Nat
    /\ pc \in [Callers -> PCs]
    /\ woken \in [Callers -> BOOLEAN]
    /\ cancelled \in [Callers -> BOOLEAN]

Init ==
    /\ readers = 0
    /\ writer = FALSE
    /\ waitingWriters = 0
    /\ pc = [c \in Callers |-> "idle"]
    /\ woken = [c \in Callers |-> FALSE]
    /\ cancelled = [c \in Callers |-> FALSE]

Goto(c, label) == pc' = [pc EXCEPT ![c] = label]

\* signalLocked: close the current channel, wake everyone who captured it.
signalLocked == woken' = [c \in Callers |-> pc[c] \in {"rWait", "wWait"} \/ woken[c]]

\* changedLocked: c captures the channel that is current now.
changedLocked(c) == woken' = [woken EXCEPT ![c] = FALSE]

----------------------------------------------------------------------------
\* A goroutine starts a call with a live context.  The check of ctx.Err() on
\* entry is repeated under the mutex, by the first Try step.
BeginRead(c) ==
    /\ pc[c] = "idle"
    /\ Goto(c, "rTry")
    /\ cancelled' = [cancelled EXCEPT ![c] = FALSE]
    /\ UNCHANGED <<readers, writer, waitingWriters, woken>>

BeginWrite(c) ==
    /\ pc[c] = "idle"
    /\ Goto(c, "wNew")
    /\ cancelled' = [cancelled EXCEPT ![c] = FALSE]
    /\ UNCHANGED <<readers, writer, waitingWriters, woken>>

\* The context of a call in progress is cancelled or its deadline passes.
Cancel(c) ==
    /\ pc[c] \in {"rTry", "rWait", "wNew", "wTry", "wWait"}
    /\ ~cancelled[c]
    /\ cancelled' = [cancelled EXCEPT ![c] = TRUE]
    /\ UNCHANGED <<readers, writer, waitingWriters, pc, woken>>

\* One iteration of readLock's loop under g.mu: give up, enter, or go to sleep
\* on the channel captured before the mutex is released.
ReadTry(c) ==
    /\ pc[c] = "rTry"
    /\ \/ /\ cancelled[c]
          /\ Goto(c, "idle")
          /\ UNCHANGED <<readers, woken>>
       \/ /\ ~cancelled[c]
          /\ ~writer /\ waitingWriters = 0
          /\ readers' = readers + 1
          /\ Goto(c, "reading")
          /\ UNCHANGED woken
       \/ /\ ~cancelled[c]
          /\ writer \/ waitingWriters # 0
          /\ changedLocked(c)
          /\ Goto(c, "rWait")
          /\ UNCHANGED readers
    /\ UNCHANGED <<writer, waitingWriters, cancelled>>

\* The select at the end of the loop: both cases may be ready, Go picks either.
ReadWake(c) ==
    /\ pc[c] = "rWait"
    /\ \/ woken[c] /\ Goto(c, "rTry")
       \/ cancelled[c] /\ Goto(c, "idle")
    /\ UNCHANGED <<readers, writer, waitingWriters, woken, cancelled>>

\* tryReadLock returns at once; only its success changes the state.
TryReadLock(c) ==
    /\ pc[c] = "idle"
    /\ ~writer /\ waitingWriters = 0
    /\ readers' = readers + 1
    /\ Goto(c, "reading")
    /\ UNCHANGED <<writer, waitingWriters, woken, cancelled>>

\* Mutant: the last reader leaves without closing the channel.
ReadUnlockNoSignal(c) ==
    /\ pc[c] = "reading"
    /\ readers' = IF readers > 0 THEN readers - 1 ELSE readers
    /\ Goto(c, "idle")
    /\ UNCHANGED <<writer, waitingWriters, woken, cancelled>>

ReadUnlock(c) ==
    /\ pc[c] = "reading"
    /\ readers' = IF readers > 0 THEN readers - 1 ELSE readers
    /\ IF readers' = 0 THEN signalLocked ELSE UNCHANGED woken
    /\ Goto(c, "idle")
    /\ UNCHANGED <<writer, waitingWriters, cancelled>>

----------------------------------------------------------------------------
\* lock's first critical section: from here on no new reader enters.
WriteRegister(c) ==
    /\ pc[c] = "wNew"
    /\ waitingWriters' = waitingWriters + 1
    /\ Goto(c, "wTry")
    /\ UNCHANGED <<readers, writer, woken, cancelled>>

\* Mutant: the loop condition of lock() forgets the readers.
WriteTryIgnoresReaders(c) ==
    /\ pc[c] = "wTry"
    /\ \/ /\ cancelled[c]
          /\ Goto(c, "wDereg")
          /\ UNCHANGED <<writer, waitingWriters, woken>>
       \/ /\ ~cancelled[c]
          /\ ~writer
          /\ waitingWriters' = waitingWriters - 1
          /\ writer' = TRUE
          /\ Goto(c, "writing")
          /\ UNCHANGED woken
       \/ /\ ~cancelled[c]
          /\ writer
          /\ changedLocked(c)
          /\ Goto(c, "wWait")
          /\ UNCHANGED <<writer, waitingWriters>>
    /\ UNCHANGED <<readers, cancelled>>

\* One iteration of lock's loop under g.mu.
WriteTry(c) ==
    /\ pc[c] = "wTry"
    /\ \/ /\ cancelled[c]
          /\ Goto(c, "wDereg")
          /\ UNCHANGED <<writer, waitingWriters, woken>>
       \/ /\ ~cancelled[c]
          /\ ~writer /\ readers = 0
          /\ waitingWriters' = waitingWriters - 1
          /\ writer' = TRUE
          /\ Goto(c, "writing")
          /\ UNCHANGED woken
       \/ /\ ~cancelled[c]
          /\ writer \/ readers # 0
          /\ changedLocked(c)
          /\ Goto(c, "wWait")
          /\ UNCHANGED <<writer, waitingWriters>>
    /\ UNCHANGED <<readers, cancelled>>

WriteWake(c) ==
    /\ pc[c] = "wWait"
    /\ \/ woken[c] /\ Goto(c, "wTry")
       \/ cancelled[c] /\ Goto(c, "wDereg")
    /\ UNCHANGED <<readers, writer, waitingWriters, woken, cancelled>>

\* The deferred function of a lock() that gave up.
WriteDeregister(c) ==
    /\ pc[c] = "wDereg"
    /\ waitingWriters' = waitingWriters - 1
    /\ signalLocked
    /\ Goto(c, "idle")
    /\ UNCHANGED <<readers, writer, cancelled>>

Unlock(c) ==
    /\ pc[c] = "writing"
    /\ IF writer THEN writer' = FALSE /\ signalLocked
                 ELSE UNCHANGED <<writer, woken>>
    /\ Goto(c, "idle")
    /\ UNCHANGED <<readers, waitingWriters, cancelled>>

----------------------------------------------------------------------------
\* What a goroutine does inside a call, and when it ends its use of the gate.
Progress(c) ==
    \/ ReadTry(c) \/ ReadWake(c) \/ ReadUnlock(c)
    \/ WriteRegister(c) \/ WriteTry(c) \/ WriteWake(c)
    \/ WriteDeregister(c) \/ Unlock(c)

Next ==
    \E c \in Callers :
        \/ BeginRead(c) \/ BeginWrite(c) \/ TryReadLock(c) \/ Cancel(c)
        \/ Progress(c)

\* The Go scheduler runs every goroutine that can run, and every holder of the
\* gate gives it back (readUnlock and Release are deferred by the callers).
\* Nothing makes a caller start a call or a context expire.
Spec == Init /\ [][Next]_vars /\ \A c \in Callers : WF_vars(Progress(c))
----------------------------------------------------------------------------
\* The counters of the gate are exactly the goroutines inside the calls, through
\* every cancellation of lock(): registered = false on the success path and the
\* deferred function on the others decrement waitingWriters once (session.go:82).
CountersExact ==
    /\ readers = Cardinality(At({"reading"}))
    /\ waitingWriters = Cardinality(At(Registered))

\* A transaction that holds the writer side is alone: no request holds the
\* reader side and no second transaction holds the gate.
Exclusion ==
    /\ \A c, d \in At({"writing"}) : c = d
    /\ At({"writing"}) # {} => At({"reading"}) = {}
    /\ writer <=> At({"writing"}) # {}

\* No lost wakeup: a goroutine asleep on a channel nobody has closed is asleep
\* for a reason that still holds, so some later step will signal it.  The channel
\* is captured under g.mu and waited on after it is released; readUnlock, unlock
\* and the deferred deregistration must each signal when they remove the reason.
NoLostWakeup ==
    \A c \in Callers :
        /\ pc[c] = "rWait" /\ ~woken[c] => writer \/ waitingWriters > 0
        /\ pc[c] = "wWait" /\ ~woken[c] => writer \/ readers > 0

\* Writers are not starved by readers: while a transaction waits in lock(), some
\* transaction gets the gate or this one gives up, however many requests keep
\* arriving on the reader side and however many other transactions are cancelled.
WriterProgress ==
    \A c \in Callers :
        pc[c] \in Registered ~> writer \/ pc[c] \notin Registered

\* A call whose context is done returns, from whichever step of readLock or lock
\* it was in when the context ended.
CancelledCallReturns ==
    \A c \in Callers :
        cancelled[c] /\ pc[c] \notin {"idle", "reading", "writing"} ~> pc[c] = "idle"

\* Once no transaction holds or wants the gate any more, every request that was
\* parked behind one gets through: an abandoned lock() leaves nothing behind
\* that keeps readers out.
ReadersResume ==
    \A c \in Callers :
        <>[](~writer /\ At({"wNew"} \cup Registered) = {})
            => (pc[c] = "rWait" ~> pc[c] # "rWait")

\* Nobody is stuck in the gate: the three promises above together.
NobodyStuck == WriterProgress /\ CancelledCallReturns /\ ReadersResume
============================================================================
