------------------------------ MODULE Buffered ------------------------------
(* The buffered executor: buffered.go and buffered_capacity.go, with the       *)
(* pipeline of client_pipeline.go below it.                                    *)
(*                                                                             *)
(* Do queues a command within bounds on the number of commands and the bytes   *)
(* they retain; Flush takes the whole queue out under the lock and sends it as *)
(* one pipeline, one flush at a time.                                          *)
EXTENDS Naturals, Sequences, FiniteSets

CONSTANTS
    Writers,        \* each calls Do with one command
    Flushers,       \* each calls Flush once
    Size,           \* the retained bytes of each writer's command
    MaxCommands, BufferBytes

ASSUME BufferedConstants ==
    Size \in [Writers -> Nat] /\ MaxCommands \in Nat /\ BufferBytes \in Nat

VARIABLES
    wpc,            \* writer -> "start", "sized", "queued", "refused"
    fpc,            \* flusher -> "start", "locked", "sending", "done"
    queue,          \* commands, in the order of their admission
    queuedBytes,
    flushMu,        \* the flusher who holds it, or none
    taken,          \* the commands Flush has taken
    served,         \* how many of them the server has executed
    late,           \* commands of a failed flush that the server may still execute
    admitted,       \* all admissions so far, in order
    log,            \* the commands the server has executed, in order
    outcome

bufferedVars == <<wpc, fpc, queue, queuedBytes, flushMu, taken, served, late, admitted, log, outcome>>

Nobody == {}

BufferedInit ==
    /\ wpc = [w \in Writers |-> "start"]
    /\ fpc = [f \in Flushers |-> "start"]
    /\ queue = <<>>
    /\ queuedBytes = 0
    /\ flushMu = Nobody
    /\ taken = <<>>
    /\ served = 0
    /\ late = {}
    /\ admitted = <<>>
    /\ log = <<>>
    /\ outcome = [w \in Writers |-> "none"]

-----------------------------------------------------------------------------
(* Do.                                                                        *)

Refuse(w) ==
    /\ wpc' = [wpc EXCEPT ![w] = "refused"]
    /\ outcome' = [outcome EXCEPT ![w] = "not"]
    /\ UNCHANGED <<queue, queuedBytes, admitted>>

\* The first look at the queue.  It only saves the work of sizing a command: the
\* size and a snapshot are then taken without the lock, and may be refused.
Look(w) ==
    /\ wpc[w] = "start"
    /\ \/ Refuse(w)
       \/ /\ Len(queue) < MaxCommands /\ Size[w] <= BufferBytes
          /\ wpc' = [wpc EXCEPT ![w] = "sized"]
          /\ UNCHANGED <<queue, queuedBytes, admitted, outcome>>
    /\ UNCHANGED <<fpc, flushMu, taken, served, late, log>>

Fits(w) == Len(queue) < MaxCommands /\ Size[w] <= BufferBytes - queuedBytes

Admit(w) ==
    /\ wpc[w] = "sized"
    /\ Fits(w)
    /\ wpc' = [wpc EXCEPT ![w] = "queued"]
    /\ queue' = Append(queue, w)
    /\ admitted' = Append(admitted, w)
    /\ queuedBytes' = queuedBytes + Size[w]
    /\ UNCHANGED <<fpc, flushMu, taken, served, late, log, outcome>>

\* No room by now, or the context has ended.
RefuseLate(w) ==
    /\ wpc[w] = "sized"
    /\ Refuse(w)
    /\ UNCHANGED <<fpc, flushMu, taken, served, late, log>>

-----------------------------------------------------------------------------
(* Flush.                                                                     *)

FlushLock(f) ==
    /\ fpc[f] = "start"
    /\ \/ /\ flushMu = Nobody
          /\ flushMu' = {f}
          /\ fpc' = [fpc EXCEPT ![f] = "locked"]
       \/ fpc' = [fpc EXCEPT ![f] = "done"] /\ UNCHANGED flushMu
    /\ UNCHANGED <<wpc, queue, queuedBytes, taken, served, late, admitted, log, outcome>>

\* Mutant: the commands that are sent stay in the queue.
TakeKeepsQueue(f) ==
    /\ fpc[f] = "locked"
    /\ \/ /\ queue # <<>>
          /\ taken' = queue
          /\ fpc' = [fpc EXCEPT ![f] = "sending"]
          /\ UNCHANGED <<flushMu, queue, queuedBytes>>
       \/ /\ fpc' = [fpc EXCEPT ![f] = "done"]
          /\ flushMu' = Nobody
          /\ UNCHANGED <<taken, queue, queuedBytes>>
    /\ UNCHANGED <<wpc, served, late, admitted, log, outcome>>

\* The queue is taken out, unless it is empty or the context has ended.
TakeQueue(f) ==
    /\ fpc[f] = "locked"
    /\ \/ /\ queue # <<>>
          /\ taken' = queue
          /\ queue' = <<>>
          /\ queuedBytes' = 0
          /\ fpc' = [fpc EXCEPT ![f] = "sending"]
          /\ UNCHANGED flushMu
       \/ /\ fpc' = [fpc EXCEPT ![f] = "done"]
          /\ flushMu' = Nobody
          /\ UNCHANGED <<taken, queue, queuedBytes>>
    /\ UNCHANGED <<wpc, served, late, admitted, log, outcome>>

\* The server executes the batch in order.
Executes(f) ==
    /\ fpc[f] = "sending" /\ served < Len(taken)
    /\ log' = Append(log, taken[served + 1])
    /\ served' = served + 1
    /\ UNCHANGED <<wpc, fpc, queue, queuedBytes, flushMu, taken, late, admitted, outcome>>

\* What the callers learn: the outcome of the commands of the batch at `places'
\* is `what'.
Tell(places, what) ==
    [w \in Writers |-> IF \E n \in places : taken[n] = w THEN what
                       ELSE IF \E n \in DOMAIN taken : taken[n] = w THEN "unknown"
                       ELSE outcome[w]]

\* Flush returns the results it has.  With an error, BufferedFlushError hands the
\* commands back: a command without a result may have been executed, and is not
\* queued again.
FlushReturns(f) ==
    /\ fpc[f] = "sending"
    /\ \/ served = Len(taken) /\ outcome' = Tell(DOMAIN taken, "ok")
       \/ \E places \in {1..served, {}} : outcome' = Tell(places, "ok")
    /\ late' \in {late, late \cup {taken[n] : n \in (served + 1)..Len(taken)}}
    /\ taken' = <<>>
    /\ served' = 0
    /\ fpc' = [fpc EXCEPT ![f] = "done"]
    /\ flushMu' = Nobody
    /\ UNCHANGED <<wpc, queue, queuedBytes, admitted, log>>

LateExecutes ==
    /\ \E w \in late : log' = Append(log, w) /\ late' = late \ {w}
    /\ UNCHANGED <<wpc, fpc, queue, queuedBytes, flushMu, taken, served, admitted, outcome>>

BufferedNext ==
    \/ \E w \in Writers : Look(w) \/ Admit(w) \/ RefuseLate(w)
    \/ \E f \in Flushers : FlushLock(f) \/ TakeQueue(f) \/ Executes(f) \/ FlushReturns(f)
    \/ LateExecutes

BufferedSpec == BufferedInit /\ [][BufferedNext]_bufferedVars

BufferedTypeOK ==
    /\ wpc \in [Writers -> {"start", "sized", "queued", "refused"}]
    /\ fpc \in [Flushers -> {"start", "locked", "sending", "done"}]
    /\ flushMu \in SUBSET Flushers

-----------------------------------------------------------------------------
(* Properties.                                                                *)

\* A command that Do has refused is never executed; one it has queued is
\* executed at most once, by whichever flush takes it, and its answer is true.
Executed == [w \in Writers |-> Cardinality({n \in DOMAIN log : log[n] = w})]
BufferedDelivery == INSTANCE Delivery WITH Units <- Writers, executed <- Executed, outcome <- outcome
BufferedImplements == BufferedDelivery!Spec

\* Commands that have succeeded were executed in the order of their admission,
\* also by flushes that were called at the same time.
AdmissionOrderKept ==
    LET at(w) == CHOOSE n \in DOMAIN admitted : admitted[n] = w
    IN \A m, n \in DOMAIN log :
           m < n /\ outcome[log[m]] = "ok" /\ outcome[log[n]] = "ok" => at(log[m]) < at(log[n])

\* The queue stays within its bounds although it is looked at twice, and its
\* bytes are those of its commands.
BytesOf(q) ==
    LET sum[n \in 0..Len(q)] == IF n = 0 THEN 0 ELSE sum[n - 1] + Size[q[n]]
    IN sum[Len(q)]

WithinBounds ==
    Len(queue) <= MaxCommands /\ queuedBytes = BytesOf(queue) /\ queuedBytes <= BufferBytes
=============================================================================
