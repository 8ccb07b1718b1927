--------------------------- MODULE DeliveryProofs ---------------------------
(* The executors that hand on batches implement Delivery: the buffered         *)
(* executor, for any writers, flushes, sizes and bounds; the batch of the HTTP *)
(* executor, for any batch and any chain of redirects; and pipelines on the    *)
(* topology executor, for any layouts, pipelines and bounds.  With them the    *)
(* order of execution, the bounds of the buffer, the answers and the count of  *)
(* a pipeline, and where credentials go.                                       *)
EXTENDS Executors, SequenceTheorems, FiniteSetTheorems, WellFoundedInduction, TLAPS

-----------------------------------------------------------------------------
(* The buffered executor.                                                     *)

\* The commands before the last Base admissions have left the buffer: the batch in
\* flight follows them, and then the queue (buffered.go:178).
Base == Len(admitted) - Len(taken) - Len(queue)

\* Types.
TypesOK ==
    /\ wpc \in [Writers -> {"start", "sized", "queued", "refused"}]
    /\ outcome \in [Writers -> {"none", "ok", "not", "unknown"}]
    /\ fpc \in [Flushers -> {"start", "locked", "sending", "done"}]
    /\ queue \in Seq(Writers) /\ taken \in Seq(Writers) /\ admitted \in Seq(Writers)
    /\ log \in Seq(Writers) /\ late \subseteq Writers /\ served \in 0..Len(taken)

\* flushMu (buffered.go:161): one flusher at a time is past it, and only such a one
\* has a batch.
FlushersOK ==
    /\ \A f \in Flushers : fpc[f] \in {"locked", "sending"} => flushMu = {f}
    /\ (\A f \in Flushers : fpc[f] # "sending") => taken = <<>>

\* The admissions are those that have left, the batch and the queue, in this order;
\* no command is admitted twice.
LayoutOK ==
    /\ Base >= 0
    /\ \A i \in 1..Len(taken) : taken[i] = admitted[Base + i]
    /\ \A i \in 1..Len(queue) : queue[i] = admitted[Base + Len(taken) + i]
    /\ \A i, j \in 1..Len(admitted) : i # j => admitted[i] # admitted[j]
    /\ \A i \in 1..Len(admitted) : wpc[admitted[i]] = "queued"

\* The server has executed only commands that have left or are served, none twice,
\* and all that are served; a late one is uncertain and still out.
ServedOK ==
    /\ \A m \in 1..Len(log) : \E i \in 1..(Base + served) : log[m] = admitted[i]
    /\ \A m, n \in 1..Len(log) : m # n => log[m] # log[n]
    /\ \A i \in 1..served : \E m \in 1..Len(log) : log[m] = taken[i]
    /\ \A w \in late : /\ outcome[w] = "unknown"
                       /\ \A m \in 1..Len(log) : log[m] # w
                       /\ \E i \in 1..Base : admitted[i] = w

\* Answers are true, and nobody in the buffer has one.
OutcomesOK ==
    /\ \A w \in Writers : outcome[w] = "ok" => \E m \in 1..Len(log) : log[m] = w
    /\ \A w \in Writers : outcome[w] = "not" => wpc[w] = "refused"
    /\ \A w \in Writers : wpc[w] \in {"start", "sized"} => outcome[w] = "none"
    /\ \A i \in 1..Len(admitted) : i > Base => outcome[admitted[i]] = "none"

\* The command at place i has succeeded, or may yet succeed.
Good(i) == outcome[admitted[i]] = "ok" \/ i > Base

\* Commands that have succeeded or may yet succeed were executed in the order of
\* admission.  AdmissionOrderKept alone is not inductive: it says nothing of the
\* commands of the batch, which get their outcome when they are already executed.
OrderOK ==
    \A m, n \in 1..Len(log) : m < n => \A i, j \in 1..Len(admitted) :
       admitted[i] = log[m] /\ admitted[j] = log[n] /\ Good(i) /\ Good(j) => i < j

\* The inductive invariant.
BufferedInv == TypesOK /\ FlushersOK /\ LayoutOK /\ ServedOK /\ OutcomesOK /\ OrderOK

\* Where the batch and the queue lie among the admissions.
LEMMA Places ==
    ASSUME TypesOK, LayoutOK
    PROVE  /\ Base \in Nat /\ Len(taken) \in Nat /\ Len(queue) \in Nat /\ Len(log) \in Nat
           /\ Len(admitted) \in Nat /\ served \in 0..Len(taken)
           /\ Len(admitted) = Base + Len(taken) + Len(queue)
           /\ \A i \in 1..Len(admitted) : admitted[i] \in Writers
           /\ \A i \in 1..Len(taken) : taken[i] \in Writers /\ Base + i \in 1..Len(admitted)
  <1>1. /\ Len(taken) \in Nat /\ Len(queue) \in Nat /\ Len(log) \in Nat /\ Len(admitted) \in Nat
        /\ served \in 0..Len(taken)
        /\ \A i \in 1..Len(admitted) : admitted[i] \in Writers
        /\ \A i \in 1..Len(taken) : taken[i] \in Writers
    BY DEF TypesOK
  <1>2. Base \in Nat /\ Len(admitted) = Base + Len(taken) + Len(queue)
    BY <1>1 DEF Base, LayoutOK
  <1>3. \A i \in 1..Len(taken) : Base + i \in 1..Len(admitted)
    BY <1>1, <1>2
  <1> QED BY <1>1, <1>2, <1>3

\* A step that moves no command and answers only callers outside the buffer.
LEMMA FrameKeeps ==
    ASSUME BufferedInv, UNCHANGED <<queue, taken, served, late, admitted, log>>,
           TypesOK', FlushersOK',
           \A w \in Writers : wpc[w] = "queued" => wpc'[w] = "queued",
           \A w \in Writers : outcome'[w] # outcome[w] =>
                 wpc[w] # "queued" /\ outcome[w] = "none" /\ outcome'[w] = "not",
           \A w \in Writers : outcome'[w] = "not" => wpc'[w] = "refused",
           \A w \in Writers : wpc'[w] \in {"start", "sized"} => outcome'[w] = "none"
    PROVE  BufferedInv'
  <1>0. TypesOK /\ FlushersOK /\ LayoutOK /\ ServedOK /\ OutcomesOK /\ OrderOK
    BY DEF BufferedInv
  <1>1. Base' = Base
    BY DEF Base
  <1>2. \A i \in 1..Len(admitted) : admitted[i] \in Writers
    BY <1>0, Places
  <1>3. LayoutOK'
    BY <1>0, <1>1, <1>2 DEF LayoutOK
  <1>4. ServedOK'
    BY <1>0, <1>1 DEF ServedOK, TypesOK
  <1>5. \A i \in 1..Len(admitted) : outcome'[admitted[i]] = outcome[admitted[i]]
    BY <1>0, <1>2 DEF LayoutOK
  <1>6. OutcomesOK'
    <2>1. \A w \in Writers : outcome'[w] = "ok" => \E m \in 1..Len(log) : log[m] = w
      BY <1>0 DEF OutcomesOK
    <2>2. \A i \in 1..Len(admitted) : i > Base => outcome'[admitted[i]] = "none"
      BY <1>0, <1>5 DEF OutcomesOK
    <2> QED BY <1>1, <2>1, <2>2 DEF OutcomesOK
  <1>7. OrderOK'
    BY <1>0, <1>1, <1>5 DEF OrderOK, Good
  <1> QED BY <1>0, <1>3, <1>4, <1>6, <1>7 DEF BufferedInv

\* The first look of Do, and its refusals.
LEMMA DoKeeps ==
    ASSUME BufferedInv, NEW w \in Writers, Look(w) \/ RefuseLate(w)
    PROVE  BufferedInv'
  <1>0. TypesOK /\ FlushersOK /\ OutcomesOK
    BY DEF BufferedInv
  <1>1. UNCHANGED <<fpc, flushMu, queue, taken, served, late, admitted, log>>
    BY DEF Look, RefuseLate, Refuse
  <1>2. wpc[w] \in {"start", "sized"} /\ outcome[w] = "none"
    BY <1>0 DEF Look, RefuseLate, OutcomesOK
  <1>3. \/ wpc' = [wpc EXCEPT ![w] = "refused"] /\ outcome' = [outcome EXCEPT ![w] = "not"]
        \/ wpc' = [wpc EXCEPT ![w] = "sized"] /\ outcome' = outcome
    BY DEF Look, RefuseLate, Refuse
  <1>4. TypesOK' /\ FlushersOK'
    <2>1. wpc' \in [Writers -> {"start", "sized", "queued", "refused"}]
      BY <1>0, <1>3 DEF TypesOK
    <2>2. outcome' \in [Writers -> {"none", "ok", "not", "unknown"}]
      BY <1>0, <1>3 DEF TypesOK
    <2> QED BY <1>0, <1>1, <2>1, <2>2 DEF TypesOK, FlushersOK
  <1>5. /\ \A x \in Writers : wpc[x] = "queued" => wpc'[x] = "queued"
        /\ \A x \in Writers : outcome'[x] # outcome[x] =>
                 wpc[x] # "queued" /\ outcome[x] = "none" /\ outcome'[x] = "not"
        /\ \A x \in Writers : outcome'[x] = "not" => wpc'[x] = "refused"
        /\ \A x \in Writers : wpc'[x] \in {"start", "sized"} => outcome'[x] = "none"
    <2> SUFFICES ASSUME NEW x \in Writers
                 PROVE  /\ wpc[x] = "queued" => wpc'[x] = "queued"
                        /\ outcome'[x] # outcome[x] =>
                             wpc[x] # "queued" /\ outcome[x] = "none" /\ outcome'[x] = "not"
                        /\ outcome'[x] = "not" => wpc'[x] = "refused"
                        /\ wpc'[x] \in {"start", "sized"} => outcome'[x] = "none"
      BY Zenon
    <2>1. /\ outcome[x] = "not" => wpc[x] = "refused"
          /\ wpc[x] \in {"start", "sized"} => outcome[x] = "none"
      BY <1>0 DEF OutcomesOK
    <2>2. CASE x = w
      BY <1>0, <1>2, <1>3, <2>2 DEF TypesOK
    <2>3. CASE x # w
      <3>1. wpc'[x] = wpc[x] /\ outcome'[x] = outcome[x]
        BY <1>0, <1>3, <2>3 DEF TypesOK
      <3> QED BY <2>1, <3>1
    <2> QED BY <2>2, <2>3
  <1> QED BY <1>1, <1>4, <1>5, FrameKeeps, Zenon

\* Flush gets the lock, or its context ends first.
LEMMA FlushLockKeeps ==
    ASSUME BufferedInv, NEW f \in Flushers, FlushLock(f)
    PROVE  BufferedInv'
  <1>0. TypesOK /\ FlushersOK /\ OutcomesOK
    BY DEF BufferedInv
  <1>1. UNCHANGED <<wpc, outcome, queue, taken, served, late, admitted, log>>
    BY DEF FlushLock
  <1>2. TypesOK' /\ FlushersOK'
    <2>1. fpc' \in [Flushers -> {"start", "locked", "sending", "done"}]
      BY <1>0 DEF TypesOK, FlushLock
    <2>2. TypesOK'
      BY <1>0, <1>1, <2>1 DEF TypesOK
    <2>3. CASE flushMu = Nobody /\ flushMu' = {f} /\ fpc' = [fpc EXCEPT ![f] = "locked"]
      BY <1>0, <1>1, <2>3 DEF TypesOK, FlushersOK, FlushLock, Nobody
    <2>4. CASE fpc' = [fpc EXCEPT ![f] = "done"] /\ UNCHANGED flushMu
      BY <1>0, <1>1, <2>4 DEF TypesOK, FlushersOK, FlushLock
    <2> QED BY <2>2, <2>3, <2>4 DEF FlushLock
  <1>3. /\ \A x \in Writers : wpc[x] = "queued" => wpc'[x] = "queued"
        /\ \A x \in Writers : outcome'[x] # outcome[x] =>
                 wpc[x] # "queued" /\ outcome[x] = "none" /\ outcome'[x] = "not"
        /\ \A x \in Writers : outcome'[x] = "not" => wpc'[x] = "refused"
        /\ \A x \in Writers : wpc'[x] \in {"start", "sized"} => outcome'[x] = "none"
    BY <1>0, <1>1 DEF OutcomesOK
  <1> QED BY <1>1, <1>2, <1>3, FrameKeeps, Zenon

\* Do appends a command to the queue.
LEMMA AdmitKeeps ==
    ASSUME BufferedInv, NEW w \in Writers, Admit(w)
    PROVE  BufferedInv'
  <1> DEFINE n == Len(admitted)
             q == Len(queue)
  <1>0. TypesOK /\ FlushersOK /\ LayoutOK /\ ServedOK /\ OutcomesOK /\ OrderOK
    BY DEF BufferedInv
  <1>1. /\ Base \in Nat /\ Len(taken) \in Nat
        /\ q \in Nat /\ n \in Nat /\ served \in 0..Len(taken)
        /\ n = Base + Len(taken) + q
        /\ \A i \in 1..n : admitted[i] \in Writers
    BY <1>0, Places
  <1>2. /\ wpc[w] = "sized" /\ wpc' = [wpc EXCEPT ![w] = "queued"]
        /\ queue' = Append(queue, w) /\ admitted' = Append(admitted, w)
        /\ UNCHANGED <<fpc, flushMu, taken, served, late, log, outcome>>
    BY DEF Admit
  <1>3. /\ Len(admitted') = n + 1 /\ admitted'[n + 1] = w /\ admitted' \in Seq(Writers)
        /\ \A i \in 1..n : admitted'[i] = admitted[i]
    BY <1>0, <1>2, AppendProperties DEF TypesOK
  <1>4. /\ Len(queue') = q + 1 /\ queue'[q + 1] = w /\ queue' \in Seq(Writers)
        /\ \A i \in 1..q : queue'[i] = queue[i]
    BY <1>0, <1>2, AppendProperties DEF TypesOK
  <1>5. Base' = Base
    BY <1>1, <1>2, <1>3, <1>4 DEF Base
  <1>6. \A i \in 1..n : admitted[i] # w
    <2>1. \A i \in 1..n : wpc[admitted[i]] = "queued"
      BY <1>0 DEF LayoutOK
    <2> QED BY <1>2, <2>1
  <1> HIDE DEF n, q
  <1>7. TypesOK' /\ FlushersOK'
    BY <1>0, <1>2, <1>3, <1>4 DEF TypesOK, FlushersOK
  <1>8. LayoutOK'
    <2>1. \A i \in 1..Len(taken') : taken'[i] = admitted'[Base' + i]
      <3> SUFFICES ASSUME NEW i \in 1..Len(taken) PROVE taken[i] = admitted'[Base + i]
        BY <1>2, <1>5
      <3>1. Base + i \in 1..n
        BY <1>1
      <3>2. taken[i] = admitted[Base + i]
        BY <1>0 DEF LayoutOK
      <3> QED BY <1>3, <3>1, <3>2
    <2>2. \A i \in 1..Len(queue') : queue'[i] = admitted'[Base' + Len(taken') + i]
      <3> SUFFICES ASSUME NEW i \in 1..(q + 1) PROVE queue'[i] = admitted'[Base + Len(taken) + i]
        BY <1>2, <1>4, <1>5
      <3>1. CASE i = q + 1
        BY <1>1, <1>3, <1>4, <3>1
      <3>2. CASE i \in 1..q
        <4>1. queue[i] = admitted[Base + Len(taken) + i]
          BY <1>0, <3>2 DEF LayoutOK, q
        <4>2. Base + Len(taken) + i \in 1..n
          BY <1>1, <3>2
        <4> QED BY <1>3, <1>4, <3>2, <4>1, <4>2
      <3> QED BY <1>1, <3>1, <3>2
    <2>3. \A i, j \in 1..Len(admitted') : i # j => admitted'[i] # admitted'[j]
      <3>1. \A i, j \in 1..n : i # j => admitted[i] # admitted[j]
        BY <1>0 DEF LayoutOK, n
      <3>2. \A i \in 1..(n + 1) : i \in 1..n \/ i = n + 1
        BY <1>1
      <3> QED BY <1>3, <1>6, <3>1, <3>2
    <2>4. \A i \in 1..Len(admitted') : wpc'[admitted'[i]] = "queued"
      BY <1>0, <1>1, <1>2, <1>3, <1>6 DEF LayoutOK, n, TypesOK
    <2>5. Base' >= 0
      BY <1>1, <1>5
    <2> QED BY <2>1, <2>2, <2>3, <2>4, <2>5, Zenon DEF LayoutOK
  <1>9. \A i \in 1..(Base + served) : i \in 1..n /\ admitted'[i] = admitted[i]
    BY <1>1, <1>3
  <1>10. ServedOK'
    <2>1. \A m \in 1..Len(log) : \E i \in 1..(Base + served) : log[m] = admitted'[i]
      BY <1>0, <1>9 DEF ServedOK
    <2>2. \A x \in late : \E i \in 1..Base : admitted'[i] = x
      BY <1>0, <1>1, <1>3 DEF ServedOK
    <2>3. /\ log' = log /\ taken' = taken
          /\ served' = served /\ late' = late /\ outcome' = outcome
          /\ Base' = Base
      BY <1>2, <1>5
    <2>4. /\ \A a, b \in 1..Len(log) : a # b => log[a] # log[b]
          /\ \A i \in 1..served : \E m \in 1..Len(log) : log[m] = taken[i]
          /\ \A x \in late : outcome[x] = "unknown" /\ \A m \in 1..Len(log) : log[m] # x
      BY <1>0 DEF ServedOK
    <2> QED BY <2>1, <2>2, <2>3, <2>4 DEF ServedOK
  <1>11. OutcomesOK'
    <2>1. /\ \A x \in Writers : outcome'[x] = "not" => wpc'[x] = "refused"
          /\ \A x \in Writers : wpc'[x] \in {"start", "sized"} => outcome'[x] = "none"
      BY <1>0, <1>2 DEF OutcomesOK, TypesOK
    <2>2. outcome[w] = "none"
      BY <1>0, <1>2 DEF OutcomesOK
    <2>3. \A i \in 1..Len(admitted') : i > Base' => outcome'[admitted'[i]] = "none"
      BY <1>0, <1>1, <1>2, <1>3, <1>5, <2>2 DEF OutcomesOK, n
    <2> QED BY <1>0, <1>2, <2>1, <2>3 DEF OutcomesOK
  <1>12. OrderOK'
    <2>1. \A m \in 1..Len(log) : log[m] # w
      <3>1. \A m \in 1..Len(log) : \E i \in 1..n : log[m] = admitted[i]
        BY <1>0, <1>9 DEF ServedOK
      <3> QED BY <1>6, <3>1
    <2> SUFFICES ASSUME NEW a \in 1..Len(log'), NEW b \in 1..Len(log'), a < b,
                        NEW i \in 1..Len(admitted'), NEW j \in 1..Len(admitted'),
                        admitted'[i] = log'[a], admitted'[j] = log'[b], Good(i)', Good(j)'
                 PROVE  i < j
      BY DEF OrderOK
    <2>a. /\ a \in 1..Len(log) /\ b \in 1..Len(log) /\ i \in 1..(n + 1) /\ j \in 1..(n + 1)
          /\ admitted'[i] = log[a] /\ admitted'[j] = log[b]
      BY <1>2, <1>3
    <2>2. i \in 1..n /\ j \in 1..n
      <3>1. i # n + 1
        BY <1>3, <2>1, <2>a
      <3>2. j # n + 1
        BY <1>3, <2>1, <2>a
      <3>3. n \in Nat
        BY <1>1
      <3> QED BY <2>a, <3>1, <3>2, <3>3
    <2>3. Good(i) /\ Good(j)
      BY <1>2, <1>3, <1>5, <2>2 DEF Good
    <2>4. admitted[i] = log[a] /\ admitted[j] = log[b]
      BY <1>3, <2>2, <2>a
    <2> QED BY <1>0, <2>2, <2>3, <2>4, <2>a DEF OrderOK, n
  <1> QED BY <1>7, <1>8, <1>10, <1>11, <1>12 DEF BufferedInv

\* Flush takes the whole queue as its batch.
LEMMA TakeKeeps ==
    ASSUME BufferedInv, NEW f \in Flushers, TakeQueue(f)
    PROVE  BufferedInv'
  <1>0. TypesOK /\ FlushersOK /\ LayoutOK /\ ServedOK /\ OutcomesOK /\ OrderOK
    BY DEF BufferedInv
  <1>1. /\ fpc[f] = "locked"
        /\ flushMu = {f} /\ UNCHANGED <<wpc, served, late, admitted, log, outcome>>
    BY <1>0 DEF TakeQueue, FlushersOK
  <1>2. taken = <<>> /\ Len(taken) = 0 /\ served = 0
    <2>1. \A g \in Flushers : fpc[g] # "sending"
      BY <1>0, <1>1 DEF FlushersOK
    <2>2. taken = <<>> /\ Len(taken) = 0
      BY <1>0, <2>1 DEF FlushersOK
    <2> QED BY <1>0, <2>2 DEF TypesOK
  <1>3. CASE /\ queue # <<>> /\ taken' = queue
             /\ queue' = <<>> /\ fpc' = [fpc EXCEPT ![f] = "sending"] /\ UNCHANGED flushMu
    <2>1. /\ Base \in Nat /\ Len(queue) \in Nat /\ Len(admitted) \in Nat /\ Len(queue') = 0
          /\ Len(taken') = Len(queue)
      BY <1>0, <1>3, Places
    <2>2. Base' = Base
      BY <1>1, <1>2, <2>1 DEF Base
    <2>3. TypesOK' /\ FlushersOK'
      <3>1. TypesOK'
        BY <1>0, <1>1, <1>2, <1>3, <2>1 DEF TypesOK
      <3>2. FlushersOK'
        BY <1>0, <1>1, <1>3 DEF FlushersOK, TypesOK
      <3> QED BY <3>1, <3>2
    <2>4. LayoutOK'
      <3>1. \A i \in 1..Len(taken') : taken'[i] = admitted'[Base' + i]
        <4> SUFFICES ASSUME NEW i \in 1..Len(queue) PROVE queue[i] = admitted[Base + i]
          BY <1>1, <1>3, <2>2
        <4>1. queue[i] = admitted[Base + Len(taken) + i]
          BY <1>0 DEF LayoutOK
        <4>2. Base + Len(taken) + i = Base + i
          BY <1>2, <2>1
        <4> QED BY <4>1, <4>2
      <3>2. \A i \in 1..Len(queue') : queue'[i] = admitted'[Base' + Len(taken') + i]
        BY <2>1
      <3> QED BY <1>0, <1>1, <2>2, <3>1, <3>2 DEF LayoutOK
    <2>5. ServedOK'
      <3>1. \A i \in 1..served' : \E m \in 1..Len(log') : log'[m] = taken'[i]
        BY <1>1, <1>2
      <3>2. /\ log' = log /\ admitted' = admitted
            /\ served' = served /\ late' = late /\ outcome' = outcome
        BY <1>1
      <3>3. \A m \in 1..Len(log') : \E i \in 1..(Base' + served') : log'[m] = admitted'[i]
        BY <1>0, <2>2, <3>2 DEF ServedOK
      <3> QED BY <1>0, <2>2, <3>1, <3>2, <3>3 DEF ServedOK
    <2>6. OutcomesOK' /\ OrderOK'
      BY <1>0, <1>1, <2>2 DEF OutcomesOK, OrderOK, Good
    <2> QED BY <2>3, <2>4, <2>5, <2>6 DEF BufferedInv
  <1>4. CASE fpc' = [fpc EXCEPT ![f] = "done"] /\ flushMu' = Nobody /\ UNCHANGED <<taken, queue>>
    <2>1. TypesOK' /\ FlushersOK'
      <3>1. TypesOK'
        BY <1>0, <1>1, <1>4 DEF TypesOK
      <3>2. FlushersOK'
        BY <1>0, <1>1, <1>2, <1>4 DEF FlushersOK, TypesOK
      <3> QED BY <3>1, <3>2
    <2>2. /\ \A x \in Writers : wpc[x] = "queued" => wpc'[x] = "queued"
          /\ \A x \in Writers : outcome'[x] # outcome[x] =>
                 wpc[x] # "queued" /\ outcome[x] = "none" /\ outcome'[x] = "not"
          /\ \A x \in Writers : outcome'[x] = "not" => wpc'[x] = "refused"
          /\ \A x \in Writers : wpc'[x] \in {"start", "sized"} => outcome'[x] = "none"
      BY <1>0, <1>1 DEF OutcomesOK
    <2>3. UNCHANGED <<queue, taken, served, late, admitted, log>>
      BY <1>1, <1>4
    <2> QED BY <2>1, <2>2, <2>3, FrameKeeps, Zenon
  <1> QED BY <1>3, <1>4 DEF TakeQueue

\* What a flush has yet to be served, and what is late, is not in the log.
LEMMA Unserved ==
    ASSUME BufferedInv, NEW i \in (served + 1)..Len(taken)
    PROVE  /\ taken[i] = admitted[Base + i] /\ Base + i \in 1..Len(admitted)
           /\ \A m \in 1..Len(log) : log[m] # taken[i]
           /\ taken[i] \notin late
           /\ taken[i] \in Writers
           /\ outcome[taken[i]] = "none"
  <1>0. TypesOK /\ LayoutOK /\ ServedOK /\ OutcomesOK
    BY DEF BufferedInv
  <1>1. /\ Base \in Nat /\ Len(taken) \in Nat /\ Len(queue) \in Nat /\ served \in 0..Len(taken)
        /\ Len(admitted) = Base + Len(taken) + Len(queue)
    BY <1>0, Places
  <1>2. /\ i \in 1..Len(taken) /\ Base + i \in 1..Len(admitted)
        /\ Base + i > Base + served /\ Base + i > Base
    BY <1>1
  <1>3. taken[i] = admitted[Base + i]
    BY <1>0, <1>2 DEF LayoutOK
  <1>4. \A k \in 1..(Base + served) : k \in 1..Len(admitted) /\ admitted[k] # admitted[Base + i]
    <2> SUFFICES ASSUME NEW k \in 1..(Base + served)
                 PROVE  k \in 1..Len(admitted) /\ admitted[k] # admitted[Base + i]
      OBVIOUS
    <2>1. k \in 1..Len(admitted) /\ k # Base + i
      BY <1>1, <1>2
    <2> QED BY <1>0, <1>2, <2>1 DEF LayoutOK
  <1>5. \A k \in 1..Base : admitted[k] # admitted[Base + i]
    <2>1. \A k \in 1..Base : k \in 1..(Base + served)
      BY <1>1
    <2> QED BY <1>4, <2>1
  <1>6. \A m \in 1..Len(log) : log[m] # taken[i]
    BY <1>0, <1>3, <1>4 DEF ServedOK
  <1>7. taken[i] \notin late
    BY <1>0, <1>3, <1>5 DEF ServedOK
  <1>8. taken[i] \in Writers /\ outcome[taken[i]] = "none"
    <2>1. taken[i] \in Writers
      BY <1>0, <1>2, Places
    <2>2. outcome[admitted[Base + i]] = "none"
      BY <1>0, <1>2 DEF OutcomesOK
    <2> QED BY <1>3, <2>1, <2>2
  <1> QED BY <1>2, <1>3, <1>6, <1>7, <1>8

\* The server executes the next command of the batch.
LEMMA ExecutesKeeps ==
    ASSUME BufferedInv, NEW f \in Flushers, Executes(f)
    PROVE  BufferedInv'
  <1> DEFINE n == Len(log)
             x == taken[served + 1]
  <1>0. TypesOK /\ FlushersOK /\ LayoutOK /\ ServedOK /\ OutcomesOK /\ OrderOK
    BY DEF BufferedInv
  <1>1. /\ served < Len(taken) /\ log' = Append(log, x) /\ served' = served + 1
        /\ UNCHANGED <<wpc, fpc, queue, flushMu, taken, late, admitted, outcome>>
    BY DEF Executes
  <1>2. /\ Base \in Nat /\ Len(taken) \in Nat /\ n \in Nat /\ Len(admitted) \in Nat
        /\ served \in 0..Len(taken) /\ Len(queue) \in Nat
        /\ Len(admitted) = Base + Len(taken) + Len(queue)
    BY <1>0, Places
  <1>3. served + 1 \in (served + 1)..Len(taken) /\ served + 1 \in 1..Len(taken)
    BY <1>1, <1>2
  <1>4. /\ x = admitted[Base + (served + 1)] /\ Base + (served + 1) \in 1..Len(admitted)
        /\ \A m \in 1..n : log[m] # x
        /\ x \notin late /\ x \in Writers
    BY <1>3, Unserved
  <1>5. /\ Len(log') = n + 1 /\ log'[n + 1] = x /\ log' \in Seq(Writers)
        /\ \A m \in 1..n : log'[m] = log[m]
    BY <1>0, <1>1, <1>4, AppendProperties DEF TypesOK
  <1>6. Base' = Base
    BY <1>1 DEF Base
  <1>7. \A m \in 1..(n + 1) : m \in 1..n \/ m = n + 1
    <2> HIDE DEF n
    <2> QED BY <1>2
  <1>8. \A m \in 1..n : m \in 1..(n + 1)
    <2> HIDE DEF n
    <2> QED BY <1>2
  <1>9. n + 1 \in 1..(n + 1)
    <2> HIDE DEF n
    <2> QED BY <1>2
  <1> HIDE DEF x
  <1>10. TypesOK' /\ FlushersOK'
    <2>1. served' \in 0..Len(taken')
      BY <1>1, <1>2
    <2> QED BY <1>0, <1>1, <1>5, <2>1 DEF TypesOK, FlushersOK
  <1>11. LayoutOK'
    BY <1>0, <1>1, <1>6 DEF LayoutOK
  <1>12. ServedOK'
    <2>1. \A m \in 1..Len(log') : \E i \in 1..(Base' + served') : log'[m] = admitted'[i]
      <3>1. /\ Base' + served' = Base + (served + 1)
            /\ Base + (served + 1) \in 1..(Base + (served + 1))
        BY <1>1, <1>2, <1>6
      <3>2. \A i \in 1..(Base + served) : i \in 1..(Base + (served + 1))
        BY <1>2
      <3>3. \A m \in 1..n : \E i \in 1..(Base + (served + 1)) : log'[m] = admitted[i]
        <4>1. \A m \in 1..n : \E i \in 1..(Base + served) : log[m] = admitted[i]
          BY <1>0 DEF ServedOK, n
        <4> QED BY <1>5, <3>2, <4>1, Zenon
      <3>4. \E i \in 1..(Base + (served + 1)) : log'[n + 1] = admitted[i]
        BY <1>4, <1>5, <3>1
      <3>5. \A m \in 1..(n + 1) : \E i \in 1..(Base + (served + 1)) : log'[m] = admitted[i]
        BY <1>7, <3>3, <3>4, Zenon
      <3>6. admitted' = admitted
        BY <1>1
      <3> QED BY <1>5, <3>1, <3>5, <3>6, Zenon
    <2>2. \A a, b \in 1..Len(log') : a # b => log'[a] # log'[b]
      <3>1. \A a, b \in 1..n : a # b => log[a] # log[b]
        BY <1>0 DEF ServedOK, n
      <3> QED BY <1>4, <1>5, <1>7, <3>1, Zenon
    <2>3. \A i \in 1..served' : \E m \in 1..Len(log') : log'[m] = taken'[i]
      <3> SUFFICES ASSUME NEW i \in 1..(served + 1) PROVE \E m \in 1..(n + 1) : log'[m] = taken[i]
        BY <1>1, <1>5
      <3>1. CASE i \in 1..served
        <4>1. PICK m \in 1..n : log[m] = taken[i]
          BY <1>0, <3>1 DEF ServedOK, n
        <4> QED BY <1>5, <1>8, <4>1, Zenon
      <3>2. CASE i = served + 1
        BY <1>5, <1>9, <3>2 DEF x
      <3> QED BY <1>2, <3>1, <3>2
    <2>4. ASSUME NEW w \in late PROVE \A m \in 1..Len(log') : log'[m] # w
      <3>1. \A m \in 1..n : log[m] # w
        BY <1>0 DEF ServedOK, n
      <3> QED BY <1>4, <1>5, <1>7, <3>1, Zenon
    <2>5. late' = late /\ outcome' = outcome /\ admitted' = admitted
      BY <1>1
    <2>6. \A w \in late : outcome[w] = "unknown" /\ \E i \in 1..Base : admitted[i] = w
      BY <1>0 DEF ServedOK
    <2> QED BY <1>6, <2>1, <2>2, <2>3, <2>4, <2>5, <2>6, Zenon DEF ServedOK
  <1>13. OutcomesOK'
    <2>1. ASSUME NEW w \in Writers, outcome[w] = "ok" PROVE \E m \in 1..(n + 1) : log'[m] = w
      <3>1. PICK m \in 1..n : log[m] = w
        BY <1>0, <2>1 DEF OutcomesOK, n
      <3> QED BY <1>5, <1>8, <3>1, Zenon
    <2> QED BY <1>0, <1>1, <1>5, <1>6, <2>1 DEF OutcomesOK
  <1>14. OrderOK'
    <2>0. admitted' = admitted /\ \A i \in 1..Len(admitted) : Good(i)' = Good(i)
      BY <1>1, <1>6 DEF Good
    <2> SUFFICES ASSUME NEW a \in 1..(n + 1), NEW b \in 1..(n + 1), a < b,
                        NEW i \in 1..Len(admitted), NEW j \in 1..Len(admitted),
                        admitted[i] = log'[a], admitted[j] = log'[b], Good(i), Good(j)
                 PROVE  i < j
      BY <1>5, <2>0, Zenon DEF OrderOK
    <2>1. a \in 1..n /\ log'[a] = log[a]
      BY <1>2, <1>5
    <2>2. CASE b \in 1..n
      BY <1>0, <1>5, <2>1, <2>2 DEF OrderOK, n
    <2>3. CASE b = n + 1
      <3>1. admitted[j] = admitted[Base + (served + 1)]
        BY <1>4, <1>5, <2>3
      <3>2. j = Base + (served + 1)
        BY <1>0, <1>4, <3>1 DEF LayoutOK
      <3>3. PICK k \in 1..(Base + served) : log[a] = admitted[k]
        BY <1>0, <2>1 DEF ServedOK, n
      <3>4. k \in 1..Len(admitted)
        BY <1>2
      <3>5. i = k
        BY <1>0, <2>1, <3>3, <3>4 DEF LayoutOK
      <3>6. k \in Int /\ k < Base + (served + 1)
        BY <1>2
      <3> QED BY <3>2, <3>5, <3>6
    <2> QED BY <1>7, <2>2, <2>3
  <1> QED BY <1>10, <1>11, <1>12, <1>13, <1>14 DEF BufferedInv

\* What the callers of a flush learn: nothing of other commands, and success only
\* of commands that were served.
LEMMA Tells ==
    ASSUME BufferedInv, NEW f \in Flushers, FlushReturns(f)
    PROVE  /\ outcome' \in [Writers -> {"none", "ok", "not", "unknown"}]
           /\ \A w \in Writers : (\A i \in 1..Len(taken) : taken[i] # w) =>
               outcome'[w] = outcome[w]
           /\ \A i \in 1..Len(taken) : outcome'[taken[i]] \in {"ok", "unknown"}
           /\ \A i \in 1..Len(taken) : outcome'[taken[i]] = "ok" => i <= served
  <1>0. TypesOK /\ LayoutOK
    BY DEF BufferedInv
  <1>1. /\ Len(taken) \in Nat /\ served \in 0..Len(taken) /\ DOMAIN taken = 1..Len(taken)
        /\ Base \in Nat
        /\ \A i \in 1..Len(taken) : taken[i] \in Writers /\ Base + i \in 1..Len(admitted)
    BY <1>0, Places DEF TypesOK
  <1>2. \A i, j \in 1..Len(taken) : i # j => taken[i] # taken[j]
    <2> SUFFICES ASSUME NEW i \in 1..Len(taken), NEW j \in 1..Len(taken), i # j
                 PROVE  taken[i] # taken[j]
      OBVIOUS
    <2>1. taken[i] = admitted[Base + i] /\ taken[j] = admitted[Base + j]
      BY <1>0 DEF LayoutOK
    <2>2. Base + i # Base + j
      BY <1>1
    <2> QED BY <1>0, <1>1, <2>1, <2>2 DEF LayoutOK
  <1>3. PICK places \in SUBSET (1..served) : outcome' = Tell(places, "ok")
    <2>1. served = Len(taken) => DOMAIN taken = 1..served
      BY <1>1
    <2> QED BY <2>1 DEF FlushReturns
  <1>4. \A n \in places : n \in 1..Len(taken) /\ n <= served
    BY <1>1, <1>3
  <1>5. outcome' = [w \in Writers |-> IF \E n \in places : taken[n] = w THEN "ok"
                                      ELSE IF \E n \in 1..Len(taken) : taken[n] = w THEN "unknown"
                                      ELSE outcome[w]]
    BY <1>1, <1>3, Zenon DEF Tell
  <1>6. outcome' \in [Writers -> {"none", "ok", "not", "unknown"}]
    BY <1>0, <1>5 DEF TypesOK
  <1>7. \A w \in Writers : (\A i \in 1..Len(taken) : taken[i] # w) => outcome'[w] = outcome[w]
    BY <1>4, <1>5
  <1>8. \A i \in 1..Len(taken) : outcome'[taken[i]] \in {"ok", "unknown"}
    BY <1>1, <1>5
  <1>9. ASSUME NEW i \in 1..Len(taken), outcome'[taken[i]] = "ok" PROVE i <= served
    <2>1. \E n \in places : taken[n] = taken[i]
      BY <1>1, <1>5, <1>9
    <2>2. PICK n \in places : taken[n] = taken[i]
      BY <2>1
    <2>3. n = i
      BY <1>2, <1>4, <2>2
    <2> QED BY <1>4, <2>3
  <1> QED BY <1>6, <1>7, <1>8, <1>9

\* Flush returns: its batch leaves the buffer, with outcomes.
LEMMA FlushReturnsKeeps ==
    ASSUME BufferedInv, NEW f \in Flushers, FlushReturns(f)
    PROVE  BufferedInv'
  <1>0. TypesOK /\ FlushersOK /\ LayoutOK /\ ServedOK /\ OutcomesOK /\ OrderOK
    BY DEF BufferedInv
  <1>1. /\ fpc[f] = "sending" /\ taken' = <<>> /\ served' = 0 /\ flushMu' = Nobody
        /\ fpc' = [fpc EXCEPT ![f] = "done"]
        /\ wpc' = wpc /\ queue' = queue /\ admitted' = admitted /\ log' = log
        /\ late' = late \/ late' = late \cup {taken[n] : n \in (served + 1)..Len(taken)}
    BY DEF FlushReturns
  <1>2. /\ Base \in Nat /\ Len(taken) \in Nat /\ Len(admitted) \in Nat
        /\ served \in 0..Len(taken) /\ Len(queue) \in Nat
        /\ Len(admitted) = Base + Len(taken) + Len(queue)
        /\ \A i \in 1..Len(taken) : taken[i] \in Writers /\ Base + i \in 1..Len(admitted)
        /\ \A i \in 1..Len(admitted) : admitted[i] \in Writers
    BY <1>0, Places
  <1>3. /\ outcome' \in [Writers -> {"none", "ok", "not", "unknown"}]
        /\ \A w \in Writers : (\A i \in 1..Len(taken) : taken[i] # w) => outcome'[w] = outcome[w]
        /\ \A i \in 1..Len(taken) : outcome'[taken[i]] \in {"ok", "unknown"}
        /\ \A i \in 1..Len(taken) : outcome'[taken[i]] = "ok" => i <= served
    BY Tells
  <1>4. Len(taken') = 0 /\ Base' = Base + Len(taken)
    BY <1>1, <1>2 DEF Base
  <1>5. \A i \in 1..Len(taken) : taken[i] = admitted[Base + i]
    BY <1>0 DEF LayoutOK
  <1>6. TypesOK' /\ FlushersOK'
    <2>1. fpc' \in [Flushers -> {"start", "locked", "sending", "done"}]
      BY <1>0, <1>1 DEF TypesOK
    <2>2. late' \subseteq Writers
      <3>1. \A n \in (served + 1)..Len(taken) : n \in 1..Len(taken)
        BY <1>2
      <3>2. \A n \in (served + 1)..Len(taken) : taken[n] \in Writers
        BY <1>2, <3>1
      <3>3. late \subseteq Writers
        BY <1>0 DEF TypesOK
      <3>4. {taken[n] : n \in (served + 1)..Len(taken)} \subseteq Writers
        BY <3>2
      <3> QED BY <1>1, <3>3, <3>4
    <2>3. TypesOK'
      BY <1>0, <1>1, <1>3, <1>4, <2>1, <2>2 DEF TypesOK
    <2>4. FlushersOK'
      BY <1>0, <1>1 DEF FlushersOK, TypesOK
    <2> QED BY <2>3, <2>4
  <1>7. LayoutOK'
    <2>1. \A i \in 1..Len(queue') : queue'[i] = admitted'[Base' + Len(taken') + i]
      <3> SUFFICES ASSUME NEW i \in 1..Len(queue)
                   PROVE  queue[i] = admitted[Base + Len(taken) + 0 + i]
        BY <1>1, <1>4
      <3>1. Base + Len(taken) + 0 + i = Base + Len(taken) + i
        BY <1>2
      <3> QED BY <1>0, <3>1 DEF LayoutOK
    <2>2. Base' >= 0 /\ \A i \in 1..Len(taken') : taken'[i] = admitted'[Base' + i]
      BY <1>2, <1>4
    <2> QED BY <1>0, <1>1, <2>1, <2>2 DEF LayoutOK
  <1>8. ServedOK'
    <2>1. \A m \in 1..Len(log') : \E i \in 1..(Base' + served') : log'[m] = admitted'[i]
      <3>1. \A i \in 1..(Base + served) : i \in 1..(Base' + served')
        BY <1>1, <1>2, <1>4
      <3>2. \A m \in 1..Len(log) : \E i \in 1..(Base + served) : log[m] = admitted[i]
        BY <1>0 DEF ServedOK
      <3> QED BY <1>1, <3>1, <3>2, Zenon
    <2>2. \A i \in 1..served' : \E m \in 1..Len(log') : log'[m] = taken'[i]
      BY <1>1
    <2>3. ASSUME NEW w \in late'
          PROVE  /\ outcome'[w] = "unknown"
                 /\ \A m \in 1..Len(log) : log[m] # w
                 /\ \E i \in 1..Base' : admitted[i] = w
      <3>1. CASE w \in late
        <4>1. w \in Writers /\ outcome[w] = "unknown"
          BY <1>0, <3>1 DEF TypesOK, ServedOK
        <4>2. \A i \in 1..Len(taken) : outcome[taken[i]] = "none"
          BY <1>0, <1>2, <1>5 DEF OutcomesOK
        <4>3. \A i \in 1..Len(taken) : taken[i] # w
          BY <4>1, <4>2
        <4>4. outcome'[w] = "unknown"
          BY <1>3, <4>1, <4>3
        <4>5. PICK i \in 1..Base : admitted[i] = w
          BY <1>0, <3>1 DEF ServedOK
        <4>6. i \in 1..Base'
          BY <1>2, <1>4
        <4> QED BY <1>0, <3>1, <4>4, <4>5, <4>6 DEF ServedOK
      <3>2. CASE w \notin late
        <4>1. PICK i \in (served + 1)..Len(taken) : w = taken[i]
          BY <1>1, <2>3, <3>2
        <4>2. i \in 1..Len(taken) /\ ~ (i <= served)
          BY <1>2
        <4>3. outcome'[w] = "unknown"
          BY <1>3, <4>1, <4>2
        <4>4. \A m \in 1..Len(log) : log[m] # w
          BY <4>1, Unserved
        <4>5. Base + i \in 1..Base' /\ admitted[Base + i] = w
          <5>1. Base + i \in 1..Base'
            BY <1>2, <1>4, <4>2
          <5>2. taken[i] = admitted[Base + i]
            BY <1>5, <4>2
          <5> QED BY <4>1, <5>1, <5>2
        <4> QED BY <4>3, <4>4, <4>5
      <3> QED BY <3>1, <3>2
    <2> QED BY <1>0, <1>1, <2>1, <2>2, <2>3 DEF ServedOK
  <1>9. OutcomesOK'
    <2>1. ASSUME NEW w \in Writers, outcome'[w] = "ok" PROVE \E m \in 1..Len(log) : log[m] = w
      <3>1. CASE \A i \in 1..Len(taken) : taken[i] # w
        BY <1>0, <1>3, <2>1, <3>1 DEF OutcomesOK
      <3>2. CASE \E i \in 1..Len(taken) : taken[i] = w
        <4>1. PICK i \in 1..Len(taken) : taken[i] = w
          BY <3>2
        <4>2. i \in 1..served
          BY <1>2, <1>3, <2>1, <4>1
        <4> QED BY <1>0, <4>1, <4>2 DEF ServedOK
      <3> QED BY <3>1, <3>2
    <2>2. \A i \in 1..Len(taken) : wpc[taken[i]] = "queued"
      BY <1>0, <1>2, <1>5 DEF LayoutOK
    <2>3. ASSUME NEW w \in Writers
          PROVE  /\ outcome'[w] = "not" => wpc[w] = "refused"
                 /\ wpc[w] \in {"start", "sized"} => outcome'[w] = "none"
      <3>1. CASE \A i \in 1..Len(taken) : taken[i] # w
        BY <1>0, <1>3, <3>1 DEF OutcomesOK
      <3>2. CASE \E i \in 1..Len(taken) : taken[i] = w
        BY <1>3, <2>2, <3>2
      <3> QED BY <3>1, <3>2
    <2>4. ASSUME NEW i \in 1..Len(admitted), i > Base + Len(taken)
          PROVE  outcome'[admitted[i]] = "none"
      <3>1. ASSUME NEW k \in 1..Len(taken) PROVE taken[k] # admitted[i]
        <4>1. Base + k # i
          BY <1>2, <2>4
        <4>2. Base + k \in 1..Len(admitted) /\ taken[k] = admitted[Base + k]
          BY <1>2, <1>5
        <4>3. \A a, b \in 1..Len(admitted) : a # b => admitted[a] # admitted[b]
          BY <1>0 DEF LayoutOK
        <4> QED BY <4>1, <4>2, <4>3
      <3>2. outcome[admitted[i]] = "none"
        <4>1. i > Base
          BY <1>2, <2>4
        <4> QED BY <1>0, <4>1 DEF OutcomesOK
      <3> QED BY <1>2, <1>3, <3>1, <3>2
    <2> QED BY <1>1, <1>4, <2>1, <2>3, <2>4 DEF OutcomesOK
  <1>10. OrderOK'
    <2>1. ASSUME NEW i \in 1..Len(admitted), Good(i)' PROVE Good(i)
      <3>1. CASE i > Base
        BY <3>1 DEF Good
      <3>2. CASE ~ (i > Base)
        <4>1. outcome'[admitted[i]] = "ok"
          BY <1>1, <1>2, <1>4, <2>1, <3>2 DEF Good
        <4>2. ASSUME NEW k \in 1..Len(taken) PROVE taken[k] # admitted[i]
          <5>1. Base + k # i
            BY <1>2, <3>2
          <5>2. Base + k \in 1..Len(admitted) /\ taken[k] = admitted[Base + k]
            BY <1>2, <1>5
          <5>3. \A a, b \in 1..Len(admitted) : a # b => admitted[a] # admitted[b]
            BY <1>0 DEF LayoutOK
          <5> QED BY <5>1, <5>2, <5>3
        <4>3. outcome[admitted[i]] = "ok"
          BY <1>2, <1>3, <4>1, <4>2
        <4> QED BY <4>3 DEF Good
      <3> QED BY <3>1, <3>2
    <2> QED BY <1>0, <1>1, <2>1 DEF OrderOK
  <1> QED BY <1>6, <1>7, <1>8, <1>9, <1>10 DEF BufferedInv

\* The server executes a command whose flush has failed.
LEMMA LateKeeps ==
    ASSUME BufferedInv, LateExecutes
    PROVE  BufferedInv'
  <1> DEFINE n == Len(log)
  <1>0. TypesOK /\ FlushersOK /\ LayoutOK /\ ServedOK /\ OutcomesOK /\ OrderOK
    BY DEF BufferedInv
  <1>1. PICK w \in late : log' = Append(log, w) /\ late' = late \ {w}
    BY DEF LateExecutes
  <1>2. UNCHANGED <<wpc, fpc, queue, flushMu, taken, served, admitted, outcome>>
    BY DEF LateExecutes
  <1>3. /\ Base \in Nat /\ Len(taken) \in Nat /\ n \in Nat /\ Len(admitted) \in Nat
        /\ served \in 0..Len(taken) /\ Len(queue) \in Nat
        /\ Len(admitted) = Base + Len(taken) + Len(queue)
    BY <1>0, Places
  <1>4. w \in Writers /\ outcome[w] = "unknown" /\ \A m \in 1..n : log[m] # w
    BY <1>0 DEF ServedOK, TypesOK
  <1>5. /\ Len(log') = n + 1 /\ log'[n + 1] = w /\ log' \in Seq(Writers)
        /\ \A m \in 1..n : log'[m] = log[m]
    BY <1>0, <1>1, <1>4, AppendProperties DEF TypesOK
  <1>6. Base' = Base
    BY <1>2 DEF Base
  <1>7. /\ \A m \in 1..(n + 1) : m \in 1..n \/ m = n + 1
        /\ \A m \in 1..n : m \in 1..(n + 1)
    <2> HIDE DEF n
    <2> QED BY <1>3
  <1>8. PICK p \in 1..Base : admitted[p] = w
    BY <1>0 DEF ServedOK
  <1>9. p \in 1..Len(admitted) /\ p \in 1..(Base + served) /\ ~ (p > Base)
    BY <1>3
  <1>10. TypesOK' /\ FlushersOK' /\ LayoutOK'
    BY <1>0, <1>1, <1>2, <1>5, <1>6 DEF TypesOK, FlushersOK, LayoutOK
  <1>11. ServedOK'
    <2>1. \A m \in 1..Len(log') : \E i \in 1..(Base' + served') : log'[m] = admitted'[i]
      <3>1. \A m \in 1..n : \E i \in 1..(Base + served) : log'[m] = admitted[i]
        BY <1>0, <1>5 DEF ServedOK, n
      <3>2. \E i \in 1..(Base + served) : log'[n + 1] = admitted[i]
        BY <1>5, <1>8, <1>9
      <3>3. \A m \in 1..(n + 1) : \E i \in 1..(Base + served) : log'[m] = admitted[i]
        BY <1>7, <3>1, <3>2, Zenon
      <3>4. admitted' = admitted /\ Base' + served' = Base + served
        BY <1>2, <1>6
      <3> QED BY <1>5, <3>3, <3>4, Zenon
    <2>2. \A a, b \in 1..Len(log') : a # b => log'[a] # log'[b]
      <3>1. \A a, b \in 1..n : a # b => log[a] # log[b]
        BY <1>0 DEF ServedOK, n
      <3> QED BY <1>4, <1>5, <1>7, <3>1, Zenon
    <2>3. \A i \in 1..served' : \E m \in 1..Len(log') : log'[m] = taken'[i]
      <3> SUFFICES ASSUME NEW i \in 1..served PROVE \E m \in 1..(n + 1) : log'[m] = taken[i]
        BY <1>2, <1>5
      <3>1. PICK m \in 1..n : log[m] = taken[i]
        BY <1>0 DEF ServedOK, n
      <3> QED BY <1>5, <1>7, <3>1, Zenon
    <2>4. ASSUME NEW x \in late'
          PROVE  /\ outcome'[x] = "unknown" /\ \A m \in 1..Len(log') : log'[m] # x
                 /\ \E i \in 1..Base' : admitted'[i] = x
      <3>1. x \in late /\ x # w
        BY <1>1, <2>4
      <3>2. \A m \in 1..n : log[m] # x
        BY <1>0, <3>1 DEF ServedOK, n
      <3>3. \A m \in 1..Len(log') : log'[m] # x
        BY <1>5, <1>7, <3>1, <3>2, Zenon
      <3> QED BY <1>0, <1>2, <1>6, <3>1, <3>3 DEF ServedOK
    <2> QED BY <2>1, <2>2, <2>3, <2>4, Zenon DEF ServedOK
  <1>12. OutcomesOK'
    <2>1. ASSUME NEW x \in Writers, outcome[x] = "ok" PROVE \E m \in 1..(n + 1) : log'[m] = x
      <3>1. PICK m \in 1..n : log[m] = x
        BY <1>0, <2>1 DEF OutcomesOK, n
      <3> QED BY <1>5, <1>7, <3>1, Zenon
    <2> QED BY <1>0, <1>2, <1>5, <1>6, <2>1 DEF OutcomesOK
  <1>13. OrderOK'
    <2>0. admitted' = admitted /\ \A i \in 1..Len(admitted) : Good(i)' = Good(i)
      BY <1>2, <1>6 DEF Good
    <2> SUFFICES ASSUME NEW a \in 1..(n + 1), NEW b \in 1..(n + 1), a < b,
                        NEW i \in 1..Len(admitted), NEW j \in 1..Len(admitted),
                        admitted[i] = log'[a], admitted[j] = log'[b], Good(i), Good(j)
                 PROVE  i < j
      BY <1>5, <2>0, Zenon DEF OrderOK
    <2>1. a \in 1..n /\ log'[a] = log[a]
      BY <1>3, <1>5
    <2>2. CASE b \in 1..n
      BY <1>0, <1>5, <2>1, <2>2 DEF OrderOK, n
    <2>3. CASE b = n + 1
      <3>1. j = p
        BY <1>0, <1>5, <1>8, <1>9, <2>3 DEF LayoutOK
      <3> QED BY <1>4, <1>8, <1>9, <3>1 DEF Good
    <2> QED BY <1>7, <2>2, <2>3
  <1> QED BY <1>10, <1>11, <1>12, <1>13 DEF BufferedInv

\* BufferedInv holds in every reachable state of the buffered executor, for any
\* number of writers and of flushes called at the same time (buffered.go:157).
THEOREM BufferedInvariant == BufferedSpec => []BufferedInv
  <1>1. BufferedInit => BufferedInv
    <2> SUFFICES ASSUME BufferedInit PROVE BufferedInv
      OBVIOUS
    <2> USE DEF BufferedInit
    <2>1. TypesOK /\ FlushersOK
      BY DEF TypesOK, FlushersOK
    <2>2. Len(admitted) = 0 /\ Len(taken) = 0 /\ Len(queue) = 0 /\ Len(log) = 0
      OBVIOUS
    <2>3. Base = 0
      <3> HIDE DEF BufferedInit
      <3> QED BY <2>2 DEF Base
    <2>4. LayoutOK /\ ServedOK /\ OutcomesOK /\ OrderOK
      BY <2>3 DEF LayoutOK, ServedOK, OutcomesOK, OrderOK
    <2> QED BY <2>1, <2>4 DEF BufferedInv
  <1>2. BufferedInv /\ [BufferedNext]_bufferedVars => BufferedInv'
    <2> SUFFICES ASSUME BufferedInv, [BufferedNext]_bufferedVars PROVE BufferedInv'
      OBVIOUS
    <2>1. ASSUME NEW w \in Writers, Look(w) \/ RefuseLate(w) PROVE BufferedInv'
      BY <2>1, DoKeeps
    <2>2. ASSUME NEW w \in Writers, Admit(w) PROVE BufferedInv'
      BY <2>2, AdmitKeeps
    <2>3. ASSUME NEW f \in Flushers, FlushLock(f) PROVE BufferedInv'
      BY <2>3, FlushLockKeeps
    <2>4. ASSUME NEW f \in Flushers, TakeQueue(f) PROVE BufferedInv'
      BY <2>4, TakeKeeps
    <2>5. ASSUME NEW f \in Flushers, Executes(f) PROVE BufferedInv'
      BY <2>5, ExecutesKeeps
    <2>6. ASSUME NEW f \in Flushers, FlushReturns(f) PROVE BufferedInv'
      BY <2>6, FlushReturnsKeeps
    <2>7. CASE LateExecutes
      BY <2>7, LateKeeps
    <2>8. CASE UNCHANGED bufferedVars
      BY <2>8 DEF bufferedVars, BufferedInv, TypesOK, FlushersOK, LayoutOK, ServedOK, OutcomesOK,
           OrderOK,
                  Base, Good
    <2> QED BY <2>1, <2>2, <2>3, <2>4, <2>5, <2>6, <2>7, <2>8 DEF BufferedNext
  <1> QED BY <1>1, <1>2, PTL DEF BufferedSpec

----------------------------------------------------------------------------

\* A command is executed at most once: the count of the log is its membership.
LEMMA ExecutedIs ==
    ASSUME BufferedInv
    PROVE  Executed = [w \in Writers |-> IF \E m \in 1..Len(log) : log[m] = w THEN 1 ELSE 0]
  <1>0. DOMAIN log = 1..Len(log) /\ \A m, n \in 1..Len(log) : m # n => log[m] # log[n]
    <2>1. log \in Seq(Writers)
      BY DEF BufferedInv, TypesOK
    <2>2. \A m, n \in 1..Len(log) : m # n => log[m] # log[n]
      BY DEF BufferedInv, ServedOK
    <2> QED BY <2>1, <2>2
  <1> SUFFICES ASSUME NEW w \in Writers
               PROVE  Cardinality({n \in DOMAIN log : log[n] = w})
                        = IF \E m \in 1..Len(log) : log[m] = w THEN 1 ELSE 0
    BY DEF Executed
  <1>1. CASE \E m \in 1..Len(log) : log[m] = w
    <2>1. PICK m \in 1..Len(log) : log[m] = w
      BY <1>1
    <2>2. {n \in DOMAIN log : log[n] = w} = {m}
      BY <1>0, <2>1
    <2>3. Cardinality({m}) = 1
      BY FS_Singleton
    <2> QED BY <1>1, <2>2, <2>3
  <1>2. CASE ~ \E m \in 1..Len(log) : log[m] = w
    <2>1. {n \in DOMAIN log : log[n] = w} = {}
      BY <1>0, <1>2
    <2> QED BY <1>2, <2>1, FS_EmptySet
  <1> QED BY <1>1, <1>2

\* What a step does to the log and to the outcomes.
LEMMA StepFacts ==
    ASSUME BufferedInv, [BufferedNext]_bufferedVars
    PROVE  /\ \A w \in Writers : (\E m \in 1..Len(log) : log[m] = w)
                                   => \E m \in 1..Len(log') : log'[m] = w
           /\ \A w \in Writers : outcome[w] # "none" => outcome'[w] = outcome[w]
  <1>0. TypesOK /\ LayoutOK /\ ServedOK /\ OutcomesOK
    BY DEF BufferedInv
  <1>1. CASE UNCHANGED log
    <2>1. CASE UNCHANGED outcome
      BY <1>1, <2>1
    <2>2. ASSUME NEW w \in Writers, Look(w) \/ RefuseLate(w)
          PROVE  \A x \in Writers : outcome[x] # "none" => outcome'[x] = outcome[x]
      BY <1>0, <2>2 DEF Look, RefuseLate, Refuse, OutcomesOK, TypesOK
    <2>3. ASSUME NEW f \in Flushers, FlushReturns(f)
          PROVE  \A x \in Writers : outcome[x] # "none" => outcome'[x] = outcome[x]
      <3>1. \A x \in Writers : (\A i \in 1..Len(taken) : taken[i] # x) => outcome'[x] = outcome[x]
        BY <2>3, Tells
      <3>2. \A i \in 1..Len(taken) : outcome[taken[i]] = "none"
        <4> SUFFICES ASSUME NEW i \in 1..Len(taken) PROVE outcome[taken[i]] = "none"
          OBVIOUS
        <4>1. Base + i \in 1..Len(admitted) /\ Base + i > Base
          BY <1>0, Places
        <4>2. taken[i] = admitted[Base + i]
          BY <1>0 DEF LayoutOK
        <4> QED BY <1>0, <4>1, <4>2 DEF OutcomesOK
      <3> QED BY <3>1, <3>2
    <2> QED BY <1>1, <2>1, <2>2, <2>3 DEF BufferedNext, Admit, FlushLock,
                                          TakeQueue, Executes, LateExecutes, bufferedVars
  <1>2. ASSUME NEW x \in Writers, log' = Append(log, x), UNCHANGED outcome
        PROVE  /\ \A w \in Writers : (\E m \in 1..Len(log) : log[m] = w)
                                   => \E m \in 1..Len(log') : log'[m] = w
               /\ \A w \in Writers : outcome[w] # "none" => outcome'[w] = outcome[w]
    <2>1. /\ Len(log') = Len(log) + 1 /\ Len(log) \in Nat
          /\ \A m \in 1..Len(log) : log'[m] = log[m]
      BY <1>0, <1>2, AppendProperties DEF TypesOK
    <2>2. \A m \in 1..Len(log) : m \in 1..Len(log')
      BY <2>1
    <2> QED BY <1>2, <2>1, <2>2
  <1>3. ASSUME NEW f \in Flushers, Executes(f)
        PROVE  \E x \in Writers : log' = Append(log, x) /\ UNCHANGED outcome
    <2>1. served + 1 \in 1..Len(taken)
      BY <1>0, <1>3, Places DEF Executes
    <2>2. taken[served + 1] \in Writers
      BY <1>0, <2>1, Places
    <2> QED BY <1>3, <2>2 DEF Executes
  <1>4. ASSUME LateExecutes PROVE \E x \in Writers : log' = Append(log, x) /\ UNCHANGED outcome
    BY <1>0, <1>4 DEF LateExecutes, TypesOK
  <1>5. UNCHANGED log \/ LateExecutes \/ \E f \in Flushers : Executes(f)
    BY DEF BufferedNext, Look, RefuseLate, Refuse, Admit, FlushLock, TakeQueue, FlushReturns,
         bufferedVars
  <1> QED BY <1>1, <1>2, <1>3, <1>4, <1>5

\* The buffered executor implements Delivery: a command Do has refused is never
\* executed, one it has queued is executed at most once and answered once, and the
\* answer is true (buffered.go:99, buffered.go:157).
THEOREM BufferedImplementsDelivery == BufferedSpec => BufferedImplements
  <1>1. BufferedInit => BufferedDelivery!Init
    <2> SUFFICES ASSUME BufferedInit PROVE BufferedDelivery!Init
      OBVIOUS
    <2>1. \A w \in Writers : {n \in DOMAIN log : log[n] = w} = {}
      BY DEF BufferedInit
    <2>2. Executed = [w \in Writers |-> 0]
      BY <2>1, FS_EmptySet DEF Executed
    <2> QED BY <2>2 DEF BufferedInit, BufferedDelivery!Init
  <1>a. BufferedInv =>
          Executed = [w \in Writers |-> IF \E m \in 1..Len(log) : log[m] = w THEN 1 ELSE 0]
    BY ExecutedIs
  <1>b. BufferedInv => /\ Base \in Nat /\ served \in 0..Len(taken)
                       /\ Len(queue) \in Nat /\ Len(taken) \in Nat
                       /\ Len(admitted) = Base + Len(taken) + Len(queue)
    BY Places DEF BufferedInv
  <1>c. BufferedInv' =>
          (Executed = [w \in Writers |-> IF \E m \in 1..Len(log) : log[m] = w THEN 1 ELSE 0])'
    BY <1>a, PTL
  <1>d. BufferedInv' => (/\ Base \in Nat /\ served \in 0..Len(taken)
                         /\ Len(queue) \in Nat /\ Len(taken) \in Nat
                         /\ Len(admitted) = Base + Len(taken) + Len(queue))'
    BY <1>b, PTL
  <1>2. BufferedInv /\ BufferedInv' /\ [BufferedNext]_bufferedVars =>
          [BufferedDelivery!Next]_BufferedDelivery!vars
    <2> SUFFICES ASSUME BufferedInv, BufferedInv',
                          [BufferedNext]_bufferedVars PROVE BufferedDelivery!Step
      BY DEF BufferedDelivery!Next
    <2>1. Executed = [w \in Writers |-> IF \E m \in 1..Len(log) : log[m] = w THEN 1 ELSE 0]
      BY ExecutedIs
    <2>2. Executed' = [w \in Writers |-> IF \E m \in 1..Len(log') : log'[m] = w THEN 1 ELSE 0]
      BY <1>c
    <2>3. /\ \A w \in Writers : (\E m \in 1..Len(log) : log[m] = w)
                                   => \E m \in 1..Len(log') : log'[m] = w
          /\ \A w \in Writers : outcome[w] # "none" => outcome'[w] = outcome[w]
      BY StepFacts
    <2>4. Executed' \in [Writers -> {0, 1}] /\ outcome' \in [Writers -> BufferedDelivery!Outcomes]
      BY <2>2 DEF BufferedInv, TypesOK, BufferedDelivery!Outcomes
    <2>5. ASSUME NEW w \in Writers
          PROVE  /\ Executed'[w] >= Executed[w]
                 /\ outcome[w] # "none" => outcome'[w] = outcome[w]
                 /\ outcome'[w] = "ok" => Executed'[w] = 1
                 /\ outcome'[w] = "not" => Executed'[w] = 0
      <3>1. Executed'[w] >= Executed[w]
        BY <2>1, <2>2, <2>3
      <3>2. outcome'[w] = "ok" => Executed'[w] = 1
        BY <2>2 DEF BufferedInv, OutcomesOK
      <3>3. ASSUME outcome'[w] = "not" PROVE Executed'[w] = 0
        <4>1. wpc'[w] = "refused"
          BY <3>3 DEF BufferedInv, OutcomesOK
        <4>2. \A m \in 1..Len(log') : \E i \in 1..Len(admitted') : log'[m] = admitted'[i]
          <5>1. /\ Base' \in Nat /\ served' \in 0..Len(taken')
                /\ Len(queue') \in Nat /\ Len(taken') \in Nat
                /\ Len(admitted') = Base' + Len(taken') + Len(queue')
            BY <1>d
          <5>a. \A b, s, n, q, a \in Nat : s <= n /\ a = b + n + q =>
                    \A i \in 1..(b + s) : i \in 1..a
            OBVIOUS
          <5>b. served' \in Nat /\ served' <= Len(taken') /\ Len(admitted') \in Nat
            BY <5>1
          <5>2. \A i \in 1..(Base' + served') : i \in 1..Len(admitted')
            BY <5>1, <5>a, <5>b
          <5> QED BY <5>2 DEF BufferedInv, ServedOK
        <4>3. \A i \in 1..Len(admitted') : wpc'[admitted'[i]] = "queued"
          BY DEF BufferedInv, LayoutOK
        <4>4. ~ \E m \in 1..Len(log') : log'[m] = w
          BY <4>1, <4>2, <4>3
        <4> QED BY <2>2, <4>4
      <3> QED BY <2>3, <3>1, <3>2, <3>3
    <2> QED BY <2>4, <2>5 DEF BufferedDelivery!Step
  <1> QED BY <1>1, <1>2, BufferedInvariant, PTL DEF BufferedSpec, BufferedImplements,
               BufferedDelivery!Spec

\* Commands that have succeeded were executed in the order of their admission, also
\* by flushes called at the same time (buffered.go:161).
THEOREM BufferedOrder == BufferedSpec => []AdmissionOrderKept
  <1>1. BufferedInv => AdmissionOrderKept
    <2> SUFFICES ASSUME BufferedInv PROVE AdmissionOrderKept
      OBVIOUS
    <2> DEFINE at(w) == CHOOSE n \in DOMAIN admitted : admitted[n] = w
    <2>0. /\ DOMAIN admitted = 1..Len(admitted) /\ DOMAIN log = 1..Len(log)
          /\ TypesOK /\ LayoutOK /\ ServedOK /\ OrderOK
      BY DEF BufferedInv, TypesOK
    <2>1. ASSUME NEW m \in DOMAIN log
          PROVE  at(log[m]) \in 1..Len(admitted) /\ admitted[at(log[m])] = log[m]
      <3>1. PICK i \in 1..(Base + served) : log[m] = admitted[i]
        BY <2>0 DEF ServedOK
      <3>2. i \in DOMAIN admitted
        BY <2>0, Places
      <3> QED BY <2>0, <3>1, <3>2
    <2>2. ASSUME NEW m \in DOMAIN log, NEW n \in DOMAIN log, m < n,
                 outcome[log[m]] = "ok", outcome[log[n]] = "ok"
          PROVE  at(log[m]) < at(log[n])
      <3>1. /\ at(log[m]) \in 1..Len(admitted) /\ admitted[at(log[m])] = log[m]
            /\ at(log[n]) \in 1..Len(admitted) /\ admitted[at(log[n])] = log[n]
        BY <2>1
      <3> HIDE DEF at
      <3>2. Good(at(log[m])) /\ Good(at(log[n]))
        BY <2>2, <3>1 DEF Good
      <3> QED BY <2>0, <2>2, <3>1, <3>2 DEF OrderOK
    <2> QED BY <2>2 DEF AdmissionOrderKept
  <1> QED BY <1>1, BufferedInvariant, PTL

\* Induction by least counterexample: a nonempty set of numbers has a least one.
LEMMA LeastNat ==
    ASSUME NEW T, T \subseteq Nat, T # {}
    PROVE \E x \in T : \A y \in T : x <= y
  <1> DEFINE R == {ss \in Nat \X Nat : ss[1] < ss[2]}
  <1>1. R = OpToRel(<, Nat)
    BY DEF OpToRel
  <1>2. IsWellFoundedOn(R, Nat)
    BY <1>1, NatLessThanWellFounded
  <1>3. \E x \in T : \A y \in T : ~ (<<y, x>> \in R)
    <2> HIDE DEF R
    <2> QED BY <1>2, WFMin
  <1>4. PICK x \in T : \A y \in T : ~ (<<y, x>> \in R)
    BY <1>3
  <1>5. ASSUME NEW y \in T PROVE x <= y
    <2>1. x \in Nat /\ y \in Nat
      OBVIOUS
    <2>2. ~ (<<y, x>> \in R)
      BY <1>4
    <2>3. ~ (y < x)
      <3>1. <<y, x>> \in Nat \X Nat
        BY <2>1
      <3>2. <<y, x>>[1] = y /\ <<y, x>>[2] = x
        OBVIOUS
      <3> QED BY <2>2, <3>1, <3>2
    <2> QED BY <2>1, <2>3
  <1> QED BY <1>5


\* g is the recursive function by which BytesOf computes, on 0..n.
IsSum(g, q, n) ==
    g = [i \in 0..n |-> IF i = 0 THEN 0 ELSE g[i - 1] + Size[q[i]]]

\* The recursive function of BytesOf exists for every queue.
LEMMA SumExists ==
    ASSUME NEW q \in Seq(Writers)
    PROVE  \A n \in 0..Len(q) : \E g : IsSum(g, q, n)
  <1> DEFINE T == {n \in 0..Len(q) : ~ \E g : IsSum(g, q, n)}
  <1> SUFFICES ASSUME T # {} PROVE FALSE
    OBVIOUS
  <1>0. Len(q) \in Nat
    OBVIOUS
  <1>1. T \subseteq Nat
    BY <1>0
  <1>2. PICK n \in T : \A y \in T : n <= y
    <2> HIDE DEF T
    <2> QED BY <1>1, LeastNat
  <1>3. CASE n = 0
    <2> DEFINE g == [i \in 0..0 |-> 0]
    <2>1. IsSum(g, q, 0)
      BY DEF IsSum
    <2> QED BY <2>1, <1>3
  <1>4. CASE n # 0
    <2>1. n \in 1..Len(q) /\ n - 1 \in 0..Len(q) /\ n - 1 \notin T
      BY <1>0, <1>2, <1>4
    <2>2. PICK g : IsSum(g, q, n - 1)
      BY <2>1
    <2> DEFINE h == [i \in 0..n |-> IF i < n THEN g[i] ELSE g[n - 1] + Size[q[n]]]
    <2>3. IsSum(h, q, n)
      <3>1. \A i \in 0..(n - 1) : g[i] = IF i = 0 THEN 0 ELSE g[i - 1] + Size[q[i]]
        BY <2>2, <2>1 DEF IsSum
      <3>2. \A i \in 0..n : h[i] = IF i = 0 THEN 0 ELSE h[i - 1] + Size[q[i]]
        BY <3>1, <2>1
      <3> QED BY <3>2 DEF IsSum
    <2> QED BY <2>3
  <1> QED BY <1>3, <1>4

\* BytesOf is the last value of that function.
LEMMA BytesIsSum ==
    ASSUME NEW q \in Seq(Writers)
    PROVE  \E g : IsSum(g, q, Len(q)) /\ BytesOf(q) = g[Len(q)]
  <1>1. \E g : IsSum(g, q, Len(q))
    BY SumExists
  <1> DEFINE k == CHOOSE g : IsSum(g, q, Len(q))
  <1>2. IsSum(k, q, Len(q))
    BY <1>1
  <1>3. BytesOf(q) = k[Len(q)]
    BY Zenon DEF BytesOf, IsSum
  <1> QED BY <1>2, <1>3

\* A queue that grows by a command grows by its bytes.
LEMMA BytesAppend ==
    ASSUME NEW q \in Seq(Writers), NEW w \in Writers
    PROVE  BytesOf(Append(q, w)) = BytesOf(q) + Size[w]
  <1> DEFINE r == Append(q, w)
  <1>0. /\ Len(q) \in Nat /\ r \in Seq(Writers) /\ Len(r) = Len(q) + 1
        /\ \A i \in 1..Len(q) : r[i] = q[i]
        /\ r[Len(q) + 1] = w
    BY AppendProperties
  <1> HIDE DEF r
  <1>1. PICK g : IsSum(g, q, Len(q)) /\ BytesOf(q) = g[Len(q)]
    BY BytesIsSum
  <1>2. PICK h : IsSum(h, r, Len(r)) /\ BytesOf(r) = h[Len(r)]
    BY <1>0, BytesIsSum
  <1>3. /\ \A i \in 0..Len(q) : g[i] = IF i = 0 THEN 0 ELSE g[i - 1] + Size[q[i]]
        /\ \A i \in 0..Len(r) : h[i] = IF i = 0 THEN 0 ELSE h[i - 1] + Size[r[i]]
    BY <1>0, <1>1, <1>2 DEF IsSum
  <1>4. \A n \in 0..Len(q) : h[n] = g[n]
    <2> DEFINE T == {n \in 0..Len(q) : h[n] # g[n]}
    <2> SUFFICES ASSUME T # {} PROVE FALSE
      OBVIOUS
    <2>1. T \subseteq Nat
      BY <1>0
    <2>2. PICK n \in T : \A y \in T : n <= y
      <3> HIDE DEF T
      <3> QED BY <2>1, LeastNat
    <2>3. n \in 0..Len(q) /\ h[n] # g[n] /\ n \in 0..Len(r)
      BY <1>0, <2>2
    <2>4. CASE n = 0
      BY <1>3, <2>3, <2>4
    <2>5. CASE n # 0
      <3>1. n - 1 \in 0..Len(q) /\ n - 1 \notin T /\ n \in 1..Len(q)
        BY <1>0, <2>2, <2>3, <2>5
      <3>2. h[n - 1] = g[n - 1] /\ r[n] = q[n]
        BY <1>0, <3>1
      <3> QED BY <1>3, <2>3, <2>5, <3>2
    <2> QED BY <2>4, <2>5
  <1>5. h[Len(r)] = h[Len(q)] + Size[w]
    BY <1>0, <1>3
  <1> QED BY <1>0, <1>1, <1>2, <1>4, <1>5 DEF r

\* An empty queue retains nothing.
LEMMA BytesEmpty == BytesOf(<<>>) = 0
  <1>1. <<>> \in Seq(Writers) /\ Len(<<>>) = 0
    OBVIOUS
  <1>2. PICK g : IsSum(g, <<>>, 0) /\ BytesOf(<<>>) = g[0]
    BY <1>1, BytesIsSum
  <1> QED BY <1>2 DEF IsSum

\* The queue never holds more commands or bytes than its bounds, although Do looks at
\* it twice and sizes the command in between, and queuedBytes is what it holds
\* (buffered.go:127).
THEOREM BufferedWithinBounds == BufferedSpec => []WithinBounds
  <1> DEFINE B == queuedBytes \in Nat /\ WithinBounds
  <1>1. BufferedInit => B
    BY BytesEmpty, BufferedConstants DEF BufferedInit, WithinBounds
  <1>2. BufferedInv /\ B /\ [BufferedNext]_bufferedVars => B'
    <2> SUFFICES ASSUME BufferedInv, B, [BufferedNext]_bufferedVars PROVE B'
      OBVIOUS
    <2>1. CASE UNCHANGED <<queue, queuedBytes>>
      BY <2>1 DEF WithinBounds
    <2>2. ASSUME NEW w \in Writers, Admit(w) PROVE B'
      <3>1. queue \in Seq(Writers) /\ Size[w] \in Nat /\ MaxCommands \in Nat /\ BufferBytes \in Nat
        BY BufferedConstants DEF BufferedInv, TypesOK
      <3>2. BytesOf(queue') = BytesOf(queue) + Size[w]
        BY <2>2, <3>1, BytesAppend DEF Admit
      <3>3. Len(queue') = Len(queue) + 1 /\ Len(queue) \in Nat
        BY <2>2, <3>1 DEF Admit
      <3>4. Len(queue') <= MaxCommands
        BY <2>2, <3>1, <3>3 DEF Admit, Fits
      <3>5. queuedBytes' = queuedBytes + Size[w] /\ Size[w] <= BufferBytes - queuedBytes
        BY <2>2 DEF Admit, Fits
      <3> QED BY <3>1, <3>2, <3>4, <3>5 DEF WithinBounds
    <2>3. ASSUME NEW f \in Flushers, TakeQueue(f), queue' = <<>>, queuedBytes' = 0 PROVE B'
      BY <2>3, BytesEmpty, BufferedConstants DEF WithinBounds
    <2> QED BY <2>1, <2>2, <2>3 DEF BufferedNext, Look, RefuseLate, Refuse, FlushLock,
                                    TakeQueue, Executes, FlushReturns, LateExecutes, bufferedVars
  <1> QED BY <1>1, <1>2, BufferedInvariant, PTL DEF BufferedSpec

-----------------------------------------------------------------------------
(* The HTTP executor.                                                         *)

\* Types.
HttpTypes ==
    /\ batched \subseteq Posted /\ custom \in BOOLEAN /\ overdue \in BOOLEAN
    /\ stage \in {"start", "sent", "read", "check", "done"}
    /\ chain \in Seq(Origins) /\ headers \subseteq AllHeaders /\ method \in {"POST", "GET"}
    /\ answer \in [Posted -> {"none", "ok", "error"}]
    /\ performed \in [Posted -> {0, 1}]
    /\ results \in [Posted -> {"none", "ok", "not", "unknown"}]

\* Nothing is executed before the request is sent, nor by a server that answers with
\* 307 or 308; nobody is answered before the call returns; a result the server has given
\* is of a command that has been executed, unless it came back on a GET; and answers are
\* true, with the same exception.
HttpTrue ==
    /\ stage \in {"start", "sent"} /\ method = "POST" => \A c \in Posted : performed[c] = 0
    /\ stage = "start" => method = "POST"
    /\ stage # "done" => \A c \in Posted : results[c] = "none"
    /\ method = "POST" => \A c \in Posted : answer[c] = "ok" => performed[c] = 1
    /\ method = "POST" => \A c \in Posted : results[c] = "ok" => performed[c] = 1
    /\ \A c \in Posted : results[c] = "not" => performed[c] = 0

\* The inductive invariant; CredentialsStayHome is inductive as it stands, because
\* hasUnsafeHTTPRedirectHop looks at the whole chain.
HttpInv == HttpTypes /\ HttpTrue /\ CredentialsStayHome

\* The invariant holds initially.
LEMMA HttpStarts == HttpInit => HttpInv
  <1> SUFFICES ASSUME HttpInit PROVE HttpInv
    OBVIOUS
  <1>1. HttpTypes
    <2>1. /\ custom \in BOOLEAN /\ batched \subseteq Posted
          /\ headers \subseteq AllHeaders /\ overdue \in BOOLEAN
      BY Zenon DEF HttpInit
    <2>2. /\ stage = "start" /\ chain \in Seq(Origins) /\ method = "POST"
          /\ answer \in [Posted -> {"none", "ok", "error"}]
          /\ performed \in [Posted -> {0, 1}]
          /\ results \in [Posted -> {"none", "ok", "not", "unknown"}]
      BY DEF HttpInit
    <2> QED BY <2>1, <2>2 DEF HttpTypes
  <1>2. HttpTrue
    BY DEF HttpInit, HttpTrue
  <1>3. CredentialsStayHome
    BY DEF HttpInit, CredentialsStayHome
  <1> QED BY <1>1, <1>2, <1>3 DEF HttpInv

\* Each step keeps the invariant, and is a step of Delivery or leaves it as it is.
LEMMA HttpStep ==
    ASSUME HttpInv, [HttpNext]_httpVars
    PROVE  HttpInv' /\ [HttpDelivery!Next]_HttpDelivery!vars
  <1>0. HttpTypes /\ HttpTrue /\ CredentialsStayHome
    BY DEF HttpInv
  <1> DEFINE Step == /\ \A c \in Posted : performed'[c] >= performed[c]
                     /\ \A c \in Posted : results[c] # "none" =>
                          results'[c] = results[c] /\ UNCHANGED method
  <1>a. ASSUME HttpTypes', HttpTrue', Step PROVE [HttpDelivery!Next]_HttpDelivery!vars
    <2>1. performed' \in [Posted -> {0, 1}] /\ \A c \in Posted : performed'[c] >= performed[c]
      BY <1>a DEF HttpTypes
    <2>2. Vouched' \in [Posted -> HttpDelivery!Outcomes]
      BY <1>a DEF HttpDelivery!Outcomes, HttpTypes, Vouched
    <2>3. ASSUME NEW c \in Posted
          PROVE  /\ Vouched[c] # "none" => Vouched'[c] = Vouched[c]
                 /\ Vouched'[c] = "ok" => performed'[c] = 1
                 /\ Vouched'[c] = "not" => performed'[c] = 0
      BY <1>0, <1>a DEF HttpTypes, HttpTrue, Vouched
    <2> QED BY <2>1, <2>2, <2>3 DEF HttpDelivery!Next, HttpDelivery!Step
  <1>b. ASSUME stage' # "sent" \/ UNCHANGED <<stage, custom, chain, headers, method>>
        PROVE  CredentialsStayHome'
    BY <1>0, <1>b DEF CredentialsStayHome
  <1>1. CASE UNCHANGED httpVars
    <2>1. HttpTypes' /\ HttpTrue'
      BY <1>0, <1>1 DEF HttpTypes, HttpTrue, httpVars
    <2>2. Step
      BY <1>0, <1>1 DEF HttpTypes, httpVars
    <2>3. CredentialsStayHome'
      BY <1>1, <1>b DEF httpVars
    <2> QED BY <1>a, <2>1, <2>2, <2>3 DEF HttpInv
  <1>2. CASE NotSent
    <2>1. HttpTypes'
      BY <1>0, <1>2 DEF NotSent, Returns, HttpTypes
    <2>2. HttpTrue' /\ Step
      BY <1>0, <1>2 DEF NotSent, Returns, HttpTypes, HttpTrue
    <2>3. CredentialsStayHome'
      BY <1>2, <1>b DEF NotSent, Returns
    <2> QED BY <1>a, <2>1, <2>2, <2>3 DEF HttpInv
  <1>3. CASE Submit
    <2>1. HttpTypes'
      <3>1. <<Home>> \in Seq(Origins)
        BY DEF Origins
      <3> QED BY <1>0, <1>3, <3>1 DEF Submit, HttpTypes
    <2>2. HttpTrue' /\ Step
      BY <1>0, <1>3 DEF Submit, HttpTypes, HttpTrue
    <2>3. CredentialsStayHome'
      BY <1>3 DEF Submit, CredentialsStayHome, Unsafe
    <2> QED BY <1>a, <2>1, <2>2, <2>3 DEF HttpInv
  <1>4. CASE Serve
    <2>0. PICK done \in SUBSET batched, ok \in SUBSET batched :
             /\ ok \subseteq done
             /\ Performs(done)
             /\ answer' = [c \in Posted |-> IF c \in ok THEN "ok" ELSE "error"]
      BY <1>4 DEF Serve
    <2>a. /\ UNCHANGED <<batched, custom, closed, overdue, chain, method, headers, results>>
          /\ stage = "sent" /\ stage' = "read" /\ method = "POST"
      BY <1>4 DEF Serve
    <2>b. performed' = [c \in Posted |-> IF c \in done THEN 1 ELSE 0]
      BY <1>0, <2>0, <2>a DEF Performs, HttpTypes, HttpTrue
    <2>1. HttpTypes'
      BY <1>0, <2>0, <2>a, <2>b DEF HttpTypes
    <2>2. HttpTrue' /\ Step
      BY <1>0, <2>0, <2>a, <2>b DEF HttpTypes, HttpTrue
    <2>3. CredentialsStayHome'
      BY <2>a, <1>b
    <2> QED BY <1>a, <2>1, <2>2, <2>3 DEF HttpInv
  <1>5. CASE ServeGet
    <2>1. HttpTypes'
      BY <1>0, <1>5 DEF ServeGet, HttpTypes
    <2>2. HttpTrue' /\ Step
      BY <1>0, <1>5 DEF ServeGet, HttpTypes, HttpTrue
    <2>3. CredentialsStayHome'
      BY <1>5, <1>b DEF ServeGet
    <2> QED BY <1>a, <2>1, <2>2, <2>3 DEF HttpInv
  <1>6. CASE TransportFails
    <2>a. /\ UNCHANGED <<batched, custom, closed, overdue, chain, method, headers, answer>>
          /\ stage \in {"sent", "read"} /\ stage' = "done"
          /\ results' = [c \in Posted |-> IF c \in batched THEN "unknown" ELSE results[c]]
      BY <1>6 DEF TransportFails, Returns
    <2>b. /\ performed' \in [Posted -> {0, 1}]
          /\ \A c \in Posted : performed'[c] >= performed[c]
      <3>1. CASE UNCHANGED performed
        BY <1>0, <3>1 DEF HttpTypes
      <3>2. ASSUME stage = "sent", method = "POST",
                   NEW done \in SUBSET batched, Performs(done)
            PROVE  /\ performed' \in [Posted -> {0, 1}]
                   /\ \A c \in Posted : performed'[c] >= performed[c]
        BY <1>0, <3>2 DEF Performs, HttpTypes, HttpTrue
      <3> QED BY <1>6, <3>1, <3>2 DEF TransportFails
    <2>1. HttpTypes'
      BY <1>0, <2>a, <2>b DEF HttpTypes
    <2>2. HttpTrue' /\ Step
      BY <1>0, <2>a, <2>b DEF HttpTypes, HttpTrue
    <2>3. CredentialsStayHome'
      BY <2>a, <1>b
    <2> QED BY <1>a, <2>1, <2>2, <2>3 DEF HttpInv
  <1>7. CASE Redirect
    <2>a. UNCHANGED <<batched, custom, closed, overdue, answer>> /\ stage = "sent"
      BY <1>7 DEF Redirect
    <2>b. PICK to \in Origins, m \in {"GET", method} :
            LET hops == Append(chain, to)
                refused == Len(chain) >= MaxHops \/ (~ custom /\ CrossOrigin(hops) /\ m = "POST")
            IN /\ IF refused
                  THEN Returns("unknown") /\ UNCHANGED <<chain, method, headers>>
                  ELSE /\ chain' = hops
                       /\ method' = m
                       /\ headers' \in IF custom THEN SUBSET AllHeaders
                                       ELSE {HeadersAfter(hops, m)}
                       /\ UNCHANGED <<stage, results>>
               /\ IF m # method THEN \E done \in SUBSET batched : Performs(done)
                  ELSE UNCHANGED performed
      BY <1>7 DEF Redirect
    <2>c. m \in {"GET", "POST"}
      BY <1>0 DEF HttpTypes
    <2>d. /\ performed' \in [Posted -> {0, 1}]
          /\ \A c \in Posted : performed'[c] >= performed[c]
          /\ m # method \/ UNCHANGED performed
      <3>1. CASE UNCHANGED performed
        BY <1>0, <3>1 DEF HttpTypes
      <3>2. ASSUME m # method, NEW done \in SUBSET batched, Performs(done)
            PROVE  /\ performed' \in [Posted -> {0, 1}]
                   /\ \A c \in Posted : performed'[c] >= performed[c]
        <4>1. \A c \in Posted : performed[c] = 0
          BY <1>0, <2>a, <2>b, <2>c, <3>2 DEF HttpTrue, HttpTypes
        <4> QED BY <1>0, <3>2, <4>1 DEF Performs, HttpTypes
      <3> QED BY <2>b, <3>1, <3>2
    <2>1. CASE Returns("unknown") /\ UNCHANGED <<chain, method, headers>>
      <3>1. HttpTypes'
        BY <1>0, <2>a, <2>d, <2>1 DEF Returns, HttpTypes
      <3>2. HttpTrue' /\ Step
        BY <1>0, <2>a, <2>d, <2>1 DEF Returns, HttpTypes, HttpTrue
      <3>3. CredentialsStayHome'
        BY <2>1, <1>b DEF Returns
      <3> QED BY <1>a, <3>1, <3>2, <3>3 DEF HttpInv
    <2>2. CASE /\ chain' = Append(chain, to) /\ method' = m
               /\ custom \/ ~ CrossOrigin(Append(chain, to)) \/ m # "POST"
               /\ headers' \in IF custom THEN SUBSET AllHeaders
                               ELSE {HeadersAfter(Append(chain, to), m)}
               /\ UNCHANGED <<stage, results>>
      <3>0. headers' \subseteq AllHeaders
        BY <2>2 DEF HeadersAfter
      <3>1. HttpTypes'
        BY <1>0, <2>a, <2>2, <2>c, <2>d, <3>0, AppendProperties DEF HttpTypes
      <3>2. HttpTrue' /\ Step
        BY <1>0, <2>a, <2>2, <2>c, <2>d DEF HttpTypes, HttpTrue
      <3>3. CredentialsStayHome'
        BY <2>a, <2>2, <2>c DEF CredentialsStayHome, HeadersAfter, CrossOrigin
      <3> QED BY <1>a, <3>1, <3>2, <3>3 DEF HttpInv
    <2> QED BY <2>b, <2>1, <2>2
  <1>8. CASE ReadFails
    <2>1. HttpTypes'
      BY <1>0, <1>8 DEF ReadFails, Returns, HttpTypes
    <2>2. HttpTrue' /\ Step
      BY <1>0, <1>8 DEF ReadFails, Returns, HttpTypes, HttpTrue
    <2>3. CredentialsStayHome'
      BY <1>8, <1>b DEF ReadFails, Returns
    <2> QED BY <1>a, <2>1, <2>2, <2>3 DEF HttpInv
  <1>9. CASE Decode
    <2>1. HttpTypes'
      BY <1>0, <1>9 DEF Decode, Returns, HttpTypes
    <2>2. HttpTrue' /\ Step
      BY <1>0, <1>9 DEF Decode, Returns, HttpTypes, HttpTrue
    <2>3. CredentialsStayHome'
      BY <1>9, <1>b DEF Decode, Returns
    <2> QED BY <1>a, <2>1, <2>2, <2>3 DEF HttpInv
  <1>10. CASE Deliver
    <2>1. HttpTypes'
      BY <1>0, <1>10 DEF Deliver, HttpTypes
    <2>2. HttpTrue' /\ Step
      BY <1>0, <1>10 DEF Deliver, HttpTypes, HttpTrue
    <2>3. CredentialsStayHome'
      BY <1>10, <1>b DEF Deliver
    <2> QED BY <1>a, <2>1, <2>2, <2>3 DEF HttpInv
  <1>11. CASE PostExpires \/ CloseHttp
    <2>1. HttpTypes'
      BY <1>0, <1>11 DEF PostExpires, CloseHttp, HttpTypes
    <2>2. HttpTrue' /\ Step
      BY <1>0, <1>11 DEF PostExpires, CloseHttp, HttpTypes, HttpTrue
    <2>3. CredentialsStayHome'
      BY <1>11, <1>b DEF PostExpires, CloseHttp
    <2> QED BY <1>a, <2>1, <2>2, <2>3 DEF HttpInv
  <1> QED BY <1>1, <1>2, <1>3, <1>4, <1>5, <1>6, <1>7, <1>8, <1>9, <1>10, <1>11 DEF HttpNext

\* A batch on the HTTP executor implements Delivery: each command is executed at most
\* once, answered once, and the answer is true, through redirects, broken answers and
\* deadlines that pass while the answer is decoded (http_executor.go:246).  A success
\* that came back on a GET counts as an outcome that is not known: the code accepts it
\* (http_executor.go:284), and it may be of a command nobody has executed.
THEOREM HttpImplementsDelivery == HttpSpec => HttpImplements
  <1>1. HttpInit => HttpDelivery!Init
    BY DEF HttpInit, HttpDelivery!Init, Vouched
  <1>2. HttpInv /\ [HttpNext]_httpVars => HttpInv' /\ [HttpDelivery!Next]_HttpDelivery!vars
    BY HttpStep
  <1> QED BY <1>1, <1>2, HttpStarts, PTL DEF HttpSpec, HttpImplements, HttpDelivery!Spec

\* Credentials and bodies never follow a redirect to another origin, nor back home
\* through one, however long the chain is (http_redirect.go:218).
THEOREM HttpCredentials == HttpSpec => []CredentialsStayHome
  <1>1. HttpInv /\ [HttpNext]_httpVars => HttpInv'
    BY HttpStep
  <1>2. HttpInv => CredentialsStayHome
    BY DEF HttpInv
  <1> QED BY <1>1, <1>2, HttpStarts, PTL DEF HttpSpec

-----------------------------------------------------------------------------
(* Pipelines of the topology executor: the invariant.                         *)

BatchPlaces == {"route", "flush", "wave", "scatter", "gather", "end"}
BatchTypes ==
    /\ pipeline \in Pipelines
    /\ known \in 0..MaxEpoch /\ epoch \in 1..MaxEpoch /\ snap \in 0..MaxEpoch
    /\ where \in BatchPlaces
    /\ index \in 1..(Len(pipeline) + 1)
    /\ tasks \subseteq Task
    /\ total \in Nat /\ failed \in BOOLEAN
    /\ told \in [Units -> {"none", "ok", "not", "unknown"}]
    /\ history \in Seq(Units)

\* The wave holds routed commands that the loop has passed, all with a route in its
\* layout.  It is empty while a command without a single route is dealt with.
WaveOK ==
    /\ wave \subseteq 1..(index - 1)
    /\ \A i \in wave : pipeline[i].kind = "routed"
    /\ Routes(snap, WaveKeys)
    /\ where \in {"scatter", "gather", "end"} => wave = {}
    /\ where \in {"scatter", "gather"} => index <= Len(pipeline) /\ Command.kind # "routed"
    /\ where = "gather" => Command.kind = "scatter"
    /\ where = "end" => index = Len(pipeline) + 1

\* The units of a task.
Has(t) == RangeOf(t.units)

\* The units of a task are in the order of the pipeline; a group of a wave is answered
\* one by one, another request as a whole; one that is planned again was refused.
TaskOK(t) ==
    /\ t.units # <<>>
    /\ \A m, n \in 1..Len(t.units) : m < n => /\ t.units[m] # t.units[n]
                                               /\ t.units[m][1] <= t.units[n][1]
    /\ Len(t.answers) <= Len(t.units)
    /\ t.st = "new" => t.answers = <<>>
    /\ t.st = "replan" => /\ Len(t.answers) = Len(t.units)
                          /\ \A n \in 1..Len(t.answers) : t.answers[n] = "moved"
    /\ t.kind # "wave" => /\ Len(t.answers) \in {0, Len(t.units)}
                          /\ \A m, n \in 1..Len(t.answers) : t.answers[m] = t.answers[n]

\* Tasks run for the wave or for the command at hand, and no key is in two of them.
TasksOK ==
    /\ \A t \in tasks : TaskOK(t)
    /\ tasks # {} => where \in {"wave", "gather"}
    /\ where = "wave" => \A t \in tasks :
          t.kind = "wave" /\ \A u \in Has(t) : u[1] \in wave /\ u[2] = TheKey(u[1])
    /\ where = "gather" => \A t \in tasks :
          t.kind # "wave" /\ \A u \in Has(t) : u[1] = index /\ u[2] \in Command.keys
    /\ \A t, s \in tasks : t # s => \A u \in Has(t), v \in Has(s) : u[2] # v[2]

\* What was executed: each unit once, and of one that has no answer yet the task knows.
Reported(u) == \E t \in tasks : \E n \in 1..Len(t.answers) :
    t.units[n] = u /\ t.answers[n] # "moved"
HistoryOK ==
    /\ \A m, n \in 1..Len(history) : m # n => history[m] # history[n]
    /\ \A m \in 1..Len(history) : told[history[m]] \in {"ok", "unknown"} \/ Reported(history[m])

\* What nobody waits for: its requests share no unit, and each of their units was not
\* executed and is one the caller will not get an answer to.
Ran(u) == \E m \in 1..Len(history) : history[m] = u
Stray(u) == \E c \in stranded : u \in Has(c)
Out(u) == Ran(u) \/ Stray(u)
StrandedSound ==
    /\ \A c \in stranded : /\ c.units \in Seq(Units) /\ c.units # <<>>
                           /\ \A m, n \in 1..Len(c.units) : m < n => c.units[m] # c.units[n]
    /\ \A c, d \in stranded : c # d => Has(c) \cap Has(d) = {}
StrandedOK == StrandedSound /\ \A u \in Units : Stray(u) => ~ Ran(u) /\ Uncertain(u)

\* Answers are true: those the caller has, and those the tasks have.
TrueOK ==
    /\ \A u \in Units : told[u] = "ok" => Ran(u)
    /\ \A t \in tasks : \A n \in 1..Len(t.answers) : t.answers[n] = "ok" => Ran(t.units[n])

\* Who has no answer yet: the units of the tasks, of the wave that waits, and of what
\* the loop has not come to.
FreshOK ==
    /\ \A t \in tasks : \A u \in Has(t) : told[u] = "none"
    /\ where \in {"route", "flush"} => \A u \in Units : u[1] \in wave => told[u] = "none"
    /\ \A u \in Units : u[1] > index \/ (u[1] = index /\ where # "gather") => told[u] = "none"

\* The order of execution: nothing that was executed, or may be although nobody waits for
\* it, is of a later command, or of the wave that waits or later; for a unit of a task,
\* nothing of its key outside the task is.
Before(v, u) == v[2] \in {u[2], NoKey} => v[1] <= u[1]
SequenceOK ==
    /\ PipelineOrderKept
    /\ \A v \in Units : Out(v) => IF where = "gather" THEN v[1] <= index ELSE v[1] < index
    /\ where \in {"route", "flush"} => \A v \in Units : Out(v) => \A i \in wave : v[1] < i
    /\ \A t \in tasks : \A u \in Has(t) : \A v \in Units :
          Out(v) => v \in Has(t) \/ Before(v, u)

\* Nobody is forgotten.
Settled(u) == told[u] # "none" \/ \E t \in tasks : u \in Has(t)
AnsweredOK ==
    /\ \A i \in 1..(index - 1) : i \notin wave => \A u \in UnitsOf(i) : told[u] # "none"
    /\ where = "wave" => \A i \in wave : \A u \in UnitsOf(i) : Settled(u)
    /\ where = "gather" => \A u \in UnitsOf(index) : Settled(u)

\* The count of the scatter command.
CountOK ==
    where = "gather" =>
        /\ total = Cardinality({u \in UnitsOf(index) : told[u] = "ok"})
        /\ ~ failed => \A u \in UnitsOf(index) : told[u] \in {"none", "ok"}

BatchInv ==
    /\ BatchTypes /\ WaveOK /\ TasksOK /\ HistoryOK /\ StrandedOK /\ TrueOK /\ FreshOK
    /\ SequenceOK /\ AnsweredOK /\ CountOK

-----------------------------------------------------------------------------
(* Commands and units.                                                        *)

LEMMA TheCommands ==
    ASSUME BatchTypes
    PROVE  /\ pipeline \in Seq(Spoken) /\ Len(pipeline) \in 0..Longest /\ index \in Nat
           /\ \A i \in 1..Len(pipeline) : pipeline[i] \in Spoken /\ i \in 1..Longest
  <1>1. pipeline \in Pipelines /\ index \in 1..(Len(pipeline) + 1)
    BY DEF BatchTypes
  <1>2. pipeline \in Seq(Spoken) /\ Len(pipeline) <= Longest /\ Longest \in Nat
    BY <1>1, BatchConstants
  <1> HIDE DEF Spoken
  <1> QED BY <1>1, <1>2, LenProperties, ElementOfSeq

\* A routed command has one key, a scatter command at least one.
LEMMA SpokenKeys ==
    ASSUME NEW c \in Spoken
    PROVE  /\ c.kind \in {"routed", "scatter", "control"}
           /\ c.keys \subseteq Keys
           /\ c.kind = "routed" => \E k \in Keys : c.keys = {k}
           /\ c.kind = "scatter" => c.keys # {}
  <1>1. ASSUME NEW K, NEW S,
               c \in [kind : K, keys : S, never : BOOLEAN, destructive : BOOLEAN, typed : BOOLEAN]
        PROVE  c.kind \in K /\ c.keys \in S
    BY <1>1
  <1>2. \/ c.kind \in {"routed"} /\ c.keys \in {{k} : k \in Keys}
        \/ c.kind \in {"scatter"} /\ c.keys \in (SUBSET Keys) \ {{}}
        \/ c.kind \in {"control"} /\ c.keys \in {{}}
    BY <1>1 DEF Spoken
  <1>3. CASE c.kind \in {"routed"} /\ c.keys \in {{k} : k \in Keys}
    BY <1>3
  <1>4. CASE c.kind \in {"scatter"} /\ c.keys \in (SUBSET Keys) \ {{}}
    BY <1>4
  <1>5. CASE c.kind \in {"control"} /\ c.keys \in {{}}
    BY <1>5
  <1> QED BY <1>2, <1>3, <1>4, <1>5

LEMMA UnitsAre ==
    ASSUME BatchTypes, NEW i \in 1..Len(pipeline)
    PROVE  /\ UnitsOf(i) \subseteq Units
           /\ \A u \in UnitsOf(i) : u[1] = i
           /\ pipeline[i].kind \in {"routed", "scatter", "control"}
           /\ pipeline[i].keys \subseteq Keys /\ IsFiniteSet(pipeline[i].keys)
           /\ pipeline[i].kind = "routed" => /\ UnitsOf(i) = {<<i, TheKey(i)>>}
                                             /\ pipeline[i].keys = {TheKey(i)}
                                             /\ TheKey(i) \in Keys
           /\ pipeline[i].kind = "scatter" => /\ pipeline[i].keys # {}
                                              /\ UnitsOf(i) = {i} \X pipeline[i].keys
           /\ pipeline[i].kind = "control" => UnitsOf(i) = {<<i, NoKey>>}
  <1>0. i \in 1..Longest /\ pipeline[i] \in Spoken
    BY TheCommands
  <1> DEFINE c == pipeline[i]
  <1>1. /\ c.kind \in {"routed", "scatter", "control"}
        /\ c.keys \subseteq Keys
        /\ c.kind = "routed" => \E k \in Keys : c.keys = {k}
        /\ c.kind = "scatter" => c.keys # {}
    BY <1>0, SpokenKeys
  <1>2. IsFiniteSet(c.keys)
    BY <1>1, BatchConstants, FS_Subset
  <1> HIDE DEF c
  <1>3. UnitsOf(i) = {i} \X (IF c.kind = "control" THEN {NoKey} ELSE c.keys)
    BY DEF UnitsOf, c
  <1>4. UnitsOf(i) \subseteq Units /\ \A u \in UnitsOf(i) : u[1] = i
    BY <1>0, <1>1, <1>3 DEF Units
  <1>5. ASSUME c.kind = "routed" PROVE /\ UnitsOf(i) = {<<i, TheKey(i)>>}
                                       /\ c.keys = {TheKey(i)} /\ TheKey(i) \in Keys
    <2>1. PICK k \in Keys : c.keys = {k}
      BY <1>1, <1>5
    <2>2. TheKey(i) = k
      BY <2>1 DEF TheKey, c
    <2> QED BY <1>3, <1>5, <2>1, <2>2
  <1>6. c.kind = "scatter" => UnitsOf(i) = {i} \X c.keys
    BY <1>3
  <1>7. c.kind = "control" => UnitsOf(i) = {<<i, NoKey>>}
    BY <1>3
  <1> QED BY <1>1, <1>2, <1>4, <1>5, <1>6, <1>7 DEF c

-----------------------------------------------------------------------------
(* Numbers in ascending order, and keys in some order.                        *)

\* Every finite set of positive numbers has an ascending enumeration.
LEMMA AscendingIs ==
    ASSUME NEW N \in Nat, NEW S, S \subseteq 1..N
    PROVE  /\ Ascending(S) \in [1..Cardinality(S) -> S] /\ Cardinality(S) \in Nat
           /\ RangeOf(Ascending(S)) = S
           /\ \A m, n \in 1..Cardinality(S) : m < n => Ascending(S)[m] < Ascending(S)[n]
  <1> DEFINE Listed(s, T) == /\ s \in [1..Cardinality(T) -> T] /\ RangeOf(s) = T
                           /\ \A m, n \in DOMAIN s : m < n => s[m] < s[n]
             Bad == {c \in Nat : \E T \in SUBSET (1..N) : Cardinality(T) = c /\ ~ \E s : Listed(s,
               T)}
  <1>0. \A T \in SUBSET (1..N) : IsFiniteSet(T) /\ Cardinality(T) \in Nat
    <2>1. IsFiniteSet(1..N)
      BY FS_Interval
    <2> QED BY <2>1, FS_Subset, FS_CardinalityType
  <1>1. Bad = {}
    <2> SUFFICES ASSUME Bad # {} PROVE FALSE
      OBVIOUS
    <2>1. PICK c \in Bad : \A d \in Bad : c <= d
      BY LeastNat
    <2>2. PICK T \in SUBSET (1..N) : Cardinality(T) = c /\ ~ \E s : Listed(s, T)
      BY <2>1
    <2>3. c # 0
      <3> SUFFICES ASSUME c = 0 PROVE FALSE
        OBVIOUS
      <3>1. T = {}
        BY <1>0, <2>2, FS_EmptySet
      <3> DEFINE e == [x \in 1..0 |-> x]
      <3>2. Cardinality(T) = 0 /\ DOMAIN e = {} /\ e \in [1..0 -> {}]
        BY <2>2
      <3>3. RangeOf(e) = {}
        BY <3>2 DEF RangeOf
      <3>4. Listed(e, T)
        BY <3>1, <3>2, <3>3
      <3> QED BY <2>2, <3>4
    <2>4. PICK x \in T : \A y \in T : y <= x
      <3> DEFINE Below == {N - y : y \in T}
      <3>1. Below \subseteq Nat /\ Below # {}
        <4>1. T # {}
          BY <2>2, <2>3, FS_EmptySet
        <4>2. \A y \in T : N - y \in Nat
          OBVIOUS
        <4> QED BY <4>1, <4>2
      <3> HIDE DEF Below
      <3>2. PICK b \in Below : \A d \in Below : b <= d
        BY <3>1, LeastNat
      <3>3. PICK x \in T : b = N - x
        BY <3>2 DEF Below
      <3>4. ASSUME NEW y \in T PROVE y <= x
        <4>1. N - y \in Below
          BY DEF Below
        <4>2. x \in 1..N /\ y \in 1..N
          OBVIOUS
        <4> QED BY <3>2, <3>3, <4>1, <4>2
      <3> QED BY <3>4
    <2> DEFINE R == T \ {x}
    <2>5. R \in SUBSET (1..N) /\ Cardinality(R) = c - 1 /\ c - 1 \in Nat
      BY <1>0, <2>2, <2>3, <2>1, FS_RemoveElement
    <2>6. PICK s : Listed(s, R)
      <3>1. c - 1 \notin Bad
        BY <2>1, <2>5
      <3> QED BY <3>1, <2>5
    <2> DEFINE f == [m \in 1..c |-> IF m = c THEN x ELSE s[m]]
    <2>7. /\ s \in [1..(c - 1) -> R] /\ RangeOf(s) = R
          /\ \A m, n \in 1..(c - 1) : m < n => s[m] < s[n]
      BY <2>5, <2>6
    <2>8. c \in Nat \ {0} /\ \A m \in 1..c : m = c \/ m \in 1..(c - 1)
      BY <2>1, <2>3
    <2>9. \A m \in 1..(c - 1) : s[m] \in T /\ s[m] < x
      <3> SUFFICES ASSUME NEW m \in 1..(c - 1) PROVE s[m] \in T /\ s[m] < x
        OBVIOUS
      <3>1. s[m] \in T /\ s[m] # x
        BY <2>7
      <3>2. s[m] <= x /\ s[m] \in 1..N /\ x \in 1..N
        BY <3>1, <2>4
      <3> QED BY <3>1, <3>2
    <2>10. f \in [1..c -> T]
      BY <2>8, <2>9
    <2>11. RangeOf(f) = T
      <3>1. ASSUME NEW y \in T PROVE y \in RangeOf(f)
        <4>1. CASE y = x
          <5>1. c \in DOMAIN f /\ f[c] = x
            BY <2>8
          <5> QED BY <4>1, <5>1 DEF RangeOf
        <4>2. CASE y # x
          <5>1. y \in RangeOf(s)
            BY <4>2, <2>7
          <5>2. PICK m \in 1..(c - 1) : s[m] = y
            BY <5>1, <2>7 DEF RangeOf
          <5>3. m \in 1..c /\ m # c
            BY <2>8
          <5> QED BY <5>2, <5>3 DEF RangeOf
        <4> QED BY <4>1, <4>2
      <3>2. RangeOf(f) \subseteq T
        BY <2>10 DEF RangeOf
      <3> QED BY <3>1, <3>2
    <2>12. \A m, n \in 1..c : m < n => f[m] < f[n]
      <3> SUFFICES ASSUME NEW m \in 1..c, NEW n \in 1..c, m < n PROVE f[m] < f[n]
        OBVIOUS
      <3>1. m \in 1..(c - 1) /\ m # c /\ f[m] = s[m]
        BY <2>8
      <3>2. CASE n = c
        BY <3>1, <3>2, <2>9
      <3>3. CASE n # c
        BY <3>1, <3>3, <2>7, <2>8
      <3> QED BY <3>2, <3>3
    <2>13. Listed(f, T)
      BY <2>2, <2>10, <2>11, <2>12
    <2> QED BY <2>2, <2>13
  <1>2. Cardinality(S) \in Nat /\ Cardinality(S) \notin Bad
    BY <1>0, <1>1
  <1>3. \E s : Listed(s, S)
    BY <1>2
  <1>4. Listed(Ascending(S), S)
    <2>1. \E s \in [1..Cardinality(S) -> S] :
             RangeOf(s) = S /\ \A m, n \in DOMAIN s : m < n => s[m] < s[n]
      BY <1>3
    <2> QED BY <2>1 DEF Ascending
  <1> QED BY <1>2, <1>4

\* Every finite set can be enumerated.
LEMMA OrderIs ==
    ASSUME NEW S, IsFiniteSet(S)
    PROVE  /\ Order(S) \in [1..Cardinality(S) -> S] /\ Cardinality(S) \in Nat
           /\ RangeOf(Order(S)) = S
           /\ \A m, n \in 1..Cardinality(S) : m < n => Order(S)[m] # Order(S)[n]
  <1>1. Cardinality(S) \in Nat /\ ExistsBijection(1..Cardinality(S), S)
    BY FS_CardinalityType
  <1>2. PICK f : f \in Bijection(1..Cardinality(S), S)
    BY <1>1 DEF ExistsBijection
  <1>3. /\ f \in [1..Cardinality(S) -> S]
        /\ \A m, n \in 1..Cardinality(S) : f[m] = f[n] => m = n
        /\ \A x \in S : \E m \in 1..Cardinality(S) : f[m] = x
    BY <1>2 DEF Bijection, Injection, Surjection, IsInjective
  <1>4. RangeOf(f) = S
    BY <1>3 DEF RangeOf
  <1>5. \A m, n \in DOMAIN f : m < n => f[m] # f[n]
    BY <1>1, <1>3
  <1>6. \E s \in [1..Cardinality(S) -> S] :
           RangeOf(s) = S /\ \A m, n \in DOMAIN s : m < n => s[m] # s[n]
    BY <1>3, <1>4, <1>5
  <1> DEFINE o == Order(S)
  <1>7. /\ o \in [1..Cardinality(S) -> S]
        /\ RangeOf(o) = S /\ \A m, n \in DOMAIN o : m < n => o[m] # o[n]
    BY <1>6 DEF Order
  <1> QED BY <1>1, <1>7

-----------------------------------------------------------------------------
(* Tasks.                                                                     *)

LEMMA TaskFields ==
    ASSUME NEW t \in Task
    PROVE  /\ t.kind \in {"wave", "scatter", "typed"} /\ t.st \in {"new", "sent", "replan"}
           /\ t.units \in Seq(Units) /\ t.answers \in Seq(Answers)
           /\ t.leader \in Leaders /\ t.origin \in Leaders /\ t.snap \in 1..MaxEpoch
           /\ t.single \in BOOLEAN /\ t.first \in BOOLEAN
  BY DEF Task

\* What a task has.
LEMMA HasIs ==
    ASSUME NEW t \in Task
    PROVE  /\ Len(t.units) \in Nat /\ Len(t.answers) \in Nat
           /\ DOMAIN t.units = 1..Len(t.units) /\ DOMAIN t.answers = 1..Len(t.answers)
           /\ Has(t) \subseteq Units
           /\ \A m \in 1..Len(t.units) : t.units[m] \in Has(t)
           /\ \A u \in Has(t) : \E m \in 1..Len(t.units) : t.units[m] = u
           /\ \A m \in 1..Len(t.answers) : t.answers[m] \in Answers
  <1>1. t.units \in Seq(Units) /\ t.answers \in Seq(Answers)
    BY TaskFields
  <1>2. /\ Len(t.units) \in Nat /\ Len(t.answers) \in Nat
        /\ DOMAIN t.units = 1..Len(t.units) /\ DOMAIN t.answers = 1..Len(t.answers)
        /\ \A m \in 1..Len(t.units) : t.units[m] \in Units
        /\ \A m \in 1..Len(t.answers) : t.answers[m] \in Answers
    BY <1>1, LenProperties, ElementOfSeq
  <1> QED BY <1>2 DEF Has, RangeOf

\* A task in another state, and one that is sent again.
LEMMA WithState ==
    ASSUME NEW t \in Task, NEW st \in {"new", "sent", "replan"}
    PROVE  LET s == [t EXCEPT !.st = st]
           IN  /\ s \in Task /\ s.kind = t.kind /\ s.units = t.units /\ s.answers = t.answers
               /\ s.st = st
  BY DEF Task

LEMMA WithPlan ==
    ASSUME NEW t \in Task, NEW l \in Leaders, NEW n \in 1..MaxEpoch
    PROVE  LET s == [t EXCEPT !.leader = l, !.snap = n, !.first = FALSE, !.st = "new",
                              !.answers = <<>>]
           IN  /\ s \in Task /\ s.kind = t.kind /\ s.units = t.units /\ s.answers = <<>>
               /\ s.st = "new"
  <1>1. <<>> \in Seq(Answers)
    OBVIOUS
  <1> QED BY <1>1 DEF Task

LEMMA WithAnswers ==
    ASSUME NEW t \in Task, NEW more \in Seq(Answers)
    PROVE  LET s == [t EXCEPT !.answers = @ \o more]
           IN  /\ s \in Task /\ s.kind = t.kind /\ s.units = t.units /\ s.st = t.st
               /\ Len(s.answers) = Len(t.answers) + Len(more)
               /\ \A m \in 1..Len(t.answers) : s.answers[m] = t.answers[m]
               /\ \A m \in 1..Len(more) : s.answers[Len(t.answers) + m] = more[m]
  <1> DEFINE s == [t EXCEPT !.answers = @ \o more]
  <1>1. t.answers \in Seq(Answers)
    BY TaskFields
  <1>2. t.answers \o more \in Seq(Answers)
    BY <1>1
  <1>3. /\ Len(t.answers \o more) = Len(t.answers) + Len(more)
        /\ \A m \in 1..Len(t.answers) : (t.answers \o more)[m] = t.answers[m]
        /\ \A m \in 1..Len(more) : (t.answers \o more)[Len(t.answers) + m] = more[m]
    BY <1>1, ConcatProperties
  <1>4. s \in Task /\ s.kind = t.kind /\ s.units = t.units /\ s.st = t.st
        /\ s.answers = t.answers \o more
    BY <1>2 DEF Task
  <1> HIDE DEF s
  <1>5. /\ s \in Task /\ s.kind = t.kind /\ s.units = t.units /\ s.st = t.st
        /\ Len(s.answers) = Len(t.answers) + Len(more)
        /\ \A m \in 1..Len(t.answers) : s.answers[m] = t.answers[m]
        /\ \A m \in 1..Len(more) : s.answers[Len(t.answers) + m] = more[m]
    BY <1>3, <1>4
  <1> QED BY <1>5 DEF s

-----------------------------------------------------------------------------
(* Planning: the tasks for some units are sound, have those units and share no key. *)

Apart(new) == \A t, s \in new : t # s => \A u \in Has(t), v \in Has(s) : u[2] # v[2]
Planned(new, units) ==
    /\ new \subseteq Task /\ Apart(new)
    /\ \A t \in new : TaskOK(t) /\ t.answers = <<>> /\ Has(t) \subseteq units
    /\ \A u \in units : \E t \in new : u \in Has(t)

\* A layout that has a route for a key names a leader, and is not the empty one.
LEMMA RouteIs ==
    ASSUME NEW n \in 0..MaxEpoch, NEW k \in Keys, Layout[n][k] # NoRoute
    PROVE  n \in 1..MaxEpoch /\ Layout[n][k] \in Leaders
  <1>1. /\ Layout \in [0..MaxEpoch -> [Keys -> Leaders \cup {NoRoute}]]
        /\ \A x \in Keys : Layout[0][x] = NoRoute
    BY BatchConstants
  <1>2. Layout[n] \in [Keys -> Leaders \cup {NoRoute}]
    BY <1>1
  <1> QED BY <1>1, <1>2

\* A new task is sound if its units are ascending.
LEMMA NewIsSound ==
    ASSUME NEW t \in Task, t.answers = <<>>, t.st = "new", t.units # <<>>,
           \A m, n \in 1..Len(t.units) : m < n => /\ t.units[m] # t.units[n]
                                                  /\ t.units[m][1] <= t.units[n][1]
    PROVE  TaskOK(t)
  <1>1. Len(t.answers) = 0 /\ Len(t.units) \in Nat
    BY HasIs
  <1> QED BY <1>1 DEF TaskOK

\* The groups of a wave.
LEMMA GroupIs ==
    ASSUME BatchTypes, WaveOK, NEW l
    PROVE  LET units == GroupUnits(snap, l)
           IN  /\ units \in Seq(Units)
               /\ \A m, n \in 1..Len(units) : m < n => units[m][1] < units[n][1]
               /\ RangeOf(units) = {<<i, TheKey(i)>> : i \in {j \in wave :
                    Layout[snap][TheKey(j)] = l}}
  <1> DEFINE S == {i \in wave : Layout[snap][TheKey(i)] = l}
             a == Ascending(S)
             units == GroupUnits(snap, l)
  <1>0. /\ Len(pipeline) \in 0..Longest /\ Longest \in Nat /\ index \in 1..(Len(pipeline) + 1)
        /\ wave \subseteq 1..(index - 1)
    BY TheCommands, BatchConstants DEF BatchTypes, WaveOK
  <1>1. S \subseteq 1..Longest /\ \A i \in S : i \in wave /\ i \in 1..Len(pipeline)
    <2>1. \A i \in 1..(index - 1) : i \in 1..Len(pipeline) /\ i \in 1..Longest
      BY <1>0
    <2> QED BY <1>0, <2>1
  <1>2. \A i \in S : <<i, TheKey(i)>> \in Units
    <2> SUFFICES ASSUME NEW i \in S PROVE <<i, TheKey(i)>> \in Units
      OBVIOUS
    <2>1. pipeline[i].kind = "routed" /\ i \in 1..Len(pipeline) /\ i \in 1..Longest
      BY <1>1 DEF WaveOK
    <2>2. TheKey(i) \in Keys
      BY <2>1, UnitsAre
    <2> QED BY <2>1, <2>2 DEF Units
  <1> HIDE DEF S
  <1>3. /\ a \in [1..Cardinality(S) -> S] /\ Cardinality(S) \in Nat /\ RangeOf(a) = S
        /\ \A m, n \in 1..Cardinality(S) : m < n => a[m] < a[n]
    BY <1>0, <1>1, AscendingIs
  <1> HIDE DEF a
  <1>4. units = [m \in 1..Cardinality(S) |-> <<a[m], TheKey(a[m])>>]
    <2>1. units = [m \in DOMAIN a |-> <<a[m], TheKey(a[m])>>]
      BY DEF GroupUnits, S, a
    <2> QED BY <2>1, <1>3
  <1> HIDE DEF units
  <1>5. \A m \in 1..Cardinality(S) : units[m] = <<a[m], TheKey(a[m])>> /\ a[m] \in S
    BY <1>3, <1>4
  <1>6. units \in Seq(Units) /\ Len(units) = Cardinality(S) /\ DOMAIN units = 1..Cardinality(S)
    <2>1. \A m \in 1..Cardinality(S) : units[m] \in Units
      BY <1>2, <1>5
    <2>2. units \in [1..Cardinality(S) -> Units]
      BY <1>4, <2>1
    <2> QED BY <1>3, <2>2, IsASeq
  <1>7. \A m, n \in 1..Len(units) : m < n => units[m][1] < units[n][1]
    BY <1>3, <1>5, <1>6
  <1>8. RangeOf(units) = {<<i, TheKey(i)>> : i \in S}
    <2>1. ASSUME NEW u \in RangeOf(units) PROVE u \in {<<i, TheKey(i)>> : i \in S}
      <3>1. PICK m \in 1..Cardinality(S) : u = units[m]
        BY <1>6 DEF RangeOf
      <3> QED BY <3>1, <1>5
    <2>2. ASSUME NEW i \in S PROVE <<i, TheKey(i)>> \in RangeOf(units)
      <3>1. PICK m \in 1..Cardinality(S) : a[m] = i
        BY <1>3 DEF RangeOf
      <3>2. units[m] = <<i, TheKey(i)>>
        BY <3>1, <1>5
      <3> QED BY <3>2, <1>6 DEF RangeOf
    <2> QED BY <2>1, <2>2
  <1> QED BY <1>6, <1>7, <1>8 DEF units, S

LEMMA WaveUnitsAre ==
    ASSUME BatchTypes, WaveOK
    PROVE  /\ WaveUnits = {<<i, TheKey(i)>> : i \in wave} /\ WaveUnits \subseteq Units
           /\ \A i \in wave : /\ i \in 1..Len(pipeline) /\ UnitsOf(i) = {<<i, TheKey(i)>>}
                              /\ TheKey(i) \in Keys /\ TheKey(i) \in WaveKeys
  <1>1. \A i \in wave : i \in 1..Len(pipeline)
    BY TheCommands DEF BatchTypes, WaveOK
  <1>2. \A i \in wave : /\ UnitsOf(i) = {<<i, TheKey(i)>>} /\ TheKey(i) \in Keys
                        /\ UnitsOf(i) \subseteq Units
    BY <1>1, UnitsAre DEF WaveOK
  <1> QED BY <1>1, <1>2 DEF WaveUnits, WaveKeys

LEMMA WavePlanned ==
    ASSUME BatchTypes, WaveOK
    PROVE  /\ Planned(WaveTasks(snap), WaveUnits)
           /\ \A t \in WaveTasks(snap) : t.kind = "wave"
  <1>a. PICK one \in BOOLEAN : one = (Cardinality(WaveLeaders(snap)) = 1)
    OBVIOUS
  <1> DEFINE g(l) == GroupUnits(snap, l)
             task(l) == NewTask("wave", g(l), l, snap, one, TRUE, l)
             L == WaveLeaders(snap)
             S(l) == {j \in wave : Layout[snap][TheKey(j)] = l}
  <1>0. snap \in 0..MaxEpoch /\ Routes(snap, WaveKeys)
    BY DEF BatchTypes, WaveOK
  <1>1. WaveTasks(snap) = {task(l) : l \in L}
    BY <1>a DEF WaveTasks
  <1>2. /\ \A i \in wave : TheKey(i) \in Keys /\ TheKey(i) \in WaveKeys
        /\ WaveUnits = {<<i, TheKey(i)>> : i \in wave}
    BY WaveUnitsAre
  <1>3. \A l : /\ g(l) \in Seq(Units)
               /\ \A m, n \in 1..Len(g(l)) : m < n => g(l)[m][1] < g(l)[n][1]
               /\ RangeOf(g(l)) = {<<i, TheKey(i)>> : i \in S(l)}
    BY GroupIs
  <1>4. \A l \in L : l \in Leaders /\ snap \in 1..MaxEpoch /\ S(l) # {}
    <2> SUFFICES ASSUME NEW l \in L PROVE l \in Leaders /\ snap \in 1..MaxEpoch /\ S(l) # {}
      OBVIOUS
    <2>1. PICK i \in wave : l = Layout[snap][TheKey(i)]
      BY DEF WaveLeaders, WaveKeys
    <2>2. Layout[snap][TheKey(i)] # NoRoute
      BY <1>0, <1>2 DEF Routes
    <2> QED BY <1>0, <1>2, <2>1, <2>2, RouteIs
  <1> HIDE DEF g, L, S
  <1>6. ASSUME NEW l \in L
        PROVE  /\ task(l) \in Task /\ task(l).kind = "wave" /\ task(l).units = g(l)
               /\ task(l).st = "new" /\ task(l).answers = <<>>
    <2>1. /\ g(l) \in Seq(Units) /\ l \in Leaders /\ snap \in 1..MaxEpoch
      BY <1>3, <1>4
    <2>2. <<>> \in Seq(Answers)
      OBVIOUS
    <2> QED BY <2>1, <2>2 DEF NewTask, Task
  <1> HIDE DEF task
  <1>7. \A l \in L : Has(task(l)) = {<<i, TheKey(i)>> : i \in S(l)}
    BY <1>3, <1>6 DEF Has
  <1>8. ASSUME NEW l \in L PROVE TaskOK(task(l))
    <2> DEFINE t == task(l)
    <2>1. t \in Task /\ t.units = g(l) /\ t.st = "new" /\ t.answers = <<>>
      BY <1>6
    <2>2. t.units # <<>>
      <3>1. PICK i \in S(l) : TRUE
        BY <1>4
      <3>2. <<i, TheKey(i)>> \in Has(t)
        BY <1>7
      <3>3. \E m \in 1..Len(t.units) : TRUE
        BY <2>1, <3>2, HasIs
      <3> QED BY <3>3
    <2>3. \A m \in 1..Len(t.units) : t.units[m] \in Units
      BY <2>1, HasIs
    <2>4. \A u \in Units : u[1] \in Nat
      BY BatchConstants DEF Units
    <2>5. ASSUME NEW m \in 1..Len(t.units), NEW n \in 1..Len(t.units), m < n
          PROVE  t.units[m] # t.units[n] /\ t.units[m][1] <= t.units[n][1]
      <3>1. t.units[m][1] < t.units[n][1]
        BY <1>3, <2>1, <2>5
      <3>2. t.units[m][1] \in Nat /\ t.units[n][1] \in Nat
        BY <2>3, <2>4
      <3>3. t.units[m][1] # t.units[n][1] /\ t.units[m][1] <= t.units[n][1]
        BY <3>1, <3>2
      <3> QED BY <3>3
    <2> HIDE DEF t
    <2>6. TaskOK(t)
      BY <2>1, <2>2, <2>5, NewIsSound
    <2> QED BY <2>6 DEF t
  <1>9. \A l \in L : Has(task(l)) \subseteq WaveUnits
    BY <1>2, <1>7 DEF S
  <1>10. ASSUME NEW u \in WaveUnits PROVE \E l \in L : u \in Has(task(l))
    <2>1. PICK i \in wave : u = <<i, TheKey(i)>>
      BY <1>2
    <2> DEFINE l == Layout[snap][TheKey(i)]
    <2>2. l \in L
      BY <1>2 DEF L, WaveLeaders
    <2>3. i \in S(l)
      BY DEF S
    <2> QED BY <1>7, <2>1, <2>2, <2>3
  <1>11. ASSUME NEW l \in L, NEW k \in L, task(l) # task(k),
                NEW u \in Has(task(l)), NEW v \in Has(task(k))
         PROVE  u[2] # v[2]
    <2>1. PICK i \in S(l) : u = <<i, TheKey(i)>>
      BY <1>7
    <2>2. PICK j \in S(k) : v = <<j, TheKey(j)>>
      BY <1>7
    <2>3. Layout[snap][TheKey(i)] = l /\ Layout[snap][TheKey(j)] = k /\ l # k
      BY <1>11, <2>1, <2>2 DEF S
    <2>4. u[2] = TheKey(i) /\ v[2] = TheKey(j)
      BY <2>1, <2>2
    <2> QED BY <2>3, <2>4
  <1>12. Apart(WaveTasks(snap))
    BY <1>1, <1>11 DEF Apart
  <1> QED BY <1>1, <1>6, <1>8, <1>9, <1>10, <1>12 DEF Planned

\* The keys that a layout gives to a leader.
Part(n, keys, l) == {k \in keys : Layout[n][k] = l}

LEMMA ScatterGroupIs ==
    ASSUME BatchTypes, index \in 1..Len(pipeline), NEW n, NEW keys, keys \subseteq Keys, NEW l
    PROVE  /\ ScatterUnits(n, keys, l) \in Seq(Units)
           /\ \A m, k \in 1..Len(ScatterUnits(n, keys, l)) :
                 m < k => ScatterUnits(n, keys, l)[m] # ScatterUnits(n, keys, l)[k]
           /\ RangeOf(ScatterUnits(n, keys, l)) = {<<index, k>> : k \in Part(n, keys, l)}
  <1> DEFINE S == {k \in keys : Layout[n][k] = l}
             o == Order(S)
             units == ScatterUnits(n, keys, l)
  <1>0. index \in 1..Longest
    BY TheCommands
  <1>1. S \subseteq Keys /\ IsFiniteSet(S)
    BY BatchConstants, FS_Subset
  <1>2. \A k \in S : <<index, k>> \in Units
    BY <1>0, <1>1 DEF Units
  <1> HIDE DEF S
  <1>3. /\ o \in [1..Cardinality(S) -> S] /\ Cardinality(S) \in Nat /\ RangeOf(o) = S
        /\ \A m, k \in 1..Cardinality(S) : m < k => o[m] # o[k]
    BY <1>1, OrderIs
  <1> HIDE DEF o
  <1>4. units = [m \in 1..Cardinality(S) |-> <<index, o[m]>>]
    <2>1. units = [m \in DOMAIN o |-> <<index, o[m]>>]
      BY DEF ScatterUnits, S, o
    <2> QED BY <2>1, <1>3
  <1> HIDE DEF units
  <1>5. \A m \in 1..Cardinality(S) : units[m] = <<index, o[m]>> /\ o[m] \in S
    BY <1>3, <1>4
  <1>6. units \in Seq(Units) /\ Len(units) = Cardinality(S) /\ DOMAIN units = 1..Cardinality(S)
    <2>1. \A m \in 1..Cardinality(S) : units[m] \in Units
      BY <1>2, <1>5
    <2>2. units \in [1..Cardinality(S) -> Units]
      BY <1>4, <2>1
    <2> QED BY <1>3, <2>2, IsASeq
  <1>7. \A m, k \in 1..Len(units) : m < k => units[m] # units[k]
    BY <1>3, <1>5, <1>6
  <1>8. RangeOf(units) = {<<index, k>> : k \in S}
    <2>1. ASSUME NEW u \in RangeOf(units) PROVE u \in {<<index, k>> : k \in S}
      <3>1. PICK m \in 1..Cardinality(S) : u = units[m]
        BY <1>6 DEF RangeOf
      <3> QED BY <3>1, <1>5
    <2>2. ASSUME NEW k \in S PROVE <<index, k>> \in RangeOf(units)
      <3>1. PICK m \in 1..Cardinality(S) : o[m] = k
        BY <1>3 DEF RangeOf
      <3>2. units[m] = <<index, k>>
        BY <3>1, <1>5
      <3> QED BY <3>2, <1>6 DEF RangeOf
    <2> QED BY <2>1, <2>2
  <1> QED BY <1>6, <1>7, <1>8 DEF units, S, Part

LEMMA ScatterPlanned ==
    ASSUME BatchTypes, index \in 1..Len(pipeline), NEW n \in 0..MaxEpoch,
           NEW keys, keys \subseteq Keys, Routes(n, keys),
           NEW first \in BOOLEAN, NEW origin, first \/ origin \in Leaders
    PROVE  /\ Planned(ScatterTasks(n, keys, first, origin), {<<index, k>> : k \in keys})
           /\ \A t \in ScatterTasks(n, keys, first, origin) : t.kind # "wave"
  <1> DEFINE g(l) == ScatterUnits(n, keys, l)
             from(l) == IF first THEN l ELSE origin
             kind == ScatterKind(n, keys, first)
             task(l) == NewTask(kind, g(l), l, n, FALSE, first, from(l))
             L == {Layout[n][k] : k \in keys}
             S(l) == {k \in keys : Layout[n][k] = l}
  <1>1. ScatterTasks(n, keys, first, origin) = {task(l) : l \in L}
    BY DEF ScatterTasks
  <1>2. kind \in {"scatter", "typed"}
    BY DEF ScatterKind
  <1>3. \A l : /\ g(l) \in Seq(Units)
               /\ \A m, k \in 1..Len(g(l)) : m < k => g(l)[m] # g(l)[k]
               /\ RangeOf(g(l)) = {<<index, k>> : k \in S(l)}
    <2> SUFFICES ASSUME NEW l
                 PROVE  /\ ScatterUnits(n, keys, l) \in Seq(Units)
                        /\ \A m, k \in 1..Len(ScatterUnits(n, keys, l)) :
                             m < k => ScatterUnits(n, keys, l)[m] # ScatterUnits(n, keys, l)[k]
                        /\ RangeOf(ScatterUnits(n, keys, l))
                             = {<<index, k>> : k \in Part(n, keys, l)}
      BY DEF Part
    <2> HIDE DEF g, from, kind, task, L, S
    <2> QED BY ScatterGroupIs
  <1>4. \A l \in L : l \in Leaders /\ n \in 1..MaxEpoch /\ S(l) # {} /\ from(l) \in Leaders
    <2> SUFFICES ASSUME NEW l \in L PROVE l \in Leaders /\ n \in 1..MaxEpoch /\ S(l) # {}
      OBVIOUS
    <2>1. PICK k \in keys : l = Layout[n][k]
      OBVIOUS
    <2>2. Layout[n][k] # NoRoute /\ k \in Keys
      BY DEF Routes
    <2> QED BY <2>1, <2>2, RouteIs
  <1> HIDE DEF g, from, kind, L, S
  <1>6. ASSUME NEW l \in L
        PROVE  /\ task(l) \in Task /\ task(l).kind = kind /\ task(l).units = g(l)
               /\ task(l).st = "new" /\ task(l).answers = <<>>
    <2>1. /\ g(l) \in Seq(Units) /\ l \in Leaders /\ n \in 1..MaxEpoch /\ from(l) \in Leaders
      BY <1>3, <1>4
    <2>2. <<>> \in Seq(Answers)
      OBVIOUS
    <2> QED BY <2>1, <2>2, <1>2 DEF NewTask, Task
  <1> HIDE DEF task
  <1>7. \A l \in L : Has(task(l)) = {<<index, k>> : k \in S(l)}
    BY <1>3, <1>6 DEF Has
  <1>8. ASSUME NEW l \in L PROVE TaskOK(task(l))
    <2> DEFINE t == task(l)
    <2>1. t \in Task /\ t.units = g(l) /\ t.st = "new" /\ t.answers = <<>>
      BY <1>6
    <2>2. t.units # <<>>
      <3>1. PICK k \in S(l) : TRUE
        BY <1>4
      <3>2. <<index, k>> \in Has(t)
        BY <1>7
      <3>3. \E m \in 1..Len(t.units) : TRUE
        BY <2>1, <3>2, HasIs
      <3> QED BY <3>3
    <2>3. \A m \in 1..Len(t.units) : t.units[m] \in Has(t)
      BY <2>1, HasIs
    <2>4. \A u \in Has(t) : u[1] = index
      BY <1>7
    <2>5. \A m, k \in 1..Len(t.units) : m < k => /\ t.units[m] # t.units[k]
                                                 /\ t.units[m][1] <= t.units[k][1]
      <3>1. index \in Nat
        BY TheCommands
      <3>2. \A m, k \in 1..Len(t.units) : m < k => t.units[m] # t.units[k]
        BY <1>3, <2>1
      <3>3. \A m \in 1..Len(t.units) : t.units[m][1] = index
        BY <2>3, <2>4
      <3> QED BY <3>1, <3>2, <3>3
    <2> HIDE DEF t
    <2>6. TaskOK(t)
      BY <2>1, <2>2, <2>5, NewIsSound
    <2> QED BY <2>6 DEF t
  <1>9. \A l \in L : Has(task(l)) \subseteq {<<index, k>> : k \in keys}
    BY <1>7 DEF S
  <1>10. ASSUME NEW u \in {<<index, k>> : k \in keys} PROVE \E l \in L : u \in Has(task(l))
    <2>1. PICK k \in keys : u = <<index, k>>
      OBVIOUS
    <2> DEFINE l == Layout[n][k]
    <2>2. l \in L /\ k \in S(l)
      BY DEF L, S
    <2> QED BY <1>7, <2>1, <2>2
  <1>11. ASSUME NEW l \in L, NEW r \in L, task(l) # task(r),
                NEW u \in Has(task(l)), NEW v \in Has(task(r))
         PROVE  u[2] # v[2]
    <2>1. PICK i \in S(l) : u = <<index, i>>
      BY <1>7
    <2>2. PICK j \in S(r) : v = <<index, j>>
      BY <1>7
    <2>3. Layout[n][i] = l /\ Layout[n][j] = r /\ l # r
      BY <1>11, <2>1, <2>2 DEF S
    <2>4. u[2] = i /\ v[2] = j
      BY <2>1, <2>2
    <2> QED BY <2>3, <2>4
  <1>12. Apart(ScatterTasks(n, keys, first, origin))
    BY <1>1, <1>11 DEF Apart
  <1>13. \A l \in L : task(l).kind # "wave"
    BY <1>2, <1>6
  <1> QED BY <1>1, <1>6, <1>8, <1>9, <1>10, <1>12, <1>13 DEF Planned

-----------------------------------------------------------------------------
(* What a step does to the loop, the tasks, the servers and the caller.       *)

Results == {"none", "ok", "not", "unknown"}
Rest == UNCHANGED <<tasks, told, history, stranded, total, failed>>
LoopStays == UNCHANGED <<where, index, wave, snap>>

Looks == Rest /\ LoopStays

Joins ==
    /\ Rest /\ where = "route" /\ where' = "route"
    /\ index <= Len(pipeline) /\ Command.kind = "routed"
    /\ wave' = wave \cup {index} /\ index' = index + 1
    /\ snap' \in 0..MaxEpoch /\ Routes(snap', Command.keys) /\ (wave = {} \/ snap' = snap)

Turns ==
    /\ Rest /\ where \in {"route", "flush"} /\ where' \in {"route", "flush", "scatter", "end"}
    /\ UNCHANGED <<index, wave>>
    /\ snap' \in 0..MaxEpoch /\ Routes(snap', WaveKeys)
    /\ where' \in {"scatter", "end"} => wave = {}
    /\ where' = "scatter" => index <= Len(pipeline) /\ Command.kind # "routed"
    /\ where' = "end" => index = Len(pipeline) + 1

Passes(what) ==
    /\ where \in {"route", "scatter"} /\ where' = "route"
    /\ index <= Len(pipeline) /\ index' = index + 1
    /\ what \in {"ok", "not", "unknown"} /\ told' = Learn(UnitsOf(index), what)
    /\ UNCHANGED <<wave, snap, tasks, total, failed>>
    /\ \/ UNCHANGED <<history, stranded>> /\ what # "ok"
       \/ /\ UNCHANGED history /\ what = "unknown" /\ StrandedSound'
          /\ \A u : Stray(u)' => Stray(u) \/ u = <<index, NoKey>>
          /\ where = "scatter" /\ Command.kind = "control"
       \/ /\ history' = Append(history, <<index, NoKey>>) /\ what # "not" /\ UNCHANGED stranded
          /\ where = "scatter" /\ Command.kind = "control"

WaveEnds ==
    /\ where' = "route" /\ wave' = {} /\ snap' = 0 /\ tasks = {}
    /\ UNCHANGED <<index, tasks, history, stranded, total, failed>>
    /\ \/ where = "wave" /\ UNCHANGED told
       \/ where = "flush" /\ told' = Learn(WaveUnits, "not")

Begins(new) ==
    /\ tasks = {} /\ tasks' = new /\ UNCHANGED <<index, wave, snap, told, history, stranded>>
    /\ \/ /\ where = "flush" /\ where' = "wave" /\ UNCHANGED <<total, failed>>
          /\ Planned(new, WaveUnits) /\ \A t \in new : t.kind = "wave"
       \/ /\ where = "scatter" /\ where' = "gather" /\ Command.kind = "scatter"
          /\ total' = 0 /\ failed' = FALSE
          /\ Planned(new, UnitsOf(index)) /\ \A t \in new : t.kind # "wave"

Gathers ==
    /\ Rest /\ where = "gather" /\ tasks = {} /\ where' = "route" /\ index' = index + 1
    /\ UNCHANGED <<wave, snap>>

\* Nothing of the task was executed so far.
Refused(t) == \A n \in 1..Len(t.answers) : t.answers[n] = "moved"

Replaces(t, new) ==
    /\ LoopStays /\ UNCHANGED <<told, history, stranded, total, failed>>
    /\ tasks' = (tasks \ {t}) \cup new
    /\ new \subseteq Task /\ Apart(new) /\ Refused(t)
    /\ \A s \in new : /\ TaskOK(s) /\ Refused(s) /\ Has(s) \subseteq Has(t)
                      /\ (s.kind = "wave") = (t.kind = "wave")
    /\ \A u \in Has(t) : \E s \in new : u \in Has(s)

Serves(t, more, done) ==
    /\ LoopStays /\ UNCHANGED <<told, total, failed>>
    /\ t.st = "sent" /\ more \in Seq(Answers) /\ done \in 0..Len(more)
    /\ Len(t.answers) + Len(more) <= Len(t.units)
    /\ tasks' = (tasks \ {t}) \cup {[t EXCEPT !.answers = @ \o more]}
    /\ history' = history \o SubSeq(t.units, Len(t.answers) + 1, Len(t.answers) + done)
    /\ \A m \in 1..Len(more) : IF m <= done THEN more[m] # "moved" ELSE more[m] # "ok"
    /\ t.kind # "wave" => /\ Len(t.answers) = 0 /\ Len(more) = Len(t.units)
                          /\ \A m, n \in 1..Len(more) : more[m] = more[n]
    /\ StrandedSound'
    /\ \A u : Stray(u)' => \/ Stray(u)
                           \/ \E m \in 1..Len(more) : /\ m > done /\ more[m] = "lost"
                                                      /\ u = t.units[Len(t.answers) + m]

\* A request that nobody waits for is run, or given up.
Strays ==
    /\ LoopStays /\ UNCHANGED <<tasks, told, total, failed>>
    /\ history' \in Seq(Units) /\ Len(history) <= Len(history')
    /\ \A m \in 1..Len(history) : history'[m] = history[m]
    /\ \A m \in 1..Len(history') : m \in 1..Len(history) \/ Stray(history'[m])
    /\ \A m, n \in 1..Len(history') : m # n => history'[m] # history'[n]
    /\ StrandedSound'
    /\ \A u : Stray(u)' => Stray(u) /\ ~ Ran(u)'

Ends(t) ==
    /\ LoopStays /\ UNCHANGED <<history, stranded>>
    /\ \A n \in 1..Len(t.answers) : t.answers[n] = "lost" => told'[t.units[n]] = "unknown"
    /\ tasks' = tasks \ {t} /\ told' \in [Units -> Results]
    /\ \A u \in Units \ Has(t) : told'[u] = told[u]
    /\ \A u \in Has(t) : /\ told'[u] # "none" /\ (told'[u] = "ok" => Ran(u))
                         /\ (told'[u] = "not" => ~ Ran(u))
    /\ total' \in Nat /\ failed' \in BOOLEAN
    /\ where = "gather" =>
          \/ failed' /\ total' = total /\ \A u \in Has(t) : told'[u] # "ok"
          \/ /\ failed' = failed /\ total' = total + Len(t.units)
             /\ \A u \in Has(t) : told'[u] = "ok"

\* A unit that its task has no answer to, or a refusal, was not executed, and no request
\* is left behind that has it.
LEMMA NotRun ==
    ASSUME BatchInv, NEW t \in tasks, NEW n \in 1..Len(t.units),
           n <= Len(t.answers) => t.answers[n] = "moved"
    PROVE  ~ Out(t.units[n])
  <1> SUFFICES ASSUME Out(t.units[n]) PROVE FALSE
    OBVIOUS
  <1> DEFINE u == t.units[n]
  <1>0. t \in Task /\ \A s \in tasks : s \in Task
    BY DEF BatchInv, BatchTypes
  <1>1. u \in Has(t) /\ Len(t.answers) \in Nat /\ Len(t.units) \in Nat
    BY <1>0, HasIs
  <1>3. told[u] = "none" /\ u \in Units
    BY <1>0, <1>1, HasIs DEF BatchInv, FreshOK
  <1>4. Reported(u)
    <2>1. CASE Ran(u)
      <3>1. PICK m \in 1..Len(history) : history[m] = u
        BY <2>1 DEF Ran
      <3> QED BY <1>3, <3>1 DEF BatchInv, HistoryOK
    <2>2. CASE Stray(u)
      <3>1. Uncertain(u)
        BY <1>3, <2>2 DEF BatchInv, StrandedOK
      <3> QED BY <1>3, <3>1 DEF Uncertain, Reported
    <2> QED BY <2>1, <2>2 DEF Out
  <1>p. PICK s \in tasks : \E k \in 1..Len(s.answers) : s.units[k] = u /\ s.answers[k] # "moved"
    BY <1>4 DEF Reported
  <1>5. PICK k \in 1..Len(s.answers) : s.units[k] = u /\ s.answers[k] # "moved"
    BY <1>p
  <1>6. TaskOK(s) /\ TaskOK(t) /\ s \in Task
    BY <1>0 DEF BatchInv, TasksOK
  <1>7. k \in 1..Len(s.units)
    <2>1. Len(s.answers) \in Nat /\ Len(s.units) \in Nat /\ Len(s.answers) <= Len(s.units)
      BY <1>6, HasIs DEF TaskOK
    <2> QED BY <2>1
  <1>8. s = t
    <2>1. u \in Has(s)
      BY <1>5, <1>6, <1>7, HasIs
    <2> QED BY <1>1, <2>1 DEF BatchInv, TasksOK
  <1>9. k = n
    <2>1. \A i, j \in 1..Len(t.units) : i < j => t.units[i] # t.units[j]
      BY <1>6 DEF TaskOK
    <2>2. k \in 1..Len(t.units) /\ n \in 1..Len(t.units) /\ t.units[k] = t.units[n]
      BY <1>5, <1>7, <1>8
    <2>3. k \in Nat /\ n \in Nat
      BY <1>1, <2>2
    <2>4. ~ (k < n) /\ ~ (n < k)
      BY <2>1, <2>2
    <2> QED BY <2>3, <2>4
  <1>10. n <= Len(t.answers)
    BY <1>1, <1>5, <1>8, <1>9
  <1> QED BY <1>5, <1>8, <1>9, <1>10

LEMMA RefusedNotRun ==
    ASSUME BatchInv, NEW t \in tasks, Refused(t)
    PROVE  \A u \in Has(t) : ~ Out(u)
  <1> SUFFICES ASSUME NEW u \in Has(t) PROVE ~ Out(u)
    OBVIOUS
  <1>1. t \in Task
    BY DEF BatchInv, BatchTypes
  <1>2. PICK n \in 1..Len(t.units) : t.units[n] = u
    BY <1>1, HasIs
  <1>3. n <= Len(t.answers) => t.answers[n] = "moved"
    <2>1. Len(t.units) \in Nat /\ Len(t.answers) \in Nat
      BY <1>1, HasIs
    <2> QED BY <2>1 DEF Refused
  <1>4. ~ Out(t.units[n])
    BY <1>3, NotRun
  <1> QED BY <1>2, <1>4

\* The rest of a sequence.
LEMMA RestIs ==
    ASSUME NEW s \in Seq(Units), NEW i \in Nat, i <= Len(s),
           \A m, n \in 1..Len(s) : m < n => s[m] # s[n]
    PROVE  LET r == SubSeq(s, i + 1, Len(s))
           IN  /\ r \in Seq(Units)
               /\ \A j \in 1..Len(r) : i + j \in 1..Len(s) /\ r[j] = s[i + j]
               /\ \A m, n \in 1..Len(r) : m < n => r[m] # r[n]
  <1> DEFINE r == SubSeq(s, i + 1, Len(s))
  <1>1. Len(s) \in Nat /\ \A m \in 1..Len(s) : s[m] \in Units
    BY LenProperties, ElementOfSeq
  <1>2. \A m \in (i + 1)..Len(s) : s[m] \in Units
    BY <1>1
  <1>3. /\ r \in Seq(Units)
        /\ Len(r) = IF i + 1 <= Len(s) THEN Len(s) - (i + 1) + 1 ELSE 0
        /\ \A j \in 1..(Len(s) - (i + 1) + 1) : r[j] = s[(i + 1) + j - 1]
    BY <1>1, <1>2, SubSeqProperties
  <1> HIDE DEF r
  <1>4. Len(r) = Len(s) - i /\ Len(s) - (i + 1) + 1 = Len(s) - i
    BY <1>1, <1>3
  <1>5. ASSUME NEW j \in 1..Len(r) PROVE i + j \in 1..Len(s) /\ r[j] = s[i + j]
    <2>1. (i + 1) + j - 1 = i + j /\ i + j \in 1..Len(s)
      BY <1>1, <1>4
    <2> QED BY <1>3, <1>4, <2>1
  <1>6. ASSUME NEW m \in 1..Len(r), NEW n \in 1..Len(r), m < n PROVE r[m] # r[n]
    <2>1. i + m < i + n
      BY <1>1, <1>4, <1>6
    <2> QED BY <1>5, <2>1
  <1> QED BY <1>3, <1>5, <1>6 DEF r

\* What is left behind when there is something more, or less.
Different(s) == \A m, n \in 1..Len(s) : m < n => s[m] # s[n]
NoneIn(base, s) == \A j \in 1..Len(s) : \A c \in base : s[j] \notin Has(c)
StrayFrom(base, s) == \A u : Stray(u)' => \/ \E c \in base : u \in Has(c)
                                          \/ \E j \in 1..Len(s) : u = s[j]
LEMMA StrandIs ==
    ASSUME StrandedSound, NEW base, base \subseteq stranded, NEW kind, NEW l,
           NEW s \in Seq(Units), Different(s), NoneIn(base, s),
           stranded' = base \cup Strand(kind, l, s)
    PROVE  StrandedSound' /\ StrayFrom(base, s)
  <1>0. /\ \A m, n \in 1..Len(s) : m < n => s[m] # s[n]
        /\ \A j \in 1..Len(s) : \A c \in base : s[j] \notin Has(c)
    BY DEF Different, NoneIn
  <1> DEFINE new == [kind |-> kind, leader |-> l, units |-> s]
  <1>1. \A c \in stranded' : c \in base \/ (c = new /\ s # <<>>)
    BY DEF Strand
  <1>2. new.units = s
    OBVIOUS
  <1>3. \A u : u \in Has(new) => \E j \in 1..Len(s) : u = s[j]
    <2>1. DOMAIN s = 1..Len(s)
      OBVIOUS
    <2> QED BY <1>2, <2>1 DEF Has, RangeOf
  <1> HIDE DEF new
  <1>4. \A c \in stranded' : /\ c.units \in Seq(Units) /\ c.units # <<>>
                            /\ \A m, n \in 1..Len(c.units) : m < n => c.units[m] # c.units[n]
    BY <1>0, <1>1, <1>2 DEF StrandedSound
  <1>5. \A c \in base : Has(c) \cap Has(new) = {}
    BY <1>0, <1>3
  <1>6. \A c, d \in stranded' : c # d => Has(c) \cap Has(d) = {}
    BY <1>1, <1>5 DEF StrandedSound
  <1>7. StrandedSound'
    BY <1>4, <1>6 DEF StrandedSound, Has, RangeOf
  <1>8. ASSUME NEW u, Stray(u)'
        PROVE  (\E c \in base : u \in Has(c)) \/ \E j \in 1..Len(s) : u = s[j]
    <2>1. PICK c \in stranded' : u \in Has(c)
      BY <1>8 DEF Stray, Has, RangeOf
    <2> QED BY <1>1, <1>3, <2>1
  <1> QED BY <1>7, <1>8 DEF StrayFrom

LEMMA StrandedStays ==
    ASSUME UNCHANGED stranded
    PROVE  (StrandedSound => StrandedSound') /\ \A u : Stray(u)' = Stray(u)
  BY DEF StrandedSound, Stray, Has, RangeOf

-----------------------------------------------------------------------------
(* Every action is one of these.                                              *)

LayoutsOK == pipeline' = pipeline /\ known' \in 0..MaxEpoch /\ epoch' \in 1..MaxEpoch

\* A wave without a layout is empty.
LEMMA EmptyWave ==
    ASSUME BatchTypes, WaveOK
    PROVE  /\ snap = 0 => wave = {}
           /\ wave = {} => \A n : Routes(n, WaveKeys)
  <1>1. ASSUME snap = 0, NEW i \in wave PROVE FALSE
    <2>1. TheKey(i) \in Keys /\ TheKey(i) \in WaveKeys
      BY WaveUnitsAre
    <2>2. Layout[0][TheKey(i)] = NoRoute
      BY <2>1, BatchConstants
    <2> QED BY <1>1, <2>1, <2>2 DEF WaveOK, Routes
  <1>2. wave = {} => WaveKeys = {}
    BY DEF WaveKeys
  <1> QED BY <1>1, <1>2 DEF Routes

LEMMA CollectJoins ==
    ASSUME BatchInv, Collect
    PROVE  LayoutsOK /\ Joins
  <1>0. BatchTypes /\ WaveOK
    BY DEF BatchInv
  <1>1. snap' \in 0..MaxEpoch
    BY <1>0 DEF Collect, BatchTypes
  <1>2. wave = {} \/ snap' = snap
    BY <1>0, EmptyWave DEF Collect
  <1>3. Routes(snap', Command.keys)
    BY DEF Collect
  <1> QED BY <1>0, <1>1, <1>2, <1>3 DEF Collect, ToNext, Joins, Rest, LayoutsOK, BatchTypes

LEMMA RefreshesLook ==
    ASSUME BatchInv, CollectRefreshes \/ ScatterRefreshes
    PROVE  LayoutsOK /\ (Looks \/ Passes("not"))
  <1>0. BatchTypes
    BY DEF BatchInv
  <1>1. LayoutsOK
    BY <1>0 DEF CollectRefreshes, ScatterRefreshes, LayoutsOK, BatchTypes
  <1>2. /\ UNCHANGED <<wave, snap, tasks, total, failed, history, stranded>>
        /\ where \in {"route", "scatter"} /\ index <= Len(pipeline)
    BY DEF CollectRefreshes, ScatterRefreshes, BatchInv, WaveOK
  <1>3. \/ UNCHANGED <<where, index, told>>
        \/ /\ where' = "route" /\ index' = index + 1 /\ told' = Learn(UnitsOf(index), "not")
    BY DEF CollectRefreshes, ScatterRefreshes, ToNext
  <1> QED BY <1>1, <1>2, <1>3 DEF Looks, Rest, LoopStays, Passes

LEMMA FailsPass ==
    ASSUME BatchInv, CollectFails
    PROVE  LayoutsOK /\ Passes("not")
  BY DEF BatchInv, BatchTypes, CollectFails, ToNext, LayoutsOK, Passes

LEMMA FlushesTurn ==
    ASSUME BatchInv, Flush \/ FlushNothing \/ Replan
    PROVE  LayoutsOK /\ Turns
  <1>0. BatchTypes /\ WaveOK
    BY DEF BatchInv
  <1>1. LayoutsOK /\ Rest /\ UNCHANGED <<index, wave>> /\ where \in {"route", "flush"}
    BY <1>0 DEF Flush, FlushNothing, Replan, LayoutsOK, Rest, BatchTypes
  <1>2. snap' \in 0..MaxEpoch
    <2>1. snap \in 0..MaxEpoch /\ known \in 0..MaxEpoch /\ 0 \in 0..MaxEpoch
      BY <1>0, BatchConstants DEF BatchTypes
    <2>2. snap' \in {snap, known, 0}
      BY DEF Flush, FlushNothing, Replan
    <2> QED BY <2>1, <2>2
  <1>3. Routes(snap', WaveKeys)
    BY <1>0, EmptyWave DEF Flush, FlushNothing, Replan, WaveOK
  <1>4. where' \in {"route", "flush", "scatter", "end"}
    BY DEF Flush, FlushNothing, Replan
  <1>5. where' \in {"scatter", "end"} => wave = {}
    BY DEF Flush, FlushNothing, Replan
  <1>6. where' = "scatter" => index <= Len(pipeline) /\ Command.kind # "routed"
    BY DEF Flush, FlushNothing, Replan
  <1>7. where' = "end" => index > Len(pipeline)
    BY DEF Flush, FlushNothing, Replan
  <1>8. where' = "end" => index = Len(pipeline) + 1
    BY <1>0, <1>7, TheCommands DEF BatchTypes
  <1> QED BY <1>1, <1>2, <1>3, <1>4, <1>5, <1>6, <1>8 DEF Turns

LEMMA WavesEnd ==
    ASSUME BatchInv, PlanningFails \/ WaveDone
    PROVE  LayoutsOK /\ WaveEnds
  <1>1. where = "flush" => tasks = {}
    BY DEF BatchInv, TasksOK
  <1>2. LayoutsOK
    BY DEF BatchInv, BatchTypes, PlanningFails, WaveDone, LayoutsOK
  <1> QED BY <1>1, <1>2 DEF PlanningFails, WaveDone, WaveOver, WaveEnds

LEMMA ControlPasses ==
    ASSUME BatchInv, ControlCommand
    PROVE  LayoutsOK /\ \E what \in Results : Passes(what)
  <1>0. LayoutsOK
    BY DEF BatchInv, BatchTypes, ControlCommand, LayoutsOK
  <1>1. index <= Len(pipeline)
    BY DEF BatchInv, WaveOK, ControlCommand
  <1>2. /\ where = "scatter" /\ Command.kind = "control" /\ where' = "route"
        /\ index' = index + 1 /\ UNCHANGED <<wave, snap, tasks, total, failed>>
    BY DEF ControlCommand, ToNext
  <1>3. ASSUME told' = Learn(UnitsOf(index), "unknown"), UNCHANGED history,
               NEW l \in Leaders,
               stranded' = stranded \cup Strand("control", l, <<<<index, NoKey>>>>)
        PROVE  Passes("unknown")
    <2> DEFINE u == <<index, NoKey>>
               s == <<u>>
    <2>1. u \in Units /\ u[1] = index
      BY <1>1, TheCommands DEF BatchInv, BatchTypes, Units
    <2> HIDE DEF u
    <2>2. s \in Seq(Units) /\ Len(s) = 1 /\ s[1] = u
      BY <2>1
    <2>3. ~ Stray(u)
      <3>1. index \in Nat
        BY TheCommands DEF BatchInv
      <3>2. Out(u) => u[1] < index
        BY <1>2, <2>1 DEF BatchInv, SequenceOK
      <3> QED BY <2>1, <3>1, <3>2 DEF Out
    <2> HIDE DEF s
    <2>4. \A j \in 1..Len(s) : j = 1
      BY <2>2
    <2>5. StrandedSound /\ stranded' = stranded \cup Strand("control", l, s)
      BY <1>3 DEF BatchInv, StrandedOK, s, u
    <2>6. Different(s)
      <3>1. ~ (1 < 1)
        OBVIOUS
      <3> QED BY <2>4, <3>1 DEF Different
    <2>7. NoneIn(stranded, s)
      BY <2>2, <2>3, <2>4 DEF Stray, NoneIn
    <2>8. StrandedSound' /\ StrayFrom(stranded, s)
      BY <2>2, <2>5, <2>6, <2>7, StrandIs
    <2>9. \A v : Stray(v)' => Stray(v) \/ v = <<index, NoKey>>
      <3> SUFFICES ASSUME NEW v, Stray(v)', ~ (\E c \in stranded : v \in Has(c))
                   PROVE  v = u
        BY DEF Stray, u
      <3> QED BY <2>2, <2>4, <2>8 DEF StrayFrom
    <2> QED BY <1>1, <1>2, <1>3, <2>8, <2>9 DEF Passes
  <1>4. Passes("ok") \/ Passes("unknown") \/ Passes("not")
    BY <1>1, <1>2, <1>3 DEF ControlCommand, Passes
  <1> QED BY <1>0, <1>4 DEF Results

LEMMA GatherGathers ==
    ASSUME BatchInv, Gather
    PROVE  LayoutsOK /\ Gathers
  BY DEF BatchInv, BatchTypes, Gather, ToNext, LayoutsOK, Gathers, Rest

LEMMA WorldLooks ==
    ASSUME BatchInv, LayoutChanges \/ OtherRefresh \/ UNCHANGED batchVars
    PROVE  LayoutsOK /\ Looks
  <1>0. BatchTypes
    BY DEF BatchInv
  <1>1. LayoutsOK
    BY <1>0, BatchConstants DEF LayoutChanges, OtherRefresh, LoopUnchanged, LayoutsOK, batchVars,
         BatchTypes
  <1> QED BY <1>1 DEF LayoutChanges, OtherRefresh, LoopUnchanged, NoCount, Looks, Rest, LoopStays,
                      batchVars

LEMMA LaunchBegins ==
    ASSUME BatchInv, Launch
    PROVE  LayoutsOK /\ Begins(tasks')
  <1>0. BatchTypes /\ WaveOK
    BY DEF BatchInv
  <1>1. tasks = {}
    BY DEF BatchInv, TasksOK, Launch
  <1>2. /\ Planned(WaveTasks(snap), WaveUnits)
        /\ \A t \in WaveTasks(snap) : t.kind = "wave"
    BY <1>0, WavePlanned
  <1>3. LayoutsOK
    BY <1>0 DEF BatchTypes, Launch, LayoutsOK
  <1>4. /\ tasks' = WaveTasks(snap) /\ where = "flush" /\ where' = "wave"
        /\ UNCHANGED <<index, wave, snap, told, history, stranded, total, failed>>
    BY DEF Launch
  <1> QED BY <1>1, <1>2, <1>3, <1>4 DEF Begins

LEMMA ScatterBegins ==
    ASSUME BatchInv, Scatter
    PROVE  LayoutsOK /\ (Begins(tasks') \/ Passes("not"))
  <1>0. BatchTypes /\ WaveOK
    BY DEF BatchInv
  <1>1. LayoutsOK
    BY <1>0 DEF BatchTypes, Scatter, LayoutsOK
  <1>2. index \in 1..Len(pipeline) /\ known \in 0..MaxEpoch
    <2>1. index <= Len(pipeline)
      BY <1>0 DEF WaveOK, Scatter
    <2> QED BY <1>0, <2>1, TheCommands DEF BatchTypes
  <1>3. CASE CrossShardAllowed(known, Command.keys)
    <2> DEFINE origin == CHOOSE l \in Leaders : TRUE
    <2>1. /\ tasks' = ScatterTasks(known, Command.keys, TRUE, origin)
          /\ where = "scatter" /\ where' = "gather" /\ Command.kind = "scatter"
          /\ total' = 0 /\ failed' = FALSE
          /\ UNCHANGED <<index, told, wave, snap, history, stranded>>
          /\ Routes(known, Command.keys)
      BY <1>3 DEF Scatter
    <2>2. Command.keys \subseteq Keys /\ UnitsOf(index) = {index} \X Command.keys
      BY <1>0, <1>2, <2>1, UnitsAre DEF Command
    <2> HIDE DEF origin
    <2>3. /\ Planned(ScatterTasks(known, Command.keys, TRUE, origin),
                     {<<index, k>> : k \in Command.keys})
          /\ \A t \in ScatterTasks(known, Command.keys, TRUE, origin) : t.kind # "wave"
      BY <1>0, <1>2, <2>1, <2>2, ScatterPlanned
    <2>4. {<<index, k>> : k \in Command.keys} = UnitsOf(index)
      BY <2>2
    <2>5. tasks = {}
      BY <2>1 DEF BatchInv, TasksOK
    <2> QED BY <1>1, <2>1, <2>3, <2>4, <2>5 DEF Begins
  <1>4. CASE ~ CrossShardAllowed(known, Command.keys)
    BY <1>1, <1>2, <1>4 DEF Scatter, ToNext, Passes
  <1> QED BY <1>3, <1>4


-----------------------------------------------------------------------------
(* The actions of the tasks.                                                  *)

LEMMA LoopKept ==
    ASSUME BatchInv, LoopUnchanged, known' \in {known, epoch}, UNCHANGED epoch
    PROVE  LayoutsOK /\ LoopStays
  <1>1. BatchTypes
    BY DEF BatchInv
  <1>2. epoch \in 0..MaxEpoch /\ known' \in 0..MaxEpoch
    <2>1. epoch \in 1..MaxEpoch /\ known \in 0..MaxEpoch /\ MaxEpoch \in Nat
      BY <1>1, BatchConstants DEF BatchTypes
    <2>2. epoch \in 0..MaxEpoch
      BY <2>1
    <2> QED BY <2>1, <2>2
  <1> QED BY <1>1, <1>2 DEF LoopUnchanged, LoopStays, LayoutsOK, BatchTypes

\* A task that fails, or whose refused commands are given up, ends with one answer.
LEMMA EndsAlike ==
    ASSUME BatchInv, NEW t \in tasks, Refused(t), LoopUnchanged,
           UNCHANGED <<history, stranded, total>>, Put(t, {}), NEW what \in {"not", "unknown"},
           told' = Learn(RangeOf(t.units), what),
           failed' = (failed \/ t.kind # "wave")
    PROVE  Ends(t)
  <1>0. BatchTypes /\ t \in Task
    BY DEF BatchInv, BatchTypes
  <1>1. LoopStays /\ UNCHANGED <<history, stranded>> /\ tasks' = tasks \ {t}
    BY DEF LoopUnchanged, LoopStays, Put
  <1>2. Has(t) \subseteq Units
    BY <1>0, HasIs
  <1>3. told' = [u \in Units |-> IF u \in Has(t) THEN what ELSE told[u]]
    BY DEF Learn, Has
  <1>4. told \in [Units -> Results]
    BY <1>0 DEF BatchTypes, Results
  <1>5. told' \in [Units -> Results] /\ \A u \in Units \ Has(t) : told'[u] = told[u]
    BY <1>3, <1>4 DEF Results
  <1>6. \A u \in Has(t) : told'[u] = what
    BY <1>2, <1>3
  <1>7. \A u \in Has(t) : ~ Ran(u)
    BY RefusedNotRun DEF Out
  <1>a. \A n \in 1..Len(t.answers) : t.answers[n] # "lost"
    BY DEF Refused
  <1>8. total' \in Nat /\ failed' \in BOOLEAN
    BY <1>0 DEF BatchTypes
  <1>9. where = "gather" => failed' /\ total' = total
    BY DEF BatchInv, TasksOK
  <1> QED BY <1>1, <1>5, <1>6, <1>7, <1>8, <1>9, <1>a DEF Ends

LEMMA FailsEnds ==
    ASSUME BatchInv, NEW t \in tasks, t.st \in {"new", "replan"}, LoopUnchanged,
           UNCHANGED <<history, stranded>>, Fails(t)
    PROVE  Ends(t)
  <1>0. t \in Task /\ TaskOK(t)
    BY DEF BatchInv, BatchTypes, TasksOK
  <1>1. Refused(t)
    BY <1>0 DEF TaskOK, Refused
  <1> QED BY <1>1, EndsAlike DEF Fails

LEMMA OneInstead ==
    ASSUME BatchInv, NEW t \in tasks, Refused(t), LoopUnchanged, NoCount,
           UNCHANGED <<told, history, stranded>>,
           NEW s \in Task, TaskOK(s), Refused(s), s.units = t.units, s.kind = t.kind, Put(t, {s})
    PROVE  Replaces(t, {s})
  <1>1. Has(s) = Has(t)
    BY DEF Has
  <1>2. Apart({s})
    BY DEF Apart
  <1> QED BY <1>1, <1>2 DEF Replaces, LoopUnchanged, LoopStays, NoCount, Put

LEMMA StartEffect ==
    ASSUME BatchInv, NEW t \in tasks, Start(t)
    PROVE  LayoutsOK /\ ((\E new : Replaces(t, new)) \/ Ends(t))
  <1>0. t \in Task /\ TaskOK(t) /\ t.st = "new"
    BY DEF BatchInv, BatchTypes, TasksOK, Start
  <1>1. LoopUnchanged /\ UNCHANGED <<known, epoch, history, stranded>>
    BY DEF Start
  <1>2. LayoutsOK
    BY <1>1, LoopKept
  <1>3. t.answers = <<>> /\ Refused(t)
    BY <1>0 DEF TaskOK, Refused
  <1>4. CASE t.snap = known /\ Put(t, {[t EXCEPT !.st = "sent"]}) /\ NoCount /\ UNCHANGED told
    <2> DEFINE s == [t EXCEPT !.st = "sent"]
    <2>1. s \in Task /\ s.kind = t.kind /\ s.units = t.units /\ s.answers = t.answers
          /\ s.st = "sent"
      BY <1>0, WithState
    <2>2. Put(t, {s})
      BY <1>4
    <2> HIDE DEF s
    <2>3. TaskOK(s) /\ Refused(s)
      BY <1>0, <1>3, <2>1 DEF TaskOK, Refused
    <2>4. Replaces(t, {s})
      BY <1>1, <1>3, <1>4, <2>1, <2>2, <2>3, OneInstead
    <2> QED BY <1>2, <2>4
  <1>5. CASE t.snap # known /\ Fails(t)
    BY <1>0, <1>1, <1>2, <1>5, FailsEnds
  <1> QED BY <1>4, <1>5 DEF Start

LEMMA RefreshEffect ==
    ASSUME BatchInv, NEW t \in tasks, RefreshToRetry(t)
    PROVE  LayoutsOK /\ \E new : Replaces(t, new)
  <1>0. t \in Task /\ TaskOK(t)
    BY DEF BatchInv, BatchTypes, TasksOK
  <1>1. LoopUnchanged /\ NoCount /\ UNCHANGED <<epoch, told, history, stranded>> /\ known' = epoch
    BY DEF RefreshToRetry
  <1>2. LayoutsOK
    BY <1>1, LoopKept
  <1>3. \A n \in 1..Len(t.answers) : t.answers[n] = "moved"
    <2>1. RangeOf(t.answers) = {"moved"}
      BY DEF RefreshToRetry, MayRetry, AllRefused
    <2>2. DOMAIN t.answers = 1..Len(t.answers)
      BY <1>0, HasIs
    <2> QED BY <2>1, <2>2 DEF RangeOf
  <1> DEFINE s == [t EXCEPT !.st = "replan"]
  <1>4. s \in Task /\ s.kind = t.kind /\ s.units = t.units /\ s.answers = t.answers
        /\ s.st = "replan"
    BY <1>0, WithState
  <1>5. Put(t, {s}) /\ Len(t.answers) = Len(t.units)
    BY DEF RefreshToRetry, Served
  <1> HIDE DEF s
  <1>6. TaskOK(s) /\ Refused(s) /\ Refused(t)
    BY <1>0, <1>3, <1>4, <1>5 DEF TaskOK, Refused
  <1>7. Replaces(t, {s})
    BY <1>1, <1>4, <1>5, <1>6, OneInstead
  <1> QED BY <1>2, <1>7

LEMMA ExpireEffect ==
    ASSUME BatchInv, NEW t \in tasks, ExpireTask(t)
    PROVE  LayoutsOK /\ Ends(t)
  <1>0. t \in Task
    BY DEF BatchInv, BatchTypes
  <1>1. LoopUnchanged /\ UNCHANGED <<known, epoch, total, history, stranded>>
    BY DEF ExpireTask
  <1>2. LayoutsOK
    BY <1>1, LoopKept
  <1>3. Refused(t)
    <2>1. RangeOf(t.answers) = {"moved"}
      BY DEF ExpireTask, MayRetry, AllRefused
    <2>2. DOMAIN t.answers = 1..Len(t.answers)
      BY <1>0, HasIs
    <2> QED BY <2>1, <2>2 DEF RangeOf, Refused
  <1>4. /\ Put(t, {}) /\ told' = Learn(RangeOf(t.units), "unknown")
        /\ failed' = (failed \/ t.kind # "wave")
    BY DEF ExpireTask
  <1>5. Ends(t)
    BY <1>1, <1>3, <1>4, EndsAlike
  <1> QED BY <1>2, <1>5


\* The answer to a unit of a task.
LEMMA AnswerIs ==
    ASSUME BatchInv, NEW t \in tasks, NEW m \in 1..Len(t.units)
    PROVE  AnswerTo(t, t.units[m]) = t.answers[m]
  <1>0. t \in Task /\ TaskOK(t)
    BY DEF BatchInv, BatchTypes, TasksOK
  <1>1. DOMAIN t.units = 1..Len(t.units) /\ Len(t.units) \in Nat
    BY <1>0, HasIs
  <1> DEFINE n == CHOOSE k \in DOMAIN t.units : t.units[k] = t.units[m]
  <1>2. n \in 1..Len(t.units) /\ t.units[n] = t.units[m]
    BY <1>1
  <1> HIDE DEF n
  <1>3. ~ (n < m) /\ ~ (m < n)
    BY <1>0, <1>2 DEF TaskOK
  <1>4. n = m
    <2>1. n \in Nat /\ m \in Nat
      BY <1>1, <1>2
    <2> QED BY <1>3, <2>1
  <1> QED BY <1>4 DEF AnswerTo, n

LEMMA SettleEffect ==
    ASSUME BatchInv, NEW t \in tasks, Settle(t)
    PROVE  LayoutsOK /\ Ends(t)
  <1>0. BatchTypes /\ t \in Task /\ TaskOK(t)
    BY DEF BatchInv, BatchTypes, TasksOK
  <1>1. /\ LoopUnchanged /\ UNCHANGED <<epoch, history, stranded>> /\ known' \in {known, epoch}
        /\ Len(t.answers) = Len(t.units) /\ tasks' = tasks \ {t}
    BY DEF Settle, Put, Served
  <1>2. LayoutsOK /\ LoopStays
    BY <1>1, LoopKept
  <1>3. Has(t) \subseteq Units /\ Len(t.units) \in Nat
    BY <1>0, HasIs
  <1>4. told' = [u \in Units |-> IF u \in Has(t) THEN Told(AnswerTo(t, u)) ELSE told[u]]
    BY DEF Settle, Has
  <1>5. \A a : Told(a) \in {"ok", "not", "unknown"}
    BY DEF Told
  <1>6. told \in [Units -> Results]
    BY <1>0 DEF BatchTypes, Results
  <1>7. told' \in [Units -> Results] /\ \A u \in Units \ Has(t) : told'[u] = told[u]
    BY <1>4, <1>5, <1>6 DEF Results
  <1>8. ASSUME NEW u \in Has(t)
        PROVE  \E m \in 1..Len(t.units) : /\ m \in 1..Len(t.answers) /\ t.units[m] = u
                                          /\ told'[u] = Told(t.answers[m])
    <2>1. PICK m \in 1..Len(t.units) : t.units[m] = u
      BY <1>0, HasIs
    <2>2. AnswerTo(t, u) = t.answers[m]
      BY <2>1, AnswerIs
    <2>3. told'[u] = Told(AnswerTo(t, u))
      BY <1>3, <1>4
    <2> QED BY <1>1, <2>1, <2>2, <2>3
  <1>9. ASSUME NEW u \in Has(t)
        PROVE  /\ told'[u] # "none" /\ (told'[u] = "ok" => Ran(u))
               /\ (told'[u] = "not" => ~ Ran(u))
    <2>1. PICK m \in 1..Len(t.units) : /\ m \in 1..Len(t.answers) /\ t.units[m] = u
                                       /\ told'[u] = Told(t.answers[m])
      BY <1>8
    <2>2. told'[u] = "ok" => t.answers[m] = "ok"
      BY <2>1 DEF Told
    <2>3. told'[u] = "not" => t.answers[m] = "moved"
      BY <2>1 DEF Told
    <2>4. t.answers[m] = "ok" => Ran(u)
      BY <2>1 DEF BatchInv, TrueOK
    <2>5. t.answers[m] = "moved" => ~ Ran(u)
      BY <2>1, NotRun DEF Out
    <2>6. told'[u] # "none"
      BY <1>5, <2>1
    <2> QED BY <2>2, <2>3, <2>4, <2>5, <2>6
  <1>10. DOMAIN t.answers = 1..Len(t.answers)
    BY <1>0, HasIs
  <1>11. /\ failed' = (failed \/ (t.kind # "wave" /\ RouteError(t)))
         /\ total' = IF t.kind = "wave" \/ RouteError(t) THEN total ELSE total + Len(t.units)
    BY DEF Settle
  <1>12. total' \in Nat /\ failed' \in BOOLEAN
    <2>1. total \in Nat
      BY <1>0 DEF BatchTypes
    <2> QED BY <1>3, <1>11, <2>1
  <1>13. ASSUME where = "gather", RouteError(t)
         PROVE  failed' /\ total' = total /\ \A u \in Has(t) : told'[u] # "ok"
    <2>1. t.kind # "wave"
      BY <1>13 DEF BatchInv, TasksOK
    <2>2. PICK n \in 1..Len(t.answers) : t.answers[n] # "ok"
      BY <1>10, <1>13 DEF RouteError, RangeOf
    <2>3. \A m \in 1..Len(t.answers) : t.answers[m] # "ok"
      BY <1>0, <2>1, <2>2 DEF TaskOK
    <2>4. \A u \in Has(t) : told'[u] # "ok"
      BY <1>8, <2>3 DEF Told
    <2> QED BY <1>11, <1>13, <2>1, <2>4
  <1>14. ASSUME where = "gather", ~ RouteError(t)
         PROVE  /\ failed' = failed /\ total' = total + Len(t.units)
                /\ \A u \in Has(t) : told'[u] = "ok"
    <2>1. t.kind # "wave" /\ failed \in BOOLEAN
      BY <1>0, <1>14 DEF BatchInv, TasksOK, BatchTypes
    <2>2. \A m \in 1..Len(t.answers) : t.answers[m] = "ok"
      BY <1>10, <1>14 DEF RouteError, RangeOf
    <2>4. \A u \in Has(t) : told'[u] = "ok"
      BY <1>8, <2>2 DEF Told
    <2> QED BY <1>11, <1>14, <2>1, <2>4
  <1>b. ASSUME NEW n \in 1..Len(t.answers), t.answers[n] = "lost"
        PROVE  told'[t.units[n]] = "unknown"
    <2>1. n \in 1..Len(t.units) /\ t.units[n] \in Has(t)
      BY <1>0, <1>1, HasIs
    <2>2. AnswerTo(t, t.units[n]) = "lost"
      BY <1>b, <2>1, AnswerIs
    <2> QED BY <1>3, <1>4, <2>1, <2>2 DEF Told
  <1>15. Ends(t)
    <2>1. UNCHANGED <<history, stranded>> /\ tasks' = tasks \ {t}
      BY <1>1
    <2>2. \A u \in Has(t) : /\ told'[u] # "none" /\ (told'[u] = "ok" => Ran(u))
                            /\ (told'[u] = "not" => ~ Ran(u))
      BY <1>9
    <2> QED BY <1>2, <1>7, <1>12, <1>13, <1>14, <1>b, <2>1, <2>2 DEF Ends
  <1> QED BY <1>2, <1>15

-----------------------------------------------------------------------------
(* A task is served.                                                          *)

LEMMA AnswersServe ==
    ASSUME BatchInv, NEW t \in tasks, t.st = "sent", ~ Served(t), LoopUnchanged, NoCount,
           UNCHANGED told, NEW n \in Nat, n <= Len(t.units) - Len(t.answers),
           t.kind # "wave" => n = Len(t.units) - Len(t.answers),
           NEW a \in Answers, NEW done \in 0..n, done # 0 => a # "moved", done # n => a # "ok",
           Replies(t, [m \in 1..n |-> a]),
           history' = history \o SubSeq(t.units, Len(t.answers) + 1, Len(t.answers) + done),
           StrandedSound',
           \A u : Stray(u)' => \/ Stray(u)
                              \/ /\ a = "lost"
                                 /\ \E m \in 1..n : m > done /\ u = t.units[Len(t.answers) + m]
    PROVE  \E more : Serves(t, more, done)
  <1> DEFINE more == [m \in 1..n |-> a]
  <1>0. t \in Task /\ TaskOK(t)
    BY DEF BatchInv, BatchTypes, TasksOK
  <1>1. Len(t.units) \in Nat /\ Len(t.answers) \in Nat
    BY <1>0, HasIs
  <1>2. more \in Seq(Answers) /\ Len(more) = n
    <2>1. more \in [1..n -> Answers]
      OBVIOUS
    <2> HIDE DEF more
    <2> QED BY <2>1, IsASeq
  <1>3. \A m \in 1..n : more[m] = a
    OBVIOUS
  <1>4. tasks' = (tasks \ {t}) \cup {[t EXCEPT !.answers = @ \o more]}
    BY DEF Replies, Put
  <1> HIDE DEF more
  <1>5. \A m \in 1..Len(more) : IF m <= done THEN more[m] # "moved" ELSE more[m] # "ok"
    <2> SUFFICES ASSUME NEW m \in 1..Len(more)
                 PROVE  IF m <= done THEN more[m] # "moved" ELSE more[m] # "ok"
      OBVIOUS
    <2>1. more[m] = a /\ m \in 1..n
      BY <1>2, <1>3
    <2>2. m <= done => done # 0
      BY <2>1
    <2>3. ~ (m <= done) => done # n
      BY <2>1
    <2> QED BY <2>1, <2>2, <2>3
  <1>6. t.kind # "wave" => /\ Len(t.answers) = 0 /\ Len(more) = Len(t.units)
                           /\ \A i, j \in 1..Len(more) : more[i] = more[j]
    <2> SUFFICES ASSUME t.kind # "wave"
                 PROVE  /\ Len(t.answers) = 0 /\ Len(more) = Len(t.units)
                        /\ \A i, j \in 1..Len(more) : more[i] = more[j]
      OBVIOUS
    <2>1. Len(t.answers) = 0
      BY <1>0 DEF TaskOK, Served
    <2>2. n = Len(t.units)
      BY <1>1, <2>1
    <2> QED BY <1>2, <1>3, <2>1, <2>2
  <1>7. Len(t.answers) + Len(more) <= Len(t.units) /\ done \in 0..Len(more)
    BY <1>1, <1>2
  <1>8. LoopStays /\ UNCHANGED <<told, total, failed>>
    BY DEF LoopUnchanged, LoopStays, NoCount
  <1>a. \A u : Stray(u)' => \/ Stray(u)
                            \/ \E m \in 1..Len(more) : /\ m > done /\ more[m] = "lost"
                                                       /\ u = t.units[Len(t.answers) + m]
    BY <1>2, <1>3
  <1>9. Serves(t, more, done)
    BY <1>2, <1>4, <1>5, <1>6, <1>7, <1>8, <1>a DEF Serves
  <1> QED BY <1>9


\* Nothing is executed.
LEMMA NothingServed ==
    ASSUME BatchTypes, NEW t \in Task, UNCHANGED history
    PROVE  history' = history \o SubSeq(t.units, Len(t.answers) + 1, Len(t.answers) + 0)
  <1>1. Len(t.answers) \in Nat
    BY HasIs
  <1>2. SubSeq(t.units, Len(t.answers) + 1, Len(t.answers) + 0) = <<>>
    BY <1>1, SubSeqEmpty
  <1>3. history \o <<>> = history
    BY ConcatEmptySeq DEF BatchTypes
  <1> QED BY <1>2, <1>3

LEMMA ServeEffect ==
    ASSUME BatchInv, NEW t \in tasks, ServeTask(t)
    PROVE  LayoutsOK /\ \E more, done : Serves(t, more, done)
  <1> DEFINE n == IF t.kind = "wave" THEN 1 ELSE Len(t.units)
             all(a) == [m \in 1..n |-> a]
             us == SubSeq(t.units, Len(t.answers) + 1, Len(t.answers) + n)
  <1>0. BatchTypes /\ t \in Task /\ TaskOK(t)
    BY DEF BatchInv, BatchTypes, TasksOK
  <1>1. /\ t.st = "sent" /\ ~ Served(t) /\ LoopUnchanged /\ NoCount
        /\ UNCHANGED <<known, epoch, told, stranded>>
    BY DEF ServeTask
  <1>2. LayoutsOK
    BY <1>1, LoopKept
  <1>s. StrandedSound' /\ \A u : Stray(u)' => Stray(u)
    BY <1>1, StrandedStays DEF BatchInv, StrandedOK
  <1>3. Len(t.units) \in Nat /\ Len(t.answers) \in Nat
    BY <1>0, HasIs
  <1>4. /\ n \in Nat /\ n <= Len(t.units) - Len(t.answers)
        /\ t.kind # "wave" => n = Len(t.units) - Len(t.answers)
    <2>1. Len(t.answers) <= Len(t.units) /\ Len(t.answers) # Len(t.units)
      BY <1>0, <1>1 DEF TaskOK, Served
    <2>2. t.kind # "wave" => Len(t.answers) = 0
      BY <1>0, <1>1 DEF TaskOK, Served
    <2>3. CASE t.kind = "wave"
      <3>1. n = 1
        BY <2>3
      <3> QED BY <1>3, <2>1, <2>3, <3>1
    <2>4. CASE t.kind # "wave"
      <3>1. n = Len(t.units)
        BY <2>4
      <3>2. Len(t.answers) = 0
        BY <2>2, <2>4
      <3> HIDE DEF n
      <3> QED BY <1>3, <3>1, <3>2
    <2> QED BY <2>3, <2>4
  <1>5. \/ Replies(t, all("ok")) /\ history' = history \o us
        \/ Replies(t, all("moved")) /\ UNCHANGED history
        \/ Replies(t, all("suspect")) /\ (UNCHANGED history \/ history' = history \o us)
    BY DEF ServeTask
  <1>6. UNCHANGED history
          => history' = history \o SubSeq(t.units, Len(t.answers) + 1, Len(t.answers) + 0)
    BY <1>0, NothingServed
  <1>7. 0 \in 0..n /\ n \in 0..n
    BY <1>4
  <1> HIDE DEF n
  <1>8. CASE Replies(t, all("ok")) /\ history' = history \o us
    <2>1. "ok" \in Answers
      BY DEF Answers
    <2>2. \E more : Serves(t, more, n)
      BY <1>1, <1>4, <1>7, <1>8, <1>s, <2>1, AnswersServe
    <2> QED BY <1>2, <2>2
  <1>9. CASE Replies(t, all("moved")) /\ UNCHANGED history
    <2>1. "moved" \in Answers
      BY DEF Answers
    <2>2. \E more : Serves(t, more, 0)
      BY <1>1, <1>4, <1>6, <1>7, <1>9, <1>s, <2>1, AnswersServe
    <2> QED BY <1>2, <2>2
  <1>10. CASE Replies(t, all("suspect")) /\ UNCHANGED history
    <2>1. "suspect" \in Answers
      BY DEF Answers
    <2>2. \E more : Serves(t, more, 0)
      BY <1>1, <1>4, <1>6, <1>7, <1>10, <1>s, <2>1, AnswersServe
    <2> QED BY <1>2, <2>2
  <1>11. CASE Replies(t, all("suspect")) /\ history' = history \o us
    <2>1. "suspect" \in Answers
      BY DEF Answers
    <2>2. \E more : Serves(t, more, n)
      BY <1>1, <1>4, <1>7, <1>11, <1>s, <2>1, AnswersServe
    <2> QED BY <1>2, <2>2
  <1> QED BY <1>5, <1>8, <1>9, <1>10, <1>11

LEMMA BreakEffect ==
    ASSUME BatchInv, NEW t \in tasks, Break(t)
    PROVE  LayoutsOK /\ \E more, done : Serves(t, more, done)
  <1> DEFINE n == Len(t.units) - Len(t.answers)
             from == Len(t.answers) + 1
  <1>0. BatchTypes /\ t \in Task /\ TaskOK(t)
    BY DEF BatchInv, BatchTypes, TasksOK
  <1>1. /\ t.st = "sent" /\ ~ Served(t) /\ LoopUnchanged /\ NoCount
        /\ UNCHANGED <<known, epoch, told>>
    BY DEF Break
  <1>2. LayoutsOK
    BY <1>1, LoopKept
  <1>3. Len(t.units) \in Nat /\ Len(t.answers) \in Nat /\ Len(t.answers) <= Len(t.units)
    BY <1>0, HasIs DEF TaskOK
  <1>4. Replies(t, [m \in 1..n |-> "lost"])
    BY DEF Break
  <1> DEFINE rest(to) == SubSeq(t.units, to + 1, Len(t.units))
  <1>5. PICK to \in from - 1 .. Len(t.units) :
           /\ history' = history \o SubSeq(t.units, from, to)
           /\ stranded' = stranded \cup Strand(t.kind, t.leader, rest(to))
    BY DEF Break
  <1> DEFINE done == to - Len(t.answers)
  <1>6. n \in Nat /\ done \in 0..n /\ Len(t.answers) + done = to
    BY <1>3
  <1>7. history' = history \o SubSeq(t.units, Len(t.answers) + 1, Len(t.answers) + done)
    BY <1>5, <1>6
  <1>8. "lost" \in Answers /\ "lost" # "moved" /\ "lost" # "ok"
    BY DEF Answers
  <1>9. n <= Len(t.units) - Len(t.answers) /\ (t.kind # "wave" => n = Len(t.units) - Len(t.answers))
    BY <1>3
  <1>a. to \in Nat /\ to <= Len(t.units) /\ Len(t.answers) <= to
    BY <1>3
  <1>b. /\ rest(to) \in Seq(Units)
        /\ \A j \in 1..Len(rest(to)) : to + j \in 1..Len(t.units) /\ rest(to)[j] = t.units[to + j]
        /\ \A i, j \in 1..Len(rest(to)) : i < j => rest(to)[i] # rest(to)[j]
    BY <1>0, <1>a, TaskFields, RestIs DEF TaskOK
  <1> HIDE DEF rest
  <1>c. \A j \in 1..Len(rest(to)) : ~ Out(rest(to)[j])
    <2> SUFFICES ASSUME NEW j \in 1..Len(rest(to)) PROVE ~ Out(t.units[to + j])
      BY <1>b
    <2>1. to + j \in 1..Len(t.units) /\ ~ (to + j <= Len(t.answers))
      BY <1>3, <1>a, <1>b
    <2> QED BY <2>1, NotRun
  <1>d. /\ StrandedSound'
        /\ \A u : Stray(u)' => \/ \E c \in stranded : u \in Has(c)
                               \/ \E j \in 1..Len(rest(to)) : u = rest(to)[j]
    <2>1. NoneIn(stranded, rest(to))
      BY <1>c DEF Out, Stray, NoneIn
    <2>2. Different(rest(to))
      BY <1>b DEF Different
    <2>3. StrandedSound
      BY DEF BatchInv, StrandedOK
    <2>4. StrandedSound' /\ StrayFrom(stranded, rest(to))
      BY <1>5, <1>b, <2>1, <2>2, <2>3, StrandIs
    <2> QED BY <2>4 DEF StrayFrom
  <1>e. ASSUME NEW j \in 1..Len(rest(to))
        PROVE  \E m \in 1..n : m > done /\ rest(to)[j] = t.units[Len(t.answers) + m]
    <2>1. to + j \in 1..Len(t.units) /\ rest(to)[j] = t.units[to + j] /\ j \in Nat \ {0}
      BY <1>b
    <2>2. /\ (to - Len(t.answers)) + j \in 1..(Len(t.units) - Len(t.answers))
          /\ (to - Len(t.answers)) + j > to - Len(t.answers)
          /\ Len(t.answers) + ((to - Len(t.answers)) + j) = to + j
      <3> DEFINE a == Len(t.answers)
                 b == Len(t.units)
      <3>1. a \in Nat /\ b \in Nat /\ to \in Nat /\ a <= to /\ to <= b /\ to + j \in 1..b
        BY <1>3, <1>a, <2>1
      <3> HIDE DEF a, b
      <3>2. (to - a) + j \in 1..(b - a) /\ (to - a) + j > to - a /\ a + ((to - a) + j) = to + j
        BY <2>1, <3>1
      <3> QED BY <3>2, Zenon DEF a, b
    <2>3. done + j \in 1..n /\ done + j > done /\ Len(t.answers) + (done + j) = to + j
      BY <2>2, Zenon
    <2> QED BY <2>1, <2>3
  <1> HIDE DEF n, done, from
  <1>f. \A u : Stray(u)' => \/ Stray(u)
                            \/ \E m \in 1..n : m > done /\ u = t.units[Len(t.answers) + m]
    <2> SUFFICES ASSUME NEW u, Stray(u)', ~ Stray(u)
                 PROVE  \E m \in 1..n : m > done /\ u = t.units[Len(t.answers) + m]
      OBVIOUS
    <2>1. ~ \E c \in stranded : u \in Has(c)
      BY DEF Stray
    <2>2. PICK j \in 1..Len(rest(to)) : u = rest(to)[j]
      BY <1>d, <2>1
    <2> QED BY <1>e, <2>2
  <1>10. \E more : Serves(t, more, done)
    <2>1. /\ UNCHANGED told /\ (done # 0 => "lost" # "moved") /\ (done # n => "lost" # "ok")
          /\ \A u : Stray(u)' =>
                \/ Stray(u)
                \/ /\ "lost" = "lost"
                   /\ \E m \in 1..n : m > done /\ u = t.units[Len(t.answers) + m]
      BY <1>1, <1>8, <1>f
    <2> QED BY <1>1, <1>4, <1>6, <1>7, <1>8, <1>9, <1>d, <2>1, AnswersServe
  <1> QED BY <1>2, <1>10

-----------------------------------------------------------------------------
(* A task is planned again.                                                   *)

LEMMA PlannedInstead ==
    ASSUME BatchInv, NEW t \in tasks, Refused(t), LoopUnchanged, NoCount,
           UNCHANGED <<told, history, stranded>>, t.kind # "wave",
           NEW new, Planned(new, Has(t)), \A s \in new : s.kind # "wave", Put(t, new)
    PROVE  Replaces(t, new)
  <1>1. \A s \in new : Refused(s)
    BY DEF Planned, Refused
  <1> QED BY <1>1 DEF Planned, Replaces, LoopUnchanged, LoopStays, NoCount, Put

LEMMA RetryEffect ==
    ASSUME BatchInv, NEW t \in tasks, RetryPlan(t)
    PROVE  LayoutsOK /\ ((\E new : Replaces(t, new)) \/ Ends(t))
  <1> DEFINE keys == IF t.kind = "typed" THEN {t.units[1][2]} ELSE {u[2] : u \in Has(t)}
             leaders == {Layout[known][k] : k \in keys}
             again == [t EXCEPT !.leader = CHOOSE l \in leaders : TRUE, !.snap = known,
                                !.first = FALSE, !.st = "new", !.answers = <<>>]
             scattered == ScatterTasks(known, keys, FALSE, t.origin)
  <1>0. BatchTypes /\ WaveOK /\ t \in Task /\ TaskOK(t)
    BY DEF BatchInv, BatchTypes, TasksOK
  <1>1. t.st = "replan" /\ LoopUnchanged /\ UNCHANGED <<known, epoch, history, stranded>>
    BY DEF RetryPlan
  <1>2. LayoutsOK
    BY <1>1, LoopKept
  <1>3. Refused(t)
    BY <1>0, <1>1 DEF TaskOK, Refused
  <1>4. \/ Fails(t)
        \/ /\ Routes(known, keys) /\ NoCount /\ UNCHANGED told
           /\ t.kind = "scatter" /\ Put(t, scattered)
        \/ /\ Routes(known, keys) /\ NoCount /\ UNCHANGED told
           /\ t.kind # "scatter" /\ Put(t, {again})
    BY DEF RetryPlan, Has
  <1>5. Len(t.units) \in Nat /\ 1 \in 1..Len(t.units) /\ t.units[1] \in Has(t) /\
          Has(t) \subseteq Units
    <2>1. Len(t.units) \in Nat /\ t.units \in Seq(Units) /\ t.units # <<>>
      BY <1>0, HasIs, TaskFields DEF TaskOK
    <2>2. 1 \in 1..Len(t.units)
      BY <2>1, EmptySeq
    <2> QED BY <1>0, <2>1, <2>2, HasIs
  <1>6. /\ where \in {"wave", "gather"}
        /\ where = "wave" => t.kind = "wave" /\ \A u \in Has(t) : u[1] \in wave /\ u[2] =
             TheKey(u[1])
        /\ where = "gather" => t.kind # "wave" /\ \A u \in Has(t) : u[1] = index /\
             u[2] \in Command.keys
    BY DEF BatchInv, TasksOK
  <1>7. \A u \in Has(t) : u[2] \in Keys
    <2> SUFFICES ASSUME NEW u \in Has(t) PROVE u[2] \in Keys
      OBVIOUS
    <2>1. CASE where = "wave"
      BY <1>0, <1>6, <2>1, WaveUnitsAre
    <2>2. CASE where = "gather"
      <3>1. index \in 1..Len(pipeline)
        BY <1>0, <2>2, TheCommands DEF WaveOK, BatchTypes
      <3>2. Command.keys \subseteq Keys
        BY <1>0, <3>1, UnitsAre DEF Command
      <3> QED BY <1>6, <2>2, <3>2
    <2> QED BY <1>6, <2>1, <2>2
  <1>8. keys \subseteq Keys /\ keys # {}
    BY <1>5, <1>7
  <1>9. known \in 0..MaxEpoch
    BY <1>0 DEF BatchTypes
  <1>a. keys = IF t.kind = "typed" THEN {t.units[1][2]} ELSE {u[2] : u \in Has(t)}
    OBVIOUS
  <1> HIDE DEF keys
  <1>10. ASSUME Routes(known, keys), NoCount, UNCHANGED told, t.kind # "scatter", Put(t, {again})
         PROVE  Replaces(t, {again})
    <2>1. PICK k \in keys : TRUE
      BY <1>8
    <2>2. Layout[known][k] \in leaders
      OBVIOUS
    <2>3. (CHOOSE l \in leaders : TRUE) \in leaders
      BY <2>2
    <2>4. PICK x \in keys : (CHOOSE l \in leaders : TRUE) = Layout[known][x]
      BY <2>3
    <2>5. Layout[known][x] # NoRoute /\ x \in Keys
      BY <1>8, <1>10 DEF Routes
    <2>6. (CHOOSE l \in leaders : TRUE) \in Leaders /\ known \in 1..MaxEpoch
      BY <1>9, <2>4, <2>5, RouteIs
    <2> DEFINE s == again
               l0 == CHOOSE l \in leaders : TRUE
    <2>7. s = [t EXCEPT !.leader = l0, !.snap = known, !.first = FALSE, !.st = "new",
                        !.answers = <<>>]
      OBVIOUS
    <2>8. l0 \in Leaders
      BY <2>6
    <2> HIDE DEF l0, s
    <2>9. s \in Task /\ s.kind = t.kind /\ s.units = t.units /\ s.answers = <<>> /\ s.st = "new"
      <3>1. <<>> \in Seq(Answers)
        OBVIOUS
      <3> QED BY <1>0, <2>6, <2>7, <2>8, <3>1 DEF Task
    <2>10. TaskOK(s) /\ Refused(s)
      <3>1. t.units # <<>> /\ \A m, n \in 1..Len(t.units) :
               m < n => t.units[m] # t.units[n] /\ t.units[m][1] <= t.units[n][1]
        BY <1>0 DEF TaskOK
      <3>2. TaskOK(s)
        BY <2>9, <3>1, NewIsSound
      <3> QED BY <2>9, <3>2 DEF Refused
    <2>11. Put(t, {s})
      BY <1>10 DEF s
    <2>12. Replaces(t, {s})
      BY <1>1, <1>3, <1>10, <2>9, <2>10, <2>11, OneInstead
    <2> QED BY <2>12 DEF s
  <1>11. ASSUME Routes(known, keys), NoCount, UNCHANGED told, t.kind = "scatter", Put(t, scattered)
         PROVE  Replaces(t, scattered)
    <2>1. where = "gather" /\ t.kind # "wave"
      BY <1>6, <1>11
    <2>2. index \in 1..Len(pipeline)
      BY <1>0, <2>1, TheCommands DEF WaveOK, BatchTypes
    <2>3. t.origin \in Leaders
      BY <1>0, TaskFields
    <2>4. keys = {u[2] : u \in Has(t)}
      BY <1>11, <1>a
    <2> HIDE DEF leaders, again
    <2>5. /\ Planned(scattered, {<<index, k>> : k \in keys})
          /\ \A s \in scattered : s.kind # "wave"
      BY <1>0, <1>8, <1>9, <1>11, <2>2, <2>3, ScatterPlanned
    <2>6. {<<index, k>> : k \in keys} = Has(t)
      <3>1. \A u \in Has(t) : u = <<index, u[2]>>
        BY <1>5, <1>6, <2>1 DEF Units
      <3> QED BY <2>4, <3>1
    <2> HIDE DEF scattered
    <2>7. Planned(scattered, Has(t))
      BY <2>5, <2>6
    <2> QED BY <1>1, <1>3, <1>11, <2>1, <2>5, <2>7, PlannedInstead
  <1>12. Fails(t) => Ends(t)
    BY <1>1, FailsEnds
  <1> QED BY <1>2, <1>4, <1>10, <1>11, <1>12


-----------------------------------------------------------------------------
(* Every step has one of these effects.                                       *)

TaskEffect(t) == \/ \E new : Replaces(t, new)
                 \/ \E more, done : Serves(t, more, done)
                 \/ Ends(t)
Effect ==
    \/ Looks \/ Joins \/ Turns \/ (\E what : Passes(what)) \/ WaveEnds \/ Begins(tasks') \/ Gathers
    \/ \E t \in tasks : TaskEffect(t)

LEMMA TaskStep ==
    ASSUME BatchInv, NEW t \in tasks,
           \/ Start(t) \/ ServeTask(t) \/ Break(t)
           \/ RefreshToRetry(t) \/ ExpireTask(t) \/ Settle(t) \/ RetryPlan(t)
    PROVE  LayoutsOK /\ TaskEffect(t)
  <1>1. CASE Start(t)
    BY <1>1, StartEffect DEF TaskEffect
  <1>2. CASE ServeTask(t)
    BY <1>2, ServeEffect DEF TaskEffect
  <1>3. CASE Break(t)
    BY <1>3, BreakEffect DEF TaskEffect
  <1>4. CASE RefreshToRetry(t)
    BY <1>4, RefreshEffect DEF TaskEffect
  <1>5. CASE ExpireTask(t)
    BY <1>5, ExpireEffect DEF TaskEffect
  <1>6. CASE Settle(t)
    BY <1>6, SettleEffect DEF TaskEffect
  <1>7. CASE RetryPlan(t)
    BY <1>7, RetryEffect DEF TaskEffect
  <1> QED BY <1>1, <1>2, <1>3, <1>4, <1>5, <1>6, <1>7

LEMMA StrayEffect ==
    ASSUME BatchInv, NEW c \in stranded, StrandedRuns(c)
    PROVE  LayoutsOK /\ Strays
  <1> DEFINE n == IF c.kind = "wave" THEN 1 ELSE Len(c.units)
             us == SubSeq(c.units, 1, n)
             rest == SubSeq(c.units, n + 1, Len(c.units))
  <1>0. StrandedSound /\ history \in Seq(Units)
    BY DEF BatchInv, StrandedOK, BatchTypes
  <1>1. /\ LoopUnchanged /\ NoCount /\ UNCHANGED <<known, epoch, told, tasks>>
        /\ UNCHANGED history \/ history' = history \o us
        /\ stranded' = (stranded \ {c}) \cup Strand(c.kind, c.leader, rest)
    BY DEF StrandedRuns
  <1>2. LayoutsOK /\ LoopStays /\ UNCHANGED <<tasks, told, total, failed>>
    BY <1>1, LoopKept DEF NoCount
  <1>3. /\ c.units \in Seq(Units) /\ c.units # <<>>
        /\ \A i, j \in 1..Len(c.units) : i < j => c.units[i] # c.units[j]
    BY <1>0 DEF StrandedSound
  <1>4. n \in 1..Len(c.units) /\ Len(c.units) \in Nat
    <2>1. Len(c.units) \in Nat /\ Len(c.units) # 0
      BY <1>3, LenProperties, EmptySeq
    <2> QED BY <2>1
  <1> HIDE DEF n
  <1>5. /\ rest \in Seq(Units)
        /\ \A j \in 1..Len(rest) : n + j \in 1..Len(c.units) /\ rest[j] = c.units[n + j]
        /\ \A i, j \in 1..Len(rest) : i < j => rest[i] # rest[j]
    BY <1>3, <1>4, RestIs
  <1>6. us \in Seq(Units) /\ Len(us) = n /\ \A j \in 1..n : us[j] = c.units[j]
    <2>1. \A j \in 1..n : c.units[j] \in Units
      BY <1>3, <1>4, ElementOfSeq
    <2>2. /\ us \in Seq(Units) /\ Len(us) = IF 1 <= n THEN n - 1 + 1 ELSE 0
          /\ \A j \in 1..(n - 1 + 1) : us[j] = c.units[1 + j - 1]
      BY <1>4, <2>1, SubSeqProperties
    <2>3. n - 1 + 1 = n /\ 1 <= n /\ \A j \in 1..n : 1 + j - 1 = j
      BY <1>4
    <2> QED BY <2>2, <2>3
  <1> HIDE DEF us, rest
  <1>7. \A j \in 1..Len(c.units) : c.units[j] \in Has(c) /\ c.units[j] \in Units
    <2>1. DOMAIN c.units = 1..Len(c.units)
      BY <1>3
    <2> QED BY <1>3, <2>1, ElementOfSeq DEF Has, RangeOf
  <1>8. \A d \in stranded \ {c} : Has(d) \cap Has(c) = {}
    BY <1>0 DEF StrandedSound
  <1>9. \A j \in 1..Len(rest) : rest[j] \in Has(c)
    BY <1>5, <1>7
  <1>10. /\ StrandedSound'
         /\ \A u : Stray(u)' => \/ \E d \in stranded \ {c} : u \in Has(d)
                                \/ \E j \in 1..Len(rest) : u = rest[j]
    <2>1. NoneIn(stranded \ {c}, rest)
      BY <1>8, <1>9 DEF NoneIn
    <2>2. stranded \ {c} \subseteq stranded
      OBVIOUS
    <2>3. Different(rest)
      BY <1>5 DEF Different
    <2>4. StrandedSound' /\ StrayFrom(stranded \ {c}, rest)
      BY <1>0, <1>1, <1>5, <2>1, <2>2, <2>3, StrandIs
    <2> QED BY <2>4 DEF StrayFrom
  <1>11. \A u : Stray(u)' => Stray(u)
    BY <1>9, <1>10 DEF Stray
  <1>12. \A u : Stray(u)' => \A j \in 1..n : u # c.units[j]
    <2> SUFFICES ASSUME NEW u, Stray(u)', NEW j \in 1..n PROVE u # c.units[j]
      OBVIOUS
    <2>1. j \in 1..Len(c.units)
      BY <1>4
    <2>2. CASE \E d \in stranded \ {c} : u \in Has(d)
      BY <1>7, <1>8, <2>1, <2>2
    <2>3. ASSUME NEW i \in 1..Len(rest), u = rest[i] PROVE u # c.units[j]
      <3>1. n + i \in 1..Len(c.units) /\ u = c.units[n + i]
        BY <1>5, <2>3
      <3>2. j < n + i
        <4>1. i \in Nat /\ i >= 1 /\ n \in Nat /\ j <= n
          BY <1>4, <1>5, LenProperties
        <4> QED BY <4>1
      <3> QED BY <1>3, <2>1, <3>1, <3>2
    <2> QED BY <1>10, <2>2, <2>3
  <1>13. \A j \in 1..n : ~ Ran(c.units[j]) /\ Stray(c.units[j])
    <2> SUFFICES ASSUME NEW j \in 1..n PROVE ~ Ran(c.units[j]) /\ Stray(c.units[j])
      OBVIOUS
    <2>1. c.units[j] \in Units /\ c.units[j] \in Has(c)
      BY <1>4, <1>7
    <2>2. Stray(c.units[j])
      BY <2>1 DEF Stray
    <2> QED BY <2>1, <2>2 DEF BatchInv, StrandedOK
  <1>14. \A m, k \in 1..Len(history) : m # k => history[m] # history[k]
    BY DEF BatchInv, HistoryOK
  <1>15. \A u : Stray(u) => u \in Units
    <2> SUFFICES ASSUME NEW d \in stranded, NEW u \in Has(d) PROVE u \in Units
      BY DEF Stray
    <2>1. d.units \in Seq(Units)
      BY <1>0 DEF StrandedSound
    <2>2. DOMAIN d.units = 1..Len(d.units)
      BY <2>1
    <2> QED BY <2>1, <2>2, ElementOfSeq DEF Has, RangeOf
  <1>16. \A u : Stray(u) => ~ Ran(u)
    BY <1>15 DEF BatchInv, StrandedOK
  <1>17. CASE UNCHANGED history
    <2>1. Len(history) \in Nat
      BY <1>0, LenProperties
    <2>2. \A u : Ran(u)' = Ran(u)
      BY <1>17 DEF Ran
    <2> QED BY <1>0, <1>2, <1>10, <1>11, <1>14, <1>16, <1>17, <2>1, <2>2 DEF Strays
  <1>18. CASE history' = history \o us
    <2>1. /\ history' \in Seq(Units) /\ Len(history') = Len(history) + n
          /\ Len(history) \in Nat /\ n \in Nat
          /\ \A i \in 1..(Len(history) + n) :
               history'[i] = IF i <= Len(history) THEN history[i] ELSE us[i - Len(history)]
      <3>1. /\ history \o us \in Seq(Units) /\ Len(history \o us) = Len(history) + Len(us)
            /\ \A i \in 1..(Len(history) + Len(us)) : (history \o us)[i] =
                 IF i <= Len(history) THEN history[i] ELSE us[i - Len(history)]
        BY <1>0, <1>6, ConcatProperties
      <3>2. Len(history) \in Nat /\ n \in Nat
        BY <1>0, <1>4, LenProperties
      <3> QED BY <1>6, <1>18, <3>1, <3>2
    <2>2. Len(history) <= Len(history') /\ \A m \in 1..Len(history) : history'[m] = history[m]
      BY <2>1
    <2>3. ASSUME NEW m \in 1..Len(history'), m \notin 1..Len(history)
          PROVE  m - Len(history) \in 1..n /\ history'[m] = c.units[m - Len(history)]
      <3>1. m - Len(history) \in 1..n /\ ~ (m <= Len(history)) /\ m \in 1..(Len(history) + n)
        BY <2>1, <2>3
      <3>2. history'[m] = us[m - Len(history)]
        BY <2>1, <3>1
      <3> QED BY <1>6, <3>1, <3>2
    <2>4. \A m \in 1..Len(history') : m \in 1..Len(history) \/ Stray(history'[m])
      BY <1>13, <2>3
    <2>5. ASSUME NEW m \in 1..Len(history'), NEW k \in 1..Len(history'), m # k
          PROVE  history'[m] # history'[k]
      <3>1. CASE m \in 1..Len(history) /\ k \in 1..Len(history)
        BY <1>14, <2>2, <2>5, <3>1
      <3>2. CASE m \in 1..Len(history) /\ k \notin 1..Len(history)
        BY <1>13, <2>2, <2>3, <3>2 DEF Ran
      <3>3. CASE m \notin 1..Len(history) /\ k \in 1..Len(history)
        BY <1>13, <2>2, <2>3, <3>3 DEF Ran
      <3>4. CASE m \notin 1..Len(history) /\ k \notin 1..Len(history)
        <4>1. /\ m - Len(history) \in 1..Len(c.units) /\ k - Len(history) \in 1..Len(c.units)
              /\ history'[m] = c.units[m - Len(history)]
              /\ history'[k] = c.units[k - Len(history)]
          BY <1>4, <2>3, <3>4, SMTT(30)
        <4>2. \/ m - Len(history) < k - Len(history)
              \/ k - Len(history) < m - Len(history)
          BY <2>1, <2>5
        <4> QED BY <1>3, <4>1, <4>2
      <3> QED BY <3>1, <3>2, <3>3, <3>4
    <2>6. ASSUME NEW u, Stray(u)', Ran(u)' PROVE FALSE
      <3>1. PICK m \in 1..Len(history') : history'[m] = u
        BY <2>6 DEF Ran
      <3>2. CASE m \in 1..Len(history)
        BY <1>11, <1>16, <2>2, <2>6, <3>1, <3>2 DEF Ran
      <3>3. CASE m \notin 1..Len(history)
        BY <1>12, <2>3, <2>6, <3>1, <3>3
      <3> QED BY <3>2, <3>3
    <2> QED BY <1>2, <1>10, <1>11, <2>1, <2>2, <2>4, <2>5, <2>6 DEF Strays
  <1> QED BY <1>1, <1>17, <1>18

LEMMA EveryStep ==
    ASSUME BatchInv, [BatchNext]_batchVars
    PROVE  LayoutsOK /\ (Effect \/ Strays)
  <1>1. CASE Collect
    BY <1>1, CollectJoins DEF Effect
  <1>2. CASE CollectRefreshes \/ ScatterRefreshes
    BY <1>2, RefreshesLook DEF Effect
  <1>3. CASE CollectFails
    BY <1>3, FailsPass DEF Effect
  <1>4. CASE Flush \/ FlushNothing \/ Replan
    BY <1>4, FlushesTurn DEF Effect
  <1>5. CASE PlanningFails \/ WaveDone
    BY <1>5, WavesEnd DEF Effect
  <1>6. CASE Launch
    BY <1>6, LaunchBegins DEF Effect
  <1>7. CASE Scatter
    BY <1>7, ScatterBegins DEF Effect
  <1>8. CASE Gather
    BY <1>8, GatherGathers DEF Effect
  <1>9. CASE ControlCommand
    BY <1>9, ControlPasses DEF Effect
  <1>10. CASE LayoutChanges \/ OtherRefresh \/ UNCHANGED batchVars
    BY <1>10, WorldLooks DEF Effect
  <1>11. ASSUME NEW t \in tasks,
                \/ Start(t) \/ ServeTask(t) \/ Break(t)
                \/ RefreshToRetry(t) \/ ExpireTask(t) \/ Settle(t) \/ RetryPlan(t)
         PROVE  LayoutsOK /\ Effect
    BY <1>11, TaskStep DEF Effect
  <1>12. ASSUME NEW c \in stranded, StrandedRuns(c) PROVE LayoutsOK /\ Strays
    BY <1>12, StrayEffect
  <1> QED BY <1>1, <1>2, <1>3, <1>4, <1>5, <1>6, <1>7, <1>8, <1>9, <1>10, <1>11, <1>12
          DEF BatchNext

-----------------------------------------------------------------------------
(* Facts of the effects.                                                      *)

\* The pipeline does not change, and so neither do its units.
LEMMA UnitsStay ==
    ASSUME LayoutsOK
    PROVE  /\ pipeline' = pipeline
           /\ \A i : UnitsOf(i)' = UnitsOf(i) /\ TheKey(i)' = TheKey(i)
  BY DEF LayoutsOK, UnitsOf, TheKey

\* Groups and requests have keys.
LEMMA TaskKeys ==
    ASSUME BatchInv, NEW t \in tasks
    PROVE  /\ t \in Task /\ TaskOK(t)
           /\ where \in {"wave", "gather"}
           /\ where = "wave" => \A u \in Has(t) : u[1] \in wave
           /\ where = "gather" => \A u \in Has(t) : u[1] = index
           /\ \A u \in Has(t) : /\ u \in Units /\ u[2] \in Keys /\ u[2] # NoKey
                                /\ told[u] = "none" /\ u[1] \in Nat
           /\ \A s \in tasks : s # t => Has(s) \cap Has(t) = {}
  <1>0. BatchTypes /\ WaveOK /\ t \in Task /\ TaskOK(t)
    BY DEF BatchInv, BatchTypes, TasksOK
  <1>1. /\ where \in {"wave", "gather"}
        /\ where = "wave" => t.kind = "wave" /\ \A u \in Has(t) : u[1] \in wave /\ u[2] =
             TheKey(u[1])
        /\ where = "gather" => /\ t.kind # "wave"
                               /\ \A u \in Has(t) : u[1] = index /\ u[2] \in Command.keys
    BY DEF BatchInv, TasksOK
  <1>2. \A u \in Has(t) : u[2] \in Keys
    <2> SUFFICES ASSUME NEW u \in Has(t) PROVE u[2] \in Keys
      OBVIOUS
    <2>1. CASE where = "wave"
      BY <1>0, <1>1, <2>1, WaveUnitsAre
    <2>2. CASE where = "gather"
      <3>1. index \in 1..Len(pipeline)
        BY <1>0, <2>2, TheCommands DEF WaveOK, BatchTypes
      <3>2. Command.keys \subseteq Keys
        BY <1>0, <3>1, UnitsAre DEF Command
      <3> QED BY <1>1, <2>2, <3>2
    <2> QED BY <1>1, <2>1, <2>2
  <1>3. Has(t) \subseteq Units /\ \A u \in Has(t) : told[u] = "none"
    BY <1>0, HasIs DEF BatchInv, FreshOK
  <1>4. \A u \in Units : u[1] \in Nat
    BY BatchConstants DEF Units
  <1>5. NoKey \notin Keys
    BY BatchConstants
  <1>6. \A s \in tasks : s # t => Has(s) \cap Has(t) = {}
    BY DEF BatchInv, TasksOK
  <1> QED BY <1>0, <1>1, <1>2, <1>3, <1>4, <1>5, <1>6

\* Outside waves and scatter commands there are no tasks.
LEMMA NoTasks ==
    ASSUME BatchInv
    PROVE  where \notin {"wave", "gather"} => tasks = {}
  BY DEF BatchInv, TasksOK

\* The task after its answers.
After(t, more) == [t EXCEPT !.answers = @ \o more]

LEMMA ServedTask ==
    ASSUME BatchInv, NEW t \in tasks, NEW more, NEW done, Serves(t, more, done)
    PROVE  LET s == After(t, more)
           IN  /\ s \in Task /\ TaskOK(s) /\ Has(s) = Has(t) /\ s.kind = t.kind
               /\ s.units = t.units
               /\ Len(s.answers) = Len(t.answers) + Len(more)
               /\ \A m \in 1..Len(t.answers) : s.answers[m] = t.answers[m]
               /\ \A m \in 1..Len(more) : s.answers[Len(t.answers) + m] = more[m]
  <1> DEFINE s == After(t, more)
  <1>0. t \in Task /\ TaskOK(t) /\ more \in Seq(Answers)
    BY TaskKeys DEF Serves
  <1>1. /\ s \in Task /\ s.kind = t.kind /\ s.units = t.units /\ s.st = t.st
        /\ Len(s.answers) = Len(t.answers) + Len(more)
        /\ \A m \in 1..Len(t.answers) : s.answers[m] = t.answers[m]
        /\ \A m \in 1..Len(more) : s.answers[Len(t.answers) + m] = more[m]
    BY <1>0, WithAnswers DEF After
  <1> HIDE DEF s
  <1>2. Has(s) = Has(t)
    BY <1>1 DEF Has
  <1>3. /\ Len(t.units) \in Nat /\ Len(t.answers) \in Nat /\ Len(more) \in Nat
        /\ Len(t.answers) + Len(more) <= Len(t.units) /\ t.st = "sent"
    BY <1>0, HasIs, LenProperties DEF Serves
  <1>4. t.kind # "wave" => /\ Len(s.answers) = Len(s.units)
                           /\ \A m, n \in 1..Len(s.answers) : s.answers[m] = s.answers[n]
    <2> SUFFICES ASSUME t.kind # "wave"
                 PROVE  /\ Len(s.answers) = Len(s.units)
                        /\ \A m, n \in 1..Len(s.answers) : s.answers[m] = s.answers[n]
      OBVIOUS
    <2>1. /\ Len(t.answers) = 0 /\ Len(more) = Len(t.units)
          /\ \A m, n \in 1..Len(more) : more[m] = more[n]
      BY DEF Serves
    <2>2. Len(s.answers) = Len(more)
      BY <1>1, <1>3, <2>1
    <2>3. \A m \in 1..Len(more) : s.answers[m] = more[m]
      BY <1>1, <1>3, <2>1
    <2> QED BY <1>1, <2>1, <2>2, <2>3
  <1>5. TaskOK(s)
    <2>1. s.units # <<>> /\ \A m, n \in 1..Len(s.units) :
             m < n => s.units[m] # s.units[n] /\ s.units[m][1] <= s.units[n][1]
      BY <1>0, <1>1 DEF TaskOK
    <2>2. Len(s.answers) <= Len(s.units) /\ s.st = "sent"
      BY <1>1, <1>3
    <2> QED BY <1>1, <1>4, <2>1, <2>2 DEF TaskOK
  <1> QED BY <1>1, <1>2, <1>5 DEF s

\* What was executed by then, and what is new.
LEMMA ServedHistory ==
    ASSUME BatchInv, NEW t \in tasks, NEW more, NEW done, Serves(t, more, done)
    PROVE  /\ history' \in Seq(Units)
           /\ Len(history) \in Nat /\ Len(history') = Len(history) + done
           /\ done \in Nat /\ Len(t.answers) \in Nat /\ Len(t.units) \in Nat
           /\ Len(t.answers) + done <= Len(t.units)
           /\ \A m \in 1..Len(history) : history'[m] = history[m]
           /\ \A j \in 1..done : /\ history'[Len(history) + j] = t.units[Len(t.answers) + j]
                                 /\ Len(t.answers) + j \in 1..Len(t.units)
           /\ \A m \in 1..Len(history') : \/ m \in 1..Len(history)
                                          \/ \E j \in 1..done : m = Len(history) + j
  <1> DEFINE a == Len(t.answers)
             new == SubSeq(t.units, a + 1, a + done)
  <1>0. t \in Task /\ history \in Seq(Units) /\ more \in Seq(Answers)
    BY TaskKeys DEF Serves, BatchInv, BatchTypes
  <1>1. /\ Len(t.units) \in Nat /\ a \in Nat /\ Len(more) \in Nat /\ done \in Nat
        /\ a + done <= Len(t.units) /\ Len(history) \in Nat
    BY <1>0, HasIs, LenProperties DEF Serves
  <1>2. history' = history \o new
    BY DEF Serves
  <1>3. \A j \in 1..done : a + j \in 1..Len(t.units)
    BY <1>1
  <1>4. \A i \in (a + 1)..(a + done) : t.units[i] \in Units
    <2>1. \A i \in (a + 1)..(a + done) : i \in 1..Len(t.units)
      BY <1>1
    <2> QED BY <1>0, <2>1, HasIs
  <1>5. /\ new \in Seq(Units)
        /\ Len(new) = IF a + 1 <= a + done THEN (a + done) - (a + 1) + 1 ELSE 0
        /\ \A i \in 1..((a + done) - (a + 1) + 1) : new[i] = t.units[(a + 1) + i - 1]
    BY <1>1, <1>4, SubSeqProperties
  <1> HIDE DEF new
  <1>6. Len(new) = done /\ \A j \in 1..done : new[j] = t.units[a + j]
    <2>1. Len(new) = done
      BY <1>1, <1>5
    <2>2. (a + done) - (a + 1) + 1 = done
      BY <1>1
    <2>3. ASSUME NEW j \in 1..done PROVE new[j] = t.units[a + j]
      <3>1. (a + 1) + j - 1 = a + j
        BY <1>1
      <3> QED BY <1>5, <2>2, <3>1
    <2> QED BY <2>1, <2>3
  <1>7. /\ history \o new \in Seq(Units)
        /\ Len(history \o new) = Len(history) + Len(new)
        /\ \A i \in 1..(Len(history) + Len(new)) :
             (history \o new)[i] = IF i <= Len(history) THEN history[i] ELSE new[i - Len(history)]
    BY <1>0, <1>5, ConcatProperties
  <1>8. \A m \in 1..Len(history) : history'[m] = history[m]
    BY <1>1, <1>2, <1>6, <1>7
  <1>9. ASSUME NEW j \in 1..done PROVE history'[Len(history) + j] = t.units[a + j]
    <2>1. /\ Len(history) + j \in 1..(Len(history) + Len(new)) /\
               ~ (Len(history) + j <= Len(history))
          /\ (Len(history) + j) - Len(history) = j
      BY <1>1, <1>6
    <2>2. history'[Len(history) + j] = new[j]
      BY <1>2, <1>7, <2>1
    <2> QED BY <1>6, <2>2
  <1>10. ASSUME NEW m \in 1..Len(history'), m \notin 1..Len(history)
         PROVE  \E j \in 1..done : m = Len(history) + j
    <2>1. m \in 1..(Len(history) + done)
      BY <1>2, <1>6, <1>7
    <2>2. m - Len(history) \in 1..done /\ m = Len(history) + (m - Len(history))
      BY <1>1, <1>10, <2>1
    <2> QED BY <2>2
  <1> QED BY <1>1, <1>2, <1>3, <1>6, <1>7, <1>8, <1>9, <1>10


-----------------------------------------------------------------------------
(* The parts of the invariant, one by one.                                    *)

LEMMA TypesKept ==
    ASSUME BatchInv, LayoutsOK, Effect
    PROVE  BatchTypes'
  <1>0. BatchTypes /\ WaveOK
    BY DEF BatchInv
  <1>1. /\ pipeline' \in Pipelines /\ known' \in 0..MaxEpoch /\ epoch' \in 1..MaxEpoch
        /\ pipeline' = pipeline
    BY <1>0 DEF LayoutsOK, BatchTypes
  <1>2. Len(pipeline) \in Nat /\ 0 \in 0..MaxEpoch
    BY <1>0, TheCommands, BatchConstants
  <1>3. /\ snap \in 0..MaxEpoch /\ where \in BatchPlaces /\ index \in 1..(Len(pipeline) + 1)
        /\ tasks \subseteq Task /\ total \in Nat /\ failed \in BOOLEAN
        /\ told \in [Units -> Results] /\ history \in Seq(Units)
    BY <1>0 DEF BatchTypes, Results
  <1> SUFFICES /\ snap' \in 0..MaxEpoch /\ where' \in BatchPlaces
               /\ index' \in 1..(Len(pipeline) + 1)
               /\ tasks' \subseteq Task /\ total' \in Nat /\ failed' \in BOOLEAN
               /\ told' \in [Units -> Results] /\ history' \in Seq(Units)
    BY <1>1 DEF BatchTypes, Results
  <1>4. CASE Looks \/ Gathers
    <2>1. Gathers => index <= Len(pipeline)
      BY <1>0 DEF Gathers, WaveOK
    <2> QED BY <1>2, <1>3, <1>4, <2>1 DEF Looks, Gathers, Rest, LoopStays, BatchPlaces
  <1>5. CASE Joins
    BY <1>2, <1>3, <1>5 DEF Joins, Rest, BatchPlaces
  <1>6. CASE Turns
    BY <1>3, <1>6 DEF Turns, Rest, BatchPlaces
  <1>7. ASSUME NEW what, Passes(what)
        PROVE  /\ snap' \in 0..MaxEpoch /\ where' \in BatchPlaces
               /\ index' \in 1..(Len(pipeline) + 1)
               /\ tasks' \subseteq Task /\ total' \in Nat /\ failed' \in BOOLEAN
               /\ told' \in [Units -> Results] /\ history' \in Seq(Units)
    <2>1. /\ where' = "route" /\ index <= Len(pipeline) /\ index' = index + 1
          /\ UNCHANGED <<snap, tasks, total, failed>>
          /\ what \in {"ok", "not", "unknown"} /\ told' = Learn(UnitsOf(index), what)
          /\ UNCHANGED history \/ history' = Append(history, <<index, NoKey>>)
      BY <1>7 DEF Passes
    <2>2. told' \in [Units -> Results]
      BY <1>3, <2>1 DEF Learn, Results
    <2>3. <<index, NoKey>> \in Units
      BY <1>0, <1>2, <1>3, <2>1, TheCommands DEF Units
    <2>4. history' \in Seq(Units)
      <3>1. Append(history, <<index, NoKey>>) \in Seq(Units)
        BY <1>3, <2>3, AppendProperties
      <3> QED BY <1>3, <2>1, <3>1
    <2> QED BY <1>2, <1>3, <2>1, <2>2, <2>4 DEF BatchPlaces
  <1>8. CASE WaveEnds
    <2>1. told' \in [Units -> Results]
      BY <1>3, <1>8 DEF WaveEnds, Learn, Results
    <2> QED BY <1>2, <1>3, <1>8, <2>1 DEF WaveEnds, BatchPlaces
  <1>9. CASE Begins(tasks')
    <2>1. tasks' \subseteq Task
      BY <1>9 DEF Begins, Planned
    <2>2. /\ where' \in {"wave", "gather"} /\ UNCHANGED <<index, snap, told, history>>
      BY <1>9 DEF Begins
    <2>3. total' = total \/ total' = 0
      BY <1>9 DEF Begins
    <2>4. failed' = failed \/ failed' = FALSE
      BY <1>9 DEF Begins
    <2>5. failed' \in BOOLEAN
      BY <1>3, <2>4
    <2> QED BY <1>3, <2>1, <2>2, <2>3, <2>5 DEF BatchPlaces
  <1>10. ASSUME NEW t \in tasks, TaskEffect(t)
         PROVE  /\ snap' \in 0..MaxEpoch /\ where' \in BatchPlaces
                /\ index' \in 1..(Len(pipeline) + 1)
                /\ tasks' \subseteq Task /\ total' \in Nat /\ failed' \in BOOLEAN
                /\ told' \in [Units -> Results] /\ history' \in Seq(Units)
    <2>1. ASSUME NEW new, Replaces(t, new)
          PROVE  LoopStays /\ UNCHANGED <<told, history, total, failed>> /\ tasks' \subseteq Task
      BY <1>3, <2>1 DEF Replaces
    <2>2. ASSUME NEW more, NEW done, Serves(t, more, done)
          PROVE  /\ LoopStays /\ UNCHANGED <<told, total, failed>> /\ tasks' \subseteq Task
                 /\ history' \in Seq(Units)
      <3>1. After(t, more) \in Task
        BY <2>2, ServedTask
      <3>2. tasks' = (tasks \ {t}) \cup {After(t, more)}
        BY <2>2 DEF Serves, After
      <3> QED BY <1>3, <2>2, <3>1, <3>2, ServedHistory DEF Serves
    <2>3. ASSUME Ends(t)
          PROVE  /\ LoopStays /\ UNCHANGED history /\ tasks' \subseteq Task
                 /\ told' \in [Units -> Results] /\ total' \in Nat /\ failed' \in BOOLEAN
      BY <1>3, <2>3 DEF Ends
    <2> QED BY <1>3, <1>10, <2>1, <2>2, <2>3 DEF TaskEffect, LoopStays
  <1> QED BY <1>4, <1>5, <1>6, <1>7, <1>8, <1>9, <1>10 DEF Effect

LEMMA WaveKept ==
    ASSUME BatchInv, LayoutsOK, Effect
    PROVE  WaveOK'
  <1>0. BatchTypes /\ WaveOK
    BY DEF BatchInv
  <1>1. pipeline' = pipeline /\ \A i : TheKey(i)' = TheKey(i)
    BY UnitsStay
  <1>2. index \in Nat /\ Len(pipeline) \in Nat
    BY <1>0, TheCommands
  <1>3. ASSUME wave' = wave, snap' = snap \/ Routes(snap', WaveKeys)
        PROVE  Routes(snap', WaveKeys')
    <2>1. WaveKeys' = WaveKeys
      BY <1>1, <1>3 DEF WaveKeys
    <2>2. Routes(snap', WaveKeys)
      BY <1>0, <1>3 DEF WaveOK
    <2> QED BY <2>1, <2>2
  <1>4. CASE LoopStays
    <2>1. Routes(snap', WaveKeys') /\ wave' = wave /\ index' = index /\ where' = where
      BY <1>3, <1>4 DEF LoopStays
    <2>2. Routes(snap, WaveKeys)'
      BY <2>1 DEF Routes
    <2> QED BY <1>0, <1>1, <2>1, <2>2 DEF WaveOK, Command
  <1>5. CASE Joins
    <2>1. /\ index \in 1..Len(pipeline) /\ Command.kind = "routed" /\ where' = "route"
          /\ wave' = wave \cup {index} /\ index' = index + 1
          /\ Routes(snap', Command.keys) /\ (wave = {} \/ snap' = snap)
      BY <1>0, <1>2, <1>5 DEF Joins, BatchTypes
    <2>2. Command.keys = {TheKey(index)}
      BY <1>0, <2>1, UnitsAre DEF Command
    <2>3. ASSUME NEW k \in WaveKeys' PROVE Layout[snap'][k] # NoRoute
      <3>1. PICK i \in wave' : k = TheKey(i)
        BY <1>1 DEF WaveKeys
      <3>2. CASE i = index
        BY <2>1, <2>2, <3>1, <3>2 DEF Routes
      <3>3. CASE i # index
        <4>1. i \in wave /\ snap' = snap
          BY <2>1, <3>3
        <4>2. k \in WaveKeys
          BY <3>1, <4>1 DEF WaveKeys
        <4> QED BY <1>0, <4>1, <4>2 DEF WaveOK, Routes
      <3> QED BY <3>2, <3>3
    <2>4. Routes(snap, WaveKeys)'
      BY <2>3 DEF Routes
    <2>5. wave' \subseteq 1..(index' - 1)
      BY <1>0, <1>2, <2>1 DEF WaveOK
    <2>6. \A i \in wave' : pipeline[i].kind = "routed"
      BY <1>0, <2>1 DEF WaveOK, Command
    <2> QED BY <1>1, <2>1, <2>4, <2>5, <2>6 DEF WaveOK
  <1>6. CASE Turns
    <2>1. /\ UNCHANGED <<index, wave>> /\ where' \in {"route", "flush", "scatter", "end"}
          /\ Routes(snap', WaveKeys)
          /\ where' \in {"scatter", "end"} => wave = {}
          /\ where' = "scatter" => index <= Len(pipeline) /\ Command.kind # "routed"
          /\ where' = "end" => index = Len(pipeline) + 1
      BY <1>6 DEF Turns
    <2>2. Routes(snap, WaveKeys)'
      BY <1>3, <2>1 DEF Routes
    <2>3. where' # "gather"
      BY <2>1
    <2> QED BY <1>0, <1>1, <2>1, <2>2, <2>3 DEF WaveOK, Command
  <1>7. ASSUME UNCHANGED <<wave, snap>>, where' = "route", index' = index + 1
        PROVE  WaveOK'
    <2>1. Routes(snap, WaveKeys)'
      BY <1>3, <1>7 DEF Routes
    <2>2. wave' \subseteq 1..(index' - 1)
      BY <1>0, <1>2, <1>7 DEF WaveOK
    <2> QED BY <1>0, <1>1, <1>7, <2>1, <2>2 DEF WaveOK
  <1>8. ASSUME NEW what, Passes(what) PROVE WaveOK'
    BY <1>7, <1>8 DEF Passes
  <1>9. CASE Gathers
    BY <1>7, <1>9 DEF Gathers
  <1>10. CASE WaveEnds
    <2>1. wave' = {} /\ where' = "route"
      BY <1>10 DEF WaveEnds
    <2>2. Routes(snap, WaveKeys)'
      BY <2>1 DEF Routes, WaveKeys
    <2> QED BY <2>1, <2>2 DEF WaveOK
  <1>11. CASE Begins(tasks')
    <2>1. /\ UNCHANGED <<index, wave, snap>>
          /\ \/ where = "flush" /\ where' = "wave"
             \/ where = "scatter" /\ where' = "gather" /\ Command.kind = "scatter"
      BY <1>11 DEF Begins
    <2>2. Routes(snap, WaveKeys)'
      BY <1>3, <2>1 DEF Routes
    <2>3. where' = "gather" => wave = {} /\ index <= Len(pipeline) /\ Command.kind = "scatter"
      BY <1>0, <2>1 DEF WaveOK
    <2> QED BY <1>0, <1>1, <2>1, <2>2, <2>3 DEF WaveOK, Command
  <1>12. ASSUME NEW t \in tasks, TaskEffect(t) PROVE WaveOK'
    BY <1>4, <1>12 DEF TaskEffect, Replaces, Serves, Ends
  <1> QED BY <1>4, <1>5, <1>6, <1>8, <1>9, <1>10, <1>11, <1>12 DEF Effect, Looks

\* Tasks in the place of another that have its units, or some of them.
LEMMA TasksInstead ==
    ASSUME BatchInv, LayoutsOK, LoopStays, NEW t \in tasks, NEW new,
           tasks' = (tasks \ {t}) \cup new, Apart(new),
           \A s \in new : /\ TaskOK(s) /\ Has(s) \subseteq Has(t)
                          /\ (s.kind = "wave") = (t.kind = "wave")
    PROVE  TasksOK'
  <1>1. pipeline' = pipeline /\ \A i : TheKey(i)' = TheKey(i)
    BY UnitsStay
  <1>2. /\ \A s \in tasks : TaskOK(s)
        /\ where \in {"wave", "gather"}
        /\ where = "wave" => \A s \in tasks :
              s.kind = "wave" /\ \A u \in Has(s) : u[1] \in wave /\ u[2] = TheKey(u[1])
        /\ where = "gather" => \A s \in tasks :
              s.kind # "wave" /\ \A u \in Has(s) : u[1] = index /\ u[2] \in Command.keys
        /\ \A r, s \in tasks : r # s => \A u \in Has(r), v \in Has(s) : u[2] # v[2]
    BY DEF BatchInv, TasksOK
  <1>3. where' = where /\ index' = index /\ wave' = wave /\ Command' = Command
    BY <1>1 DEF LoopStays, Command
  <1>4. \A s \in tasks' : TaskOK(s)
    BY <1>2
  <1>5. \A s \in tasks' : /\ \E r \in tasks : /\ Has(s) \subseteq Has(r)
                                              /\ (s.kind = "wave") = (r.kind = "wave")
    OBVIOUS
  <1>6. where = "wave" => \A s \in tasks' :
              s.kind = "wave" /\ \A u \in Has(s) : u[1] \in wave /\ u[2] = TheKey(u[1])
    BY <1>2, <1>5
  <1>7. where = "gather" => \A s \in tasks' :
              s.kind # "wave" /\ \A u \in Has(s) : u[1] = index /\ u[2] \in Command.keys
    BY <1>2, <1>5
  <1>8. ASSUME NEW r \in tasks', NEW s \in tasks', r # s, NEW u \in Has(r), NEW v \in Has(s)
        PROVE  u[2] # v[2]
    <2>1. CASE r \in new /\ s \in new
      BY <1>8, <2>1 DEF Apart
    <2>2. CASE r \in new /\ s \in tasks \ {t}
      BY <1>2, <1>8, <2>2
    <2>3. CASE r \in tasks \ {t} /\ s \in new
      BY <1>2, <1>8, <2>3
    <2>4. CASE r \in tasks \ {t} /\ s \in tasks \ {t}
      BY <1>2, <1>8, <2>4
    <2> QED BY <2>1, <2>2, <2>3, <2>4
  <1> QED BY <1>1, <1>2, <1>3, <1>4, <1>6, <1>7, <1>8 DEF TasksOK

LEMMA TasksKept ==
    ASSUME BatchInv, LayoutsOK, Effect
    PROVE  TasksOK'
  <1>0. BatchTypes /\ WaveOK
    BY DEF BatchInv
  <1>1. pipeline' = pipeline /\ \A i : TheKey(i)' = TheKey(i)
    BY UnitsStay
  <1>2. tasks' = {} => TasksOK'
    BY DEF TasksOK
  <1>3. CASE Looks
    <2>1. UNCHANGED <<tasks, where, index, wave>> /\ Command' = Command
      BY <1>1, <1>3 DEF Looks, Rest, LoopStays, Command
    <2> QED BY <1>1, <2>1 DEF BatchInv, TasksOK
  <1>4. CASE Joins \/ Turns \/ WaveEnds \/ Gathers
    BY <1>2, <1>4, NoTasks DEF Joins, Turns, WaveEnds, Gathers, Rest
  <1>5. ASSUME NEW what, Passes(what) PROVE TasksOK'
    BY <1>2, <1>5, NoTasks DEF Passes
  <1>6. CASE Begins(tasks')
    <2>1. CASE /\ where' = "wave" /\ UNCHANGED wave
               /\ Planned(tasks', WaveUnits) /\ \A t \in tasks' : t.kind = "wave"
      <3>1. WaveUnits = {<<i, TheKey(i)>> : i \in wave}
        BY <1>0, WaveUnitsAre
      <3>2. \A u \in WaveUnits : u[1] \in wave /\ u[2] = TheKey(u[1])
        BY <3>1
      <3>3. /\ \A t \in tasks' : TaskOK(t) /\ Has(t) \subseteq WaveUnits
            /\ \A t, s \in tasks' : t # s => \A u \in Has(t), v \in Has(s) : u[2] # v[2]
        BY <2>1 DEF Planned, Apart
      <3> QED BY <1>1, <2>1, <3>2, <3>3 DEF TasksOK
    <2>2. CASE /\ where = "scatter" /\ where' = "gather" /\ UNCHANGED index /\ Command.kind =
                    "scatter"
               /\ Planned(tasks', UnitsOf(index)) /\ \A t \in tasks' : t.kind # "wave"
      <3>1. index \in 1..Len(pipeline)
        BY <1>0, <2>2, TheCommands DEF WaveOK, BatchTypes
      <3>2. UnitsOf(index) = {index} \X Command.keys
        BY <1>0, <2>2, <3>1, UnitsAre DEF Command
      <3>3. \A u \in UnitsOf(index) : u[1] = index /\ u[2] \in Command.keys
        BY <3>2
      <3>4. /\ \A t \in tasks' : TaskOK(t) /\ Has(t) \subseteq UnitsOf(index)
            /\ \A t, s \in tasks' : t # s => \A u \in Has(t), v \in Has(s) : u[2] # v[2]
        BY <2>2 DEF Planned, Apart
      <3>5. Command' = Command
        BY <1>1, <2>2 DEF Command
      <3> QED BY <2>2, <3>3, <3>4, <3>5 DEF TasksOK
    <2> QED BY <1>6, <2>1, <2>2 DEF Begins
  <1>7. ASSUME NEW t \in tasks, TaskEffect(t) PROVE TasksOK'
    <2>1. ASSUME NEW new, Replaces(t, new) PROVE TasksOK'
      BY <2>1, TasksInstead DEF Replaces
    <2>2. ASSUME NEW more, NEW done, Serves(t, more, done) PROVE TasksOK'
      <3> DEFINE s == After(t, more)
      <3>1. TaskOK(s) /\ Has(s) = Has(t) /\ s.kind = t.kind
        BY <2>2, ServedTask
      <3>2. tasks' = (tasks \ {t}) \cup {s} /\ LoopStays
        BY <2>2 DEF Serves, After
      <3> HIDE DEF s
      <3>3. Apart({s})
        BY DEF Apart
      <3> QED BY <3>1, <3>2, <3>3, TasksInstead
    <2>3. ASSUME Ends(t) PROVE TasksOK'
      <3>1. tasks' = (tasks \ {t}) \cup {} /\ LoopStays /\ Apart({})
        BY <2>3 DEF Ends, Apart
      <3> QED BY <3>1, TasksInstead
    <2> QED BY <1>7, <2>1, <2>2, <2>3 DEF TaskEffect
  <1> QED BY <1>3, <1>4, <1>5, <1>6, <1>7 DEF Effect


\* Nothing is forgotten of what was executed before.
LEMMA RanStays ==
    ASSUME BatchInv, LayoutsOK, Effect
    PROVE  /\ Len(history) \in Nat /\ Len(history') \in Nat /\ Len(history) <= Len(history')
           /\ \A m \in 1..Len(history) : history'[m] = history[m] /\ m \in 1..Len(history')
           /\ \A u : Ran(u) => Ran(u)'
  <1>0. BatchTypes
    BY DEF BatchInv
  <1>1. history \in Seq(Units) /\ Len(history) \in Nat
    BY <1>0, LenProperties DEF BatchTypes
  <1>2. CASE UNCHANGED history
    BY <1>1, <1>2 DEF Ran
  <1>3. ASSUME /\ Len(history') \in Nat /\ Len(history) <= Len(history')
               /\ \A m \in 1..Len(history) : history'[m] = history[m]
        PROVE  /\ Len(history) \in Nat /\ Len(history') \in Nat /\ Len(history) <= Len(history')
               /\ \A m \in 1..Len(history) : history'[m] = history[m] /\ m \in 1..Len(history')
               /\ \A u : Ran(u) => Ran(u)'
    <2>1. \A m \in 1..Len(history) : history'[m] = history[m] /\ m \in 1..Len(history')
      BY <1>1, <1>3
    <2>2. \A u : Ran(u) => Ran(u)'
      BY <2>1 DEF Ran
    <2> QED BY <1>1, <1>3, <2>1, <2>2
  <1>4. ASSUME NEW what, Passes(what), ~ UNCHANGED history
        PROVE  /\ Len(history') = Len(history) + 1
               /\ \A m \in 1..Len(history) : history'[m] = history[m]
    <2>1. history' = Append(history, <<index, NoKey>>) /\ index <= Len(pipeline)
      BY <1>4 DEF Passes
    <2>2. <<index, NoKey>> \in Units
      BY <1>0, <2>1, TheCommands DEF Units, BatchTypes
    <2> QED BY <1>1, <2>1, <2>2, AppendProperties
  <1>5. ASSUME NEW t \in tasks, NEW more, NEW done, Serves(t, more, done)
        PROVE  /\ Len(history') = Len(history) + done /\ done \in Nat
               /\ \A m \in 1..Len(history) : history'[m] = history[m]
    BY <1>5, ServedHistory
  <1>6. CASE ~ UNCHANGED history
    <2>1. \/ \E what : Passes(what)
          \/ \E t \in tasks : \E more, done : Serves(t, more, done)
      BY <1>6 DEF Effect, TaskEffect, Looks, Joins, Turns, WaveEnds, Begins, Gathers, Rest,
                  Replaces, Ends
    <2>2. CASE \E what : Passes(what)
      <3>1. /\ Len(history') = Len(history) + 1
            /\ \A m \in 1..Len(history) : history'[m] = history[m]
        BY <1>4, <1>6, <2>2
      <3> QED BY <1>1, <1>3, <3>1
    <2>3. CASE \E t \in tasks : \E more, done : Serves(t, more, done)
      <3>1. \E done \in Nat : /\ Len(history') = Len(history) + done
                              /\ \A m \in 1..Len(history) : history'[m] = history[m]
        BY <1>5, <2>3
      <3>2. Len(history') \in Nat /\ Len(history) <= Len(history')
        BY <1>1, <3>1
      <3> QED BY <1>3, <3>1, <3>2
    <2> QED BY <2>1, <2>2, <2>3
  <1> QED BY <1>2, <1>6

\* What was executed has an answer while there are no tasks.
LEMMA AllTold ==
    ASSUME BatchInv, tasks = {}
    PROVE  \A m \in 1..Len(history) : told[history[m]] \in {"ok", "unknown"}
  BY DEF BatchInv, HistoryOK, Reported

\* A command without a key is executed while the loop is at it.
LEMMA ControlRuns ==
    ASSUME BatchInv, NEW what, Passes(what), ~ UNCHANGED history
    PROVE  /\ UnitsOf(index) = {<<index, NoKey>>} /\ <<index, NoKey>> \in Units
           /\ Len(history) \in Nat /\ Len(history') = Len(history) + 1
           /\ \A m \in 1..Len(history) : history'[m] = history[m]
           /\ history'[Len(history) + 1] = <<index, NoKey>>
           /\ \A m \in 1..Len(history') : m \in 1..Len(history) \/ m = Len(history) + 1
           /\ what \in {"ok", "unknown"}
           /\ where = "scatter"
  <1>0. BatchTypes
    BY DEF BatchInv
  <1>1. /\ history' = Append(history, <<index, NoKey>>) /\ index <= Len(pipeline)
        /\ what \in {"ok", "unknown"} /\ where = "scatter" /\ Command.kind = "control"
    BY DEF Passes
  <1>2. index \in 1..Len(pipeline)
    BY <1>0, <1>1, TheCommands DEF BatchTypes
  <1>3. UnitsOf(index) = {<<index, NoKey>>} /\ UnitsOf(index) \subseteq Units
    BY <1>0, <1>1, <1>2, UnitsAre DEF Command
  <1>4. history \in Seq(Units) /\ Len(history) \in Nat
    BY <1>0, LenProperties DEF BatchTypes
  <1>5. /\ Len(history') = Len(history) + 1
        /\ \A m \in 1..Len(history) : history'[m] = history[m]
        /\ history'[Len(history) + 1] = <<index, NoKey>>
    BY <1>1, <1>3, <1>4, AppendProperties
  <1>6. \A m \in 1..Len(history') : m \in 1..Len(history) \/ m = Len(history) + 1
    BY <1>4, <1>5
  <1> QED BY <1>1, <1>3, <1>4, <1>5, <1>6

\* Who learns what when a command is passed, or a wave fails.
LEMMA LearnIs ==
    ASSUME BatchTypes, NEW units, units \subseteq Units, NEW what, told' = Learn(units, what)
    PROVE  /\ \A u \in units : told'[u] = what
           /\ \A u \in Units : u \notin units => told'[u] = told[u]
  BY DEF Learn, BatchTypes

LEMMA PassedUnits ==
    ASSUME BatchInv, NEW what, Passes(what)
    PROVE  /\ UnitsOf(index) \subseteq Units /\ tasks = {} /\ tasks' = {}
           /\ index \in Nat /\ index' = index + 1
           /\ \A u \in Units : u[1] # index => told'[u] = told[u]
           /\ \A u \in UnitsOf(index) : u[1] = index /\ told[u] = "none" /\ told'[u] = what
           /\ \A u \in Units : u \notin UnitsOf(index) => told'[u] = told[u]
           /\ what \in {"ok", "not", "unknown"}
  <1>0. BatchTypes
    BY DEF BatchInv
  <1>1. /\ where \in {"route", "scatter"} /\ index <= Len(pipeline)
        /\ told' = Learn(UnitsOf(index), what) /\ what \in {"ok", "not", "unknown"}
        /\ tasks' = tasks /\ index' = index + 1
    BY DEF Passes
  <1>2. index \in 1..Len(pipeline) /\ index \in Nat
    BY <1>0, <1>1, TheCommands DEF BatchTypes
  <1>3. UnitsOf(index) \subseteq Units /\ \A u \in UnitsOf(index) : u[1] = index
    BY <1>0, <1>2, UnitsAre
  <1>4. tasks = {}
    BY <1>1, NoTasks
  <1>5. /\ \A u \in UnitsOf(index) : told'[u] = what
        /\ \A u \in Units : u \notin UnitsOf(index) => told'[u] = told[u]
    BY <1>0, <1>1, <1>3, LearnIs
  <1>6. \A u \in UnitsOf(index) : told[u] = "none"
    BY <1>1, <1>3 DEF BatchInv, FreshOK
  <1> QED BY <1>1, <1>2, <1>3, <1>4, <1>5, <1>6

LEMMA FailedWave ==
    ASSUME BatchInv, WaveEnds, where = "flush"
    PROVE  /\ \A u \in WaveUnits : u[1] \in wave /\ told[u] = "none" /\ told'[u] = "not"
           /\ \A u \in Units : u \notin WaveUnits => told'[u] = told[u]
  <1>0. BatchTypes /\ WaveOK
    BY DEF BatchInv
  <1>1. /\ WaveUnits = {<<i, TheKey(i)>> : i \in wave} /\ WaveUnits \subseteq Units
    BY <1>0, WaveUnitsAre
  <1>2. told' = Learn(WaveUnits, "not")
    BY DEF WaveEnds
  <1>3. \A u \in WaveUnits : u[1] \in wave
    BY <1>1
  <1>4. \A u \in WaveUnits : told[u] = "none"
    BY <1>1, <1>3 DEF BatchInv, FreshOK
  <1> QED BY <1>0, <1>1, <1>2, <1>3, <1>4, LearnIs

\* An answer stands.
LEMMA ToldStays ==
    ASSUME BatchInv, Effect
    PROVE  \A u \in Units : told[u] # "none" => told'[u] = told[u]
  <1>1. CASE UNCHANGED told
    BY <1>1
  <1>2. ASSUME NEW what, Passes(what)
        PROVE  \A u \in Units : told[u] # "none" => told'[u] = told[u]
    BY <1>2, PassedUnits
  <1>3. CASE WaveEnds
    <2>1. CASE where = "flush"
      BY <1>3, <2>1, FailedWave
    <2> QED BY <1>1, <1>3, <2>1 DEF WaveEnds
  <1>4. ASSUME NEW t \in tasks, Ends(t)
        PROVE  \A u \in Units : told[u] # "none" => told'[u] = told[u]
    <2>1. \A u \in Has(t) : told[u] = "none"
      BY TaskKeys
    <2> QED BY <1>4, <2>1 DEF Ends
  <1>5. \/ UNCHANGED told \/ (\E what : Passes(what)) \/ WaveEnds \/ \E t \in tasks : Ends(t)
    BY DEF Effect, TaskEffect, Looks, Joins, Turns, Begins, Gathers, Rest, Replaces, Serves
  <1> QED BY <1>1, <1>2, <1>3, <1>4, <1>5

\* What is not known stays so.
LEMMA UncertainStays ==
    ASSUME BatchInv, LayoutsOK, Effect
    PROVE  \A u \in Units : Uncertain(u) => Uncertain(u)'
  <1> SUFFICES ASSUME NEW u \in Units, Uncertain(u) PROVE Uncertain(u)'
    OBVIOUS
  <1>1. CASE told[u] = "unknown"
    <2>1. told'[u] = "unknown"
      BY <1>1, ToldStays
    <2> QED BY <2>1 DEF Uncertain
  <1>2. CASE \E t \in tasks : \E n \in 1..Len(t.answers) : t.units[n] = u /\ t.answers[n] = "lost"
    <2>1. PICK t \in tasks : \E n \in 1..Len(t.answers) : t.units[n] = u /\ t.answers[n] = "lost"
      BY <1>2
    <2>2. PICK n \in 1..Len(t.answers) : t.units[n] = u /\ t.answers[n] = "lost"
      BY <2>1
    <2>3. CASE t \in tasks'
      BY <2>2, <2>3 DEF Uncertain
    <2>4. ASSUME NEW new, Replaces(t, new) PROVE FALSE
      BY <2>2, <2>4 DEF Replaces, Refused
    <2>5. ASSUME NEW more, NEW done, Serves(t, more, done) PROVE Uncertain(u)'
      <3> DEFINE s == After(t, more)
      <3>1. /\ s.units = t.units /\ Len(s.answers) = Len(t.answers) + Len(more)
            /\ \A m \in 1..Len(t.answers) : s.answers[m] = t.answers[m]
        BY <2>5, ServedTask
      <3>2. s \in tasks'
        BY <2>5 DEF Serves, After
      <3> HIDE DEF s
      <3>3. n \in 1..Len(s.answers)
        <4>1. Len(t.answers) \in Nat /\ Len(more) \in Nat
          BY <2>5, TaskKeys, HasIs, LenProperties DEF Serves
        <4> QED BY <3>1, <4>1
      <3>4. s.units[n] = u /\ s.answers[n] = "lost"
        BY <2>2, <3>1
      <3> QED BY <3>2, <3>3, <3>4 DEF Uncertain
    <2>6. ASSUME Ends(t) PROVE Uncertain(u)'
      <3>1. told'[u] = "unknown"
        BY <2>2, <2>6 DEF Ends
      <3> QED BY <3>1 DEF Uncertain
    <2>7. ASSUME t \notin tasks' PROVE TaskEffect(t)
      <3>1. ASSUME NEW new, Begins(new) PROVE FALSE
        BY <3>1 DEF Begins
      <3>2. ASSUME NEW s \in tasks, TaskEffect(s) PROVE s = t
        <4>1. tasks \ {s} \subseteq tasks'
          BY <3>2 DEF TaskEffect, Replaces, Serves, Ends
        <4> QED BY <2>7, <4>1
      <3>3. UNCHANGED tasks \/ (\E new : Begins(new)) \/ \E s \in tasks : TaskEffect(s)
        BY DEF Effect, Looks, Joins, Turns, Passes, WaveEnds, Gathers, Rest
      <3> QED BY <2>7, <3>1, <3>2, <3>3
    <2> QED BY <2>3, <2>4, <2>5, <2>6, <2>7 DEF TaskEffect
  <1> QED BY <1>1, <1>2 DEF Uncertain

\* What a command without a key leaves behind is its own.
LEMMA ControlStrays ==
    ASSUME BatchInv, NEW what, Passes(what), NEW u \in Units, u = <<index, NoKey>>,
           where = "scatter", Command.kind = "control"
    PROVE  ~ Out(u) /\ UnitsOf(index) = {u} /\ told'[u] = what
  <1>1. index \in 1..Len(pipeline) /\ index \in Nat
    BY TheCommands DEF Passes, BatchInv, BatchTypes
  <1>2. UnitsOf(index) = {u}
    BY <1>1, UnitsAre DEF Command, BatchInv
  <1>3. Out(u) => u[1] < index
    BY DEF BatchInv, SequenceOK
  <1>4. u[1] = index
    OBVIOUS
  <1> QED BY <1>1, <1>2, <1>3, <1>4, PassedUnits

LEMMA HistoryKept ==
    ASSUME BatchInv, LayoutsOK, Effect
    PROVE  HistoryOK'
  <1>0. BatchTypes /\ WaveOK /\ HistoryOK
    BY DEF BatchInv
  <1>h. history \in Seq(Units) /\ \A m \in 1..Len(history) : history[m] \in Units
    <2>1. history \in Seq(Units)
      BY <1>0 DEF BatchTypes
    <2> QED BY <2>1, ElementOfSeq
  <1>1. ASSUME UNCHANGED history,
               \A m \in 1..Len(history) :
                  \/ told'[history[m]] \in {"ok", "unknown"} \/ Reported(history[m])'
        PROVE  HistoryOK'
    <2>1. \A m \in 1..Len(history') :
             told'[history'[m]] \in {"ok", "unknown"} \/ Reported(history[m])'
      BY <1>1
    <2>2. \A m, n \in 1..Len(history') : m # n => history'[m] # history'[n]
      BY <1>0, <1>1 DEF HistoryOK
    <2> QED BY <2>1, <2>2 DEF HistoryOK
  <1>2. CASE Rest
    <2>1. \A u : Reported(u) => Reported(u)'
      BY <1>2 DEF Rest, Reported
    <2> QED BY <1>0, <1>1, <1>2, <2>1 DEF Rest, HistoryOK
  <1>3. ASSUME NEW what, Passes(what) PROVE HistoryOK'
    <2>1. /\ UnitsOf(index) \subseteq Units /\ tasks = {}
          /\ \A u \in UnitsOf(index) : told[u] = "none" /\ told'[u] = what
          /\ \A u \in Units : u \notin UnitsOf(index) => told'[u] = told[u]
      BY <1>3, PassedUnits
    <2>2. \A m \in 1..Len(history) : /\ history[m] \notin UnitsOf(index)
                                     /\ told'[history[m]] \in {"ok", "unknown"}
      BY <1>h, <2>1, AllTold
    <2>3. CASE UNCHANGED history
      BY <1>1, <2>2, <2>3
    <2>4. CASE ~ UNCHANGED history
      <3>1. /\ UnitsOf(index) = {<<index, NoKey>>}
            /\ \A m \in 1..Len(history) : history'[m] = history[m]
            /\ history'[Len(history) + 1] = <<index, NoKey>>
            /\ \A m \in 1..Len(history') : m \in 1..Len(history) \/ m = Len(history) + 1
            /\ what \in {"ok", "unknown"}
        BY <1>3, <2>4, ControlRuns
      <3>2. \A m \in 1..Len(history') : told'[history'[m]] \in {"ok", "unknown"}
        BY <2>1, <2>2, <3>1
      <3>3. ASSUME NEW m \in 1..Len(history'), NEW n \in 1..Len(history'), m # n
            PROVE  history'[m] # history'[n]
        <4>1. CASE m \in 1..Len(history) /\ n \in 1..Len(history)
          BY <1>0, <3>1, <3>3, <4>1 DEF HistoryOK
        <4>2. CASE m \in 1..Len(history) /\ n = Len(history) + 1
          BY <2>2, <3>1, <4>2
        <4>3. CASE m = Len(history) + 1 /\ n \in 1..Len(history)
          BY <2>2, <3>1, <4>3
        <4> QED BY <3>1, <3>3, <4>1, <4>2, <4>3
      <3> QED BY <3>2, <3>3 DEF HistoryOK
    <2> QED BY <2>3, <2>4
  <1>4. CASE WaveEnds
    <2>1. UNCHANGED history /\ tasks = {}
      BY <1>4 DEF WaveEnds
    <2>2. \A m \in 1..Len(history) : told[history[m]] \in {"ok", "unknown"}
      BY <2>1, AllTold
    <2>3. CASE UNCHANGED told
      BY <1>1, <2>1, <2>2, <2>3
    <2>4. CASE where = "flush"
      <3>1. /\ \A u \in WaveUnits : told[u] = "none"
            /\ \A u \in Units : u \notin WaveUnits => told'[u] = told[u]
        BY <1>4, <2>4, FailedWave
      <3>2. \A m \in 1..Len(history) : told'[history[m]] \in {"ok", "unknown"}
        BY <1>h, <2>2, <3>1
      <3> QED BY <1>1, <2>1, <3>2
    <2> QED BY <1>4, <2>3, <2>4 DEF WaveEnds
  <1>5. CASE Begins(tasks')
    <2>1. tasks = {} /\ UNCHANGED <<told, history>>
      BY <1>5 DEF Begins
    <2> QED BY <1>1, <2>1, AllTold
  <1>6. ASSUME NEW t \in tasks, NEW new, Replaces(t, new) PROVE HistoryOK'
    <2>1. UNCHANGED <<told, history>> /\ tasks' = (tasks \ {t}) \cup new /\ Refused(t)
      BY <1>6 DEF Replaces
    <2>2. ASSUME NEW u, Reported(u) PROVE Reported(u)'
      <3>1. PICK s \in tasks : \E n \in 1..Len(s.answers) :
               s.units[n] = u /\ s.answers[n] # "moved"
        BY <2>2 DEF Reported
      <3>2. s # t
        BY <2>1, <3>1 DEF Refused
      <3>3. s \in tasks'
        BY <2>1, <3>2
      <3> QED BY <3>1, <3>3 DEF Reported
    <2> QED BY <1>0, <1>1, <2>1, <2>2 DEF HistoryOK
  <1>7. ASSUME NEW t \in tasks, NEW more, NEW done, Serves(t, more, done) PROVE HistoryOK'
    <2> DEFINE s == After(t, more)
               a == Len(t.answers)
    <2>1. /\ s.units = t.units /\ Len(s.answers) = a + Len(more)
          /\ \A m \in 1..a : s.answers[m] = t.answers[m]
          /\ \A m \in 1..Len(more) : s.answers[a + m] = more[m]
      BY <1>7, ServedTask
    <2>2. tasks' = (tasks \ {t}) \cup {s} /\ UNCHANGED told
      BY <1>7 DEF Serves, After
    <2> HIDE DEF s
    <2>3. /\ Len(history) \in Nat /\ a \in Nat /\ Len(t.units) \in Nat /\ done \in Nat
          /\ \A m \in 1..Len(history) : history'[m] = history[m]
          /\ \A j \in 1..done : /\ history'[Len(history) + j] = t.units[a + j]
                                /\ a + j \in 1..Len(t.units)
          /\ \A m \in 1..Len(history') : \/ m \in 1..Len(history)
                                         \/ \E j \in 1..done : m = Len(history) + j
      BY <1>7, ServedHistory, ZenonT(30)
    <2>4. Len(more) \in Nat /\ done <= Len(more)
          /\ \A m \in 1..Len(more) : m <= done => more[m] # "moved"
      BY <1>7, LenProperties DEF Serves
    <2>5. ASSUME NEW u, Reported(u) PROVE Reported(u)'
      <3>1. PICK r \in tasks : \E n \in 1..Len(r.answers) :
               r.units[n] = u /\ r.answers[n] # "moved"
        BY <2>5 DEF Reported
      <3>2. CASE r # t
        <4>1. r \in tasks'
          BY <2>2, <3>2
        <4> QED BY <3>1, <4>1 DEF Reported
      <3>3. CASE r = t
        <4>1. PICK n \in 1..a : t.units[n] = u /\ t.answers[n] # "moved"
          BY <3>1, <3>3
        <4>2. n \in 1..Len(s.answers) /\ s.units[n] = u /\ s.answers[n] # "moved"
          BY <2>1, <2>3, <2>4, <4>1
        <4>3. s \in tasks'
          BY <2>2
        <4> QED BY <4>2, <4>3 DEF Reported
      <3> QED BY <3>2, <3>3
    <2>6. ASSUME NEW j \in 1..done PROVE Reported(t.units[a + j])'
      <3>1. j \in 1..Len(more) /\ j <= done
        BY <2>3, <2>4
      <3>2. s.answers[a + j] # "moved"
        BY <2>1, <2>4, <3>1
      <3>3. a + j \in 1..Len(s.answers) /\ s.units[a + j] = t.units[a + j]
        BY <2>1, <2>3, <2>4, <3>1
      <3>4. s \in tasks'
        BY <2>2
      <3> QED BY <3>2, <3>3, <3>4 DEF Reported
    <2>7. ASSUME NEW j \in 1..done, NEW m \in 1..Len(history)
          PROVE  history[m] # t.units[a + j]
      <3>1. a + j \in 1..Len(t.units) /\ ~ (a + j <= a)
        BY <2>3
      <3>2. ~ Ran(t.units[a + j])
        BY <3>1, NotRun DEF Out
      <3> QED BY <3>2 DEF Ran
    <2>8. ASSUME NEW i \in 1..done, NEW j \in 1..done, i # j PROVE t.units[a + i] # t.units[a + j]
      <3>1. TaskOK(t)
        BY TaskKeys
      <3>a. a + i \in 1..Len(t.units) /\ a + j \in 1..Len(t.units)
        BY <2>3
      <3>b. a \in Nat /\ done \in Nat
        BY <2>3
      <3>c. a + i < a + j \/ a + j < a + i
        BY <2>8, <3>b
      <3>2. /\ a + i \in 1..Len(t.units) /\ a + j \in 1..Len(t.units)
            /\ (a + i < a + j \/ a + j < a + i)
        BY <3>a, <3>c
      <3> QED BY <3>1, <3>2 DEF TaskOK
    <2>9. ASSUME NEW m \in 1..Len(history'), NEW n \in 1..Len(history'), m # n
          PROVE  history'[m] # history'[n]
      <3>1. CASE m \in 1..Len(history) /\ n \in 1..Len(history)
        BY <1>0, <2>3, <2>9, <3>1 DEF HistoryOK
      <3>2. CASE m \in 1..Len(history) /\ \E j \in 1..done : n = Len(history) + j
        BY <2>3, <2>7, <3>2
      <3>3. CASE n \in 1..Len(history) /\ \E j \in 1..done : m = Len(history) + j
        BY <2>3, <2>7, <3>3
      <3>4. CASE /\ \E j \in 1..done : m = Len(history) + j
                 /\ \E j \in 1..done : n = Len(history) + j
        <4>1. PICK i \in 1..done : m = Len(history) + i
          BY <3>4
        <4>2. PICK j \in 1..done : n = Len(history) + j
          BY <3>4
        <4>3. i # j
          BY <2>9, <4>1, <4>2
        <4> QED BY <2>3, <2>8, <4>1, <4>2, <4>3
      <3> QED BY <2>3, <2>9, <3>1, <3>2, <3>3, <3>4
    <2>10. ASSUME NEW m \in 1..Len(history')
           PROVE  told'[history'[m]] \in {"ok", "unknown"} \/ Reported(history[m])'
      <3>1. CASE m \in 1..Len(history)
        <4>p. PICK u : u = history[m]
          OBVIOUS
        <4>1. told[u] \in {"ok", "unknown"} \/ Reported(u)
          BY <1>0, <3>1, <4>p DEF HistoryOK
        <4>2. history'[m] = u
          BY <2>3, <3>1, <4>p
        <4>3. Reported(u) => Reported(u)'
          BY <2>5
        <4>4. Reported(u)' => Reported(history[m])'
          BY <4>2 DEF Reported
        <4> QED BY <2>2, <4>1, <4>2, <4>3, <4>4
      <3>2. CASE \E j \in 1..done : m = Len(history) + j
        <4>1. PICK j \in 1..done : m = Len(history) + j
          BY <3>2
        <4>2. history'[m] = t.units[a + j]
          BY <2>3, <4>1
        <4>3. Reported(t.units[a + j])'
          BY <2>6
        <4> QED BY <4>2, <4>3 DEF Reported
      <3> QED BY <2>3, <3>1, <3>2
    <2> QED BY <2>9, <2>10 DEF HistoryOK
  <1>8. ASSUME NEW t \in tasks, Ends(t) PROVE HistoryOK'
    <2>1. /\ UNCHANGED history /\ tasks' = tasks \ {t} /\ told' \in [Units -> Results]
          /\ \A u \in Units \ Has(t) : told'[u] = told[u]
          /\ \A u \in Has(t) : told'[u] # "none" /\ (told'[u] = "not" => ~ Ran(u))
      BY <1>8 DEF Ends
    <2>2. t \in Task /\ TaskOK(t) /\ Has(t) \subseteq Units /\ \A u \in Has(t) : told[u] = "none"
      BY TaskKeys
    <2>3. ASSUME NEW m \in 1..Len(history)
          PROVE  told'[history[m]] \in {"ok", "unknown"} \/ Reported(history[m])'
      <3> DEFINE u == history[m]
      <3>1. u \in Units /\ Ran(u)
        BY <1>h DEF Ran
      <3>2. CASE u \in Has(t)
        <4>1. told'[u] \in Results /\ told'[u] # "none" /\ told'[u] # "not"
          BY <2>1, <3>1, <3>2
        <4> QED BY <4>1 DEF Results
      <3>3. CASE u \notin Has(t)
        <4>1. told'[u] = told[u]
          BY <2>1, <3>1, <3>3
        <4>2. CASE told[u] \in {"ok", "unknown"}
          BY <4>1, <4>2
        <4>3. CASE Reported(u)
          <5>1. PICK s \in tasks : \E n \in 1..Len(s.answers) :
                   s.units[n] = u /\ s.answers[n] # "moved"
            BY <4>3 DEF Reported
          <5>2. s # t
            <6> SUFFICES ASSUME s = t PROVE FALSE
              OBVIOUS
            <6>1. PICK n \in 1..Len(t.answers) : t.units[n] = u
              BY <5>1
            <6>2. n \in 1..Len(t.units)
              <7>1. Len(t.answers) \in Nat /\ Len(t.units) \in Nat /\ Len(t.answers) <= Len(t.units)
                BY <2>2, HasIs DEF TaskOK
              <7> QED BY <7>1
            <6>3. u \in Has(t)
              BY <2>2, <6>1, <6>2, HasIs
            <6> QED BY <3>3, <6>3
          <5>3. s \in tasks'
            BY <2>1, <5>2
          <5>4. history'[m] = u
            BY <2>1
          <5> HIDE DEF u
          <5> QED BY <5>1, <5>3, <5>4 DEF Reported
        <4> QED BY <1>0, <4>2, <4>3 DEF HistoryOK
      <3> QED BY <3>2, <3>3
    <2> QED BY <1>1, <2>1, <2>3
  <1>9. (Looks \/ Joins \/ Turns \/ Gathers) => Rest
    BY DEF Looks, Joins, Turns, Gathers
  <1> QED BY <1>2, <1>3, <1>4, <1>5, <1>6, <1>7, <1>8, <1>9 DEF Effect, TaskEffect


LEMMA TrueKept ==
    ASSUME BatchInv, LayoutsOK, Effect
    PROVE  TrueOK'
  <1>0. BatchTypes /\ WaveOK /\ TrueOK
    BY DEF BatchInv
  <1>r. \A u : Ran(u) => Ran(u)'
    BY RanStays
  <1>1. ASSUME tasks' = {}, \A u \in Units : told'[u] = "ok" => told[u] = "ok" \/ Ran(u)'
        PROVE  TrueOK'
    BY <1>0, <1>1, <1>r DEF TrueOK
  <1>2. CASE Rest
    BY <1>0, <1>2, <1>r DEF Rest, TrueOK
  <1>3. ASSUME NEW what, Passes(what) PROVE TrueOK'
    <2>1. /\ tasks' = {} /\ \A u \in UnitsOf(index) : told'[u] = what
          /\ \A u \in Units : u \notin UnitsOf(index) => told'[u] = told[u]
      BY <1>3, PassedUnits
    <2>2. CASE what # "ok"
      BY <1>1, <2>1, <2>2
    <2>3. CASE what = "ok"
      <3>1. ~ UNCHANGED history
        BY <1>3, <2>3 DEF Passes
      <3>2. /\ UnitsOf(index) = {<<index, NoKey>>} /\ Len(history') = Len(history) + 1
            /\ Len(history) \in Nat /\ history'[Len(history) + 1] = <<index, NoKey>>
        BY <1>3, <3>1, ControlRuns
      <3>3. Len(history) + 1 \in 1..Len(history')
        BY <3>2
      <3>4. \A u \in UnitsOf(index) : Ran(u)'
        BY <3>2, <3>3 DEF Ran
      <3> QED BY <1>1, <2>1, <3>4
    <2> QED BY <2>2, <2>3
  <1>4. CASE WaveEnds
    <2>1. tasks' = {}
      BY <1>4 DEF WaveEnds
    <2>2. CASE UNCHANGED told
      BY <1>1, <2>1, <2>2
    <2>3. CASE where = "flush"
      <3>1. /\ \A u \in WaveUnits : told'[u] = "not"
            /\ \A u \in Units : u \notin WaveUnits => told'[u] = told[u]
        BY <1>4, <2>3, FailedWave
      <3> QED BY <1>1, <2>1, <3>1
    <2> QED BY <1>4, <2>2, <2>3 DEF WaveEnds
  <1>5. CASE Begins(tasks')
    <2>1. /\ UNCHANGED told /\ \A t \in tasks' : t.answers = <<>>
      BY <1>5 DEF Begins, Planned
    <2>2. \A t \in tasks' : Len(t.answers) = 0
      BY <2>1
    <2> QED BY <1>0, <1>r, <2>1, <2>2 DEF TrueOK
  <1>6. ASSUME NEW t \in tasks, NEW new, Replaces(t, new) PROVE TrueOK'
    <2>1. /\ UNCHANGED told /\ tasks' = (tasks \ {t}) \cup new
          /\ \A s \in new : \A n \in 1..Len(s.answers) : s.answers[n] = "moved"
      BY <1>6 DEF Replaces, Refused
    <2> QED BY <1>0, <1>r, <2>1 DEF TrueOK
  <1>7. ASSUME NEW t \in tasks, NEW more, NEW done, Serves(t, more, done) PROVE TrueOK'
    <2> DEFINE s == After(t, more)
               a == Len(t.answers)
    <2>1. /\ s.units = t.units /\ Len(s.answers) = a + Len(more)
          /\ \A m \in 1..a : s.answers[m] = t.answers[m]
          /\ \A m \in 1..Len(more) : s.answers[a + m] = more[m]
      BY <1>7, ServedTask
    <2>2. tasks' = (tasks \ {t}) \cup {s} /\ UNCHANGED told
      BY <1>7 DEF Serves, After
    <2> HIDE DEF s
    <2>3. /\ Len(history) \in Nat /\ a \in Nat /\ done \in Nat
          /\ Len(history') = Len(history) + done
          /\ \A j \in 1..done : history'[Len(history) + j] = t.units[a + j]
      BY <1>7, ServedHistory
    <2>4. Len(more) \in Nat /\ \A m \in 1..Len(more) : ~ (m <= done) => more[m] # "ok"
      BY <1>7, LenProperties DEF Serves
    <2>5. ASSUME NEW n \in 1..Len(s.answers), s.answers[n] = "ok" PROVE Ran(s.units[n])'
      <3>1. CASE n \in 1..a
        <4>1. Ran(t.units[n])
          BY <1>0, <2>1, <2>5, <3>1 DEF TrueOK
        <4>2. Ran(t.units[n])'
          BY <1>r, <4>1
        <4> QED BY <2>1, <4>2
      <3>2. CASE n \notin 1..a
        <4>1. PICK j \in 1..Len(more) : n = a + j
          <5>1. n - a \in 1..Len(more) /\ n = a + (n - a)
            BY <2>1, <2>3, <2>4, <3>2
          <5> QED BY <5>1
        <4>2. j <= done
          BY <2>1, <2>4, <2>5, <4>1
        <4>3. j \in 1..done
          BY <2>3, <2>4, <4>2
        <4>4. history'[Len(history) + j] = t.units[n] /\ Len(history) + j \in 1..Len(history')
          <5>1. history'[Len(history) + j] = t.units[a + j]
            BY <2>3, <4>3
          <5>2. Len(history) + j \in 1..Len(history')
            BY <2>3, <4>3
          <5> QED BY <4>1, <5>1, <5>2
        <4>5. Ran(t.units[n])'
          BY <4>4 DEF Ran
        <4> QED BY <2>1, <4>5
      <3> QED BY <3>1, <3>2
    <2>6. \A r \in tasks : \A n \in 1..Len(r.answers) : r.answers[n] = "ok" => Ran(r.units[n])'
      BY <1>0, <1>r DEF TrueOK
    <2>7. \A u \in Units : told'[u] = "ok" => Ran(u)'
      BY <1>0, <1>r, <2>2 DEF TrueOK
    <2> QED BY <2>2, <2>5, <2>6, <2>7 DEF TrueOK
  <1>8. ASSUME NEW t \in tasks, Ends(t) PROVE TrueOK'
    <2>1. /\ tasks' = tasks \ {t} /\ \A u \in Units \ Has(t) : told'[u] = told[u]
          /\ \A u \in Has(t) : told'[u] = "ok" => Ran(u)
      BY <1>8 DEF Ends
    <2> QED BY <1>0, <1>r, <2>1 DEF TrueOK
  <1>9. (Looks \/ Joins \/ Turns \/ Gathers) => Rest
    BY DEF Looks, Joins, Turns, Gathers
  <1> QED BY <1>2, <1>3, <1>4, <1>5, <1>6, <1>7, <1>8, <1>9 DEF Effect, TaskEffect

LEMMA FreshKept ==
    ASSUME BatchInv, LayoutsOK, Effect
    PROVE  FreshOK'
  <1>0. BatchTypes /\ WaveOK /\ FreshOK
    BY DEF BatchInv
  <1>1. index \in Nat /\ wave \subseteq Nat /\ \A i \in wave : i < index
    BY <1>0, TheCommands DEF WaveOK
  <1>2. \A u \in Units : u[1] \in Nat
    BY BatchConstants DEF Units
  <1>3. CASE Looks
    BY <1>0, <1>3 DEF Looks, Rest, LoopStays, FreshOK
  <1>4. CASE Joins
    <2>1. /\ UNCHANGED <<tasks, told>> /\ where = "route" /\ where' = "route"
          /\ wave' = wave \cup {index} /\ index' = index + 1
      BY <1>4 DEF Joins, Rest
    <2>2. \A u \in Units : u[1] > index' \/ u[1] = index' => u[1] > index
      BY <1>1, <1>2, <2>1
    <2> QED BY <1>0, <2>1, <2>2 DEF FreshOK
  <1>5. CASE Turns
    BY <1>0, <1>5 DEF Turns, Rest, FreshOK
  <1>6. ASSUME NEW what, Passes(what) PROVE FreshOK'
    <2>1. /\ UnitsOf(index) \subseteq Units /\ tasks' = {} /\ index' = index + 1
          /\ \A u \in Units : u[1] # index => told'[u] = told[u]
      BY <1>6, PassedUnits
    <2>2. where' = "route" /\ wave' = wave /\ where \in {"route", "scatter"}
      BY <1>6 DEF Passes
    <2>3. ASSUME NEW u \in Units, u[1] \in wave PROVE told'[u] = "none"
      <3>1. where = "route"
        BY <1>0, <2>2, <2>3 DEF WaveOK
      <3>2. u[1] # index
        BY <1>1, <2>3
      <3> QED BY <1>0, <2>1, <2>3, <3>1, <3>2 DEF FreshOK
    <2>4. ASSUME NEW u \in Units, u[1] > index' \/ u[1] = index' PROVE told'[u] = "none"
      <3>1. u[1] > index /\ u[1] # index
        BY <1>1, <1>2, <2>1, <2>4
      <3> QED BY <1>0, <2>1, <3>1 DEF FreshOK
    <2> QED BY <2>1, <2>2, <2>3, <2>4 DEF FreshOK
  <1>7. CASE WaveEnds
    <2>1. /\ tasks' = {} /\ wave' = {} /\ where' = "route" /\ index' = index
          /\ where \in {"wave", "flush"}
      BY <1>7 DEF WaveEnds
    <2>2. \A u \in Units : u[1] > index \/ u[1] = index => told[u] = "none"
      BY <1>0, <2>1 DEF FreshOK
    <2>3. CASE UNCHANGED told
      BY <2>1, <2>2, <2>3 DEF FreshOK
    <2>4. CASE where = "flush"
      <3>1. /\ \A u \in WaveUnits : u[1] \in wave
            /\ \A u \in Units : u \notin WaveUnits => told'[u] = told[u]
        BY <1>7, <2>4, FailedWave
      <3>2. \A u \in Units : u[1] > index \/ u[1] = index => u \notin WaveUnits
        <4>1. \A u \in WaveUnits : u[1] < index /\ u[1] \in Nat
          BY <1>1, <3>1
        <4>2. \A u \in Units : u[1] > index \/ u[1] = index => ~ (u[1] < index)
          BY <1>1, <1>2
        <4> QED BY <4>1, <4>2
      <3> QED BY <2>1, <2>2, <3>1, <3>2 DEF FreshOK
    <2> QED BY <1>7, <2>3, <2>4 DEF WaveEnds
  <1>8. CASE Begins(tasks')
    <2>0. UNCHANGED <<index, wave, told>>
      BY <1>8 DEF Begins
    <2>1. CASE where = "flush" /\ where' = "wave" /\ Planned(tasks', WaveUnits)
      <3>1. /\ WaveUnits = {<<i, TheKey(i)>> : i \in wave} /\ WaveUnits \subseteq Units
        BY <1>0, WaveUnitsAre
      <3>2. \A u \in WaveUnits : told[u] = "none"
        <4>1. \A u \in WaveUnits : u \in Units /\ u[1] \in wave
          BY <3>1
        <4> QED BY <1>0, <2>1, <4>1 DEF FreshOK
      <3>3. \A t \in tasks' : Has(t) \subseteq WaveUnits
        BY <2>1 DEF Planned
      <3> QED BY <1>0, <2>0, <2>1, <3>2, <3>3 DEF FreshOK
    <2>2. CASE where = "scatter" /\ where' = "gather" /\ Planned(tasks', UnitsOf(index))
      <3>1. index \in 1..Len(pipeline)
        BY <1>0, <2>2, TheCommands DEF WaveOK, BatchTypes
      <3>2. UnitsOf(index) \subseteq Units /\ \A u \in UnitsOf(index) : u[1] = index
        BY <1>0, <3>1, UnitsAre
      <3>3. \A u \in UnitsOf(index) : told[u] = "none"
        BY <1>0, <2>2, <3>2 DEF FreshOK
      <3>4. \A t \in tasks' : Has(t) \subseteq UnitsOf(index)
        BY <2>2 DEF Planned
      <3> QED BY <1>0, <2>0, <2>2, <3>3, <3>4 DEF FreshOK
    <2> QED BY <1>8, <2>1, <2>2 DEF Begins
  <1>9. CASE Gathers
    <2>1. /\ UNCHANGED <<told, wave>> /\ where = "gather" /\ tasks' = {} /\ where' = "route"
          /\ index' = index + 1
      BY <1>9 DEF Gathers, Rest
    <2>2. wave = {}
      BY <1>0, <2>1 DEF WaveOK
    <2>3. \A u \in Units : u[1] > index' \/ u[1] = index' => u[1] > index
      BY <1>1, <1>2, <2>1
    <2> QED BY <1>0, <2>1, <2>2, <2>3 DEF FreshOK
  <1>10. ASSUME NEW t \in tasks, UNCHANGED told, LoopStays,
                \A s \in tasks' : \E r \in tasks : Has(s) \subseteq Has(r)
         PROVE  FreshOK'
    BY <1>0, <1>10 DEF LoopStays, FreshOK
  <1>11. ASSUME NEW t \in tasks, NEW new, Replaces(t, new) PROVE FreshOK'
    BY <1>10, <1>11 DEF Replaces
  <1>12. ASSUME NEW t \in tasks, NEW more, NEW done, Serves(t, more, done) PROVE FreshOK'
    <2>1. Has(After(t, more)) = Has(t)
      BY <1>12, ServedTask
    <2>2. tasks' = (tasks \ {t}) \cup {After(t, more)} /\ UNCHANGED told /\ LoopStays
      BY <1>12 DEF Serves, After
    <2> QED BY <1>10, <2>1, <2>2
  <1>13. ASSUME NEW t \in tasks, Ends(t) PROVE FreshOK'
    <2>1. /\ LoopStays /\ tasks' = tasks \ {t} /\ \A u \in Units \ Has(t) : told'[u] = told[u]
      BY <1>13 DEF Ends
    <2>2. /\ where \in {"wave", "gather"}
          /\ where = "wave" => \A u \in Has(t) : u[1] \in wave
          /\ where = "gather" => \A u \in Has(t) : u[1] = index
          /\ \A s \in tasks : s # t => Has(s) \cap Has(t) = {}
      BY TaskKeys
    <2>3. ASSUME NEW s \in tasks', NEW u \in Has(s) PROVE told'[u] = "none"
      <3>1. s \in tasks /\ s # t /\ u \notin Has(t)
        BY <2>1, <2>2
      <3>2. u \in Units
        BY <3>1, TaskKeys
      <3> QED BY <1>0, <2>1, <3>1, <3>2 DEF FreshOK
    <2>4. ASSUME NEW u \in Units, u[1] > index \/ (u[1] = index /\ where # "gather")
          PROVE  told'[u] = "none"
      <3>1. u \notin Has(t)
        <4>1. CASE where = "wave"
          BY <1>1, <1>2, <2>2, <2>4, <4>1
        <4>2. CASE where = "gather"
          BY <1>1, <1>2, <2>2, <2>4, <4>2
        <4> QED BY <2>2, <4>1, <4>2
      <3> QED BY <1>0, <2>1, <2>4, <3>1 DEF FreshOK
    <2> QED BY <2>1, <2>2, <2>3, <2>4 DEF FreshOK, LoopStays
  <1> QED BY <1>3, <1>4, <1>5, <1>6, <1>7, <1>8, <1>9, <1>11, <1>12, <1>13 DEF Effect, TaskEffect


LEMMA StrandedKept ==
    ASSUME BatchInv, LayoutsOK, Effect
    PROVE  StrandedOK'
  <1>0. StrandedOK /\ SequenceOK
    BY DEF BatchInv
  <1>1. \A u \in Units : Stray(u) => Uncertain(u)' /\ ~ Ran(u)
    BY <1>0, UncertainStays DEF StrandedOK
  <1>2. CASE UNCHANGED <<history, stranded>>
    <2>1. StrandedSound' /\ \A u : Stray(u)' = Stray(u)
      BY <1>0, <1>2, StrandedStays DEF StrandedOK
    <2>2. \A u : Ran(u)' = Ran(u)
      BY <1>2 DEF Ran
    <2> QED BY <1>1, <2>1, <2>2 DEF StrandedOK
  <1>3. ASSUME NEW what, Passes(what), ~ UNCHANGED <<history, stranded>> PROVE StrandedOK'
    <2>1. where = "scatter" /\ Command.kind = "control"
      BY <1>3 DEF Passes
    <2>a. <<index, NoKey>> \in Units
      BY <1>3, TheCommands DEF Passes, BatchInv, BatchTypes, Units
    <2>2. PICK c \in Units : c = <<index, NoKey>>
      BY <2>a, Zenon
    <2>3. ~ Out(c) /\ told'[c] = what
      BY <1>3, <2>1, <2>2, ControlStrays
    <2>4. CASE UNCHANGED history
      <3>1. what = "unknown" /\ StrandedSound' /\ \A u : Stray(u)' => Stray(u) \/ u = c
        BY <1>3, <2>2, <2>4 DEF Passes
      <3>2. \A u : Ran(u)' = Ran(u)
        BY <2>4 DEF Ran
      <3>3. Uncertain(c)'
        BY <2>3, <3>1 DEF Uncertain
      <3>4. \A u \in Units : Stray(u)' => ~ Ran(u)' /\ Uncertain(u)'
        <4> SUFFICES ASSUME NEW u \in Units, Stray(u)' PROVE ~ Ran(u)' /\ Uncertain(u)'
          OBVIOUS
        <4>1. CASE Stray(u)
          BY <1>1, <3>2, <4>1
        <4>2. CASE u = c
          <5>1. ~ Ran(u)
            BY <2>3, <4>2 DEF Out
          <5>2. Uncertain(u)'
            BY <3>3, <4>2
          <5> QED BY <3>2, <5>1, <5>2
        <4> QED BY <3>1, <4>1, <4>2
      <3> QED BY <3>1, <3>4 DEF StrandedOK
    <2>5. CASE ~ UNCHANGED history
      <3>1. UNCHANGED stranded
        BY <1>3, <2>5 DEF Passes
      <3>2. StrandedSound' /\ \A u : Stray(u)' = Stray(u)
        BY <1>0, <3>1, StrandedStays DEF StrandedOK
      <3>3. \A u : Ran(u)' => Ran(u) \/ u = c
        <4>1. /\ \A m \in 1..Len(history) : history'[m] = history[m]
              /\ history'[Len(history) + 1] = c
              /\ \A m \in 1..Len(history') : m \in 1..Len(history) \/ m = Len(history) + 1
          BY <1>3, <2>2, <2>5, ControlRuns
        <4> QED BY <4>1 DEF Ran
      <3>4. ~ Stray(c)
        BY <2>3 DEF Out
      <3> QED BY <1>1, <3>2, <3>3, <3>4 DEF StrandedOK
    <2> QED BY <2>4, <2>5
  <1>4. ASSUME NEW t \in tasks, NEW more, NEW done, Serves(t, more, done) PROVE StrandedOK'
    <2> DEFINE s == After(t, more)
               a == Len(t.answers)
    <2>1. /\ s.units = t.units /\ Len(s.answers) = a + Len(more)
          /\ \A m \in 1..Len(more) : s.answers[a + m] = more[m]
      BY <1>4, ServedTask
    <2>2. /\ s \in tasks' /\ StrandedSound' /\ a + Len(more) <= Len(t.units)
          /\ \A u : Stray(u)' => \/ Stray(u)
                                \/ \E m \in 1..Len(more) : /\ m > done /\ more[m] = "lost"
                                                           /\ u = t.units[a + m]
      BY <1>4 DEF Serves, After
    <2> HIDE DEF s
    <2>3. /\ a \in Nat /\ Len(t.units) \in Nat /\ done \in Nat
          /\ \A m \in 1..Len(history) : history'[m] = history[m]
          /\ \A j \in 1..done : /\ history'[Len(history) + j] = t.units[a + j]
                                /\ a + j \in 1..Len(t.units)
          /\ \A m \in 1..Len(history') : \/ m \in 1..Len(history)
                                         \/ \E j \in 1..done : m = Len(history) + j
      BY <1>4, ServedHistory, ZenonT(30)
    <2>4. Len(more) \in Nat
      BY <1>4, LenProperties DEF Serves
    <2>5. \A j \in 1..done : ~ Out(t.units[a + j])
      <3> SUFFICES ASSUME NEW j \in 1..done PROVE ~ Out(t.units[a + j])
        OBVIOUS
      <3>1. a + j \in 1..Len(t.units) /\ ~ (a + j <= a)
        BY <2>3
      <3> QED BY <3>1, NotRun
    <2>6. \A u : Ran(u)' => Ran(u) \/ \E j \in 1..done : u = t.units[a + j]
      BY <2>3 DEF Ran
    <2>7. ASSUME NEW u \in Units, Stray(u) PROVE ~ Ran(u)' /\ Uncertain(u)'
      <3>1. Out(u)
        BY <2>7 DEF Out
      <3>2. ~ \E j \in 1..done : u = t.units[a + j]
        BY <2>5, <3>1
      <3> QED BY <1>1, <2>6, <2>7, <3>2
    <2>8. ASSUME NEW m \in 1..Len(more), m > done, more[m] = "lost"
          PROVE  ~ Ran(t.units[a + m])' /\ Uncertain(t.units[a + m])'
      <3>1. a + m \in 1..Len(t.units) /\ ~ (a + m <= a) /\ a + m \in 1..Len(s.answers)
        BY <2>1, <2>2, <2>3, <2>4
      <3>2. s.answers[a + m] = "lost"
        BY <2>1, <2>8
      <3>3. Uncertain(t.units[a + m])'
        BY <2>1, <2>2, <3>1, <3>2 DEF Uncertain
      <3>4. ~ Ran(t.units[a + m])
        BY <3>1, NotRun DEF Out
      <3>5. \A j \in 1..done : t.units[a + j] # t.units[a + m]
        <4> SUFFICES ASSUME NEW j \in 1..done PROVE t.units[a + j] # t.units[a + m]
          OBVIOUS
        <4>1. a + j \in 1..Len(t.units) /\ a + j < a + m
          <5>1. j <= done /\ j \in Nat /\ m \in Nat /\ j < m
            BY <2>3, <2>4, <2>8
          <5>2. a + j \in 1..Len(t.units)
            BY <2>3, Zenon
          <5>3. a \in Nat
            BY <2>3
          <5> HIDE DEF a
          <5>4. a + j < a + m
            BY <5>1, <5>3
          <5> QED BY <5>2, <5>4
        <4>2. \A i, k \in 1..Len(t.units) : i < k => t.units[i] # t.units[k]
          BY TaskKeys DEF TaskOK
        <4> QED BY <3>1, <4>1, <4>2
      <3>6. ~ Ran(t.units[a + m])'
        BY <2>6, <3>4, <3>5
      <3> QED BY <3>3, <3>6
    <2>9. ASSUME NEW u \in Units, Stray(u)' PROVE ~ Ran(u)' /\ Uncertain(u)'
      BY <2>2, <2>7, <2>8, <2>9
    <2> QED BY <2>2, <2>9 DEF StrandedOK
  <1>5. \/ UNCHANGED <<history, stranded>> \/ (\E what : Passes(what))
        \/ \E t \in tasks : \E more, done : Serves(t, more, done)
    BY DEF Effect, TaskEffect, Looks, Joins, Turns, WaveEnds, Begins, Gathers, Rest, Replaces,
           Ends
  <1> QED BY <1>2, <1>3, <1>4, <1>5

\* The order of what was executed before does not change.
LEMMA OrderStays ==
    ASSUME BatchInv, LayoutsOK, Effect,
           \A m, n \in 1..Len(history') :
              /\ m < n /\ n \notin 1..Len(history)
              /\ \/ history'[m][2] = history'[n][2]
                 \/ NoKey \in {history'[m][2], history'[n][2]}
              => history'[m][1] <= history'[n][1]
    PROVE  PipelineOrderKept'
  <1>0. DOMAIN history' = 1..Len(history') /\ DOMAIN history = 1..Len(history)
    BY TypesKept DEF BatchInv, BatchTypes
  <1>1. ASSUME NEW m \in 1..Len(history'), NEW n \in 1..Len(history'), m < n,
               \/ history'[m][2] = history'[n][2]
               \/ NoKey \in {history'[m][2], history'[n][2]}
        PROVE  history'[m][1] <= history'[n][1] \/ Uncertain(history[n])'
    <2>1. CASE n \notin 1..Len(history)
      BY <1>1, <2>1
    <2>2. CASE n \in 1..Len(history)
      <3>1. Len(history) \in Nat /\ m \in 1..Len(history)
        BY <1>1, <2>2, RanStays
      <3>2. history'[m] = history[m] /\ history'[n] = history[n]
        BY <2>2, <3>1, RanStays
      <3>p. PICK u : u = history[n]
        OBVIOUS
      <3>3. u \in Units
        BY <2>2, <3>p, ElementOfSeq DEF BatchInv, BatchTypes
      <3>4. history[m][1] <= history[n][1] \/ Uncertain(u)
        BY <1>0, <1>1, <2>2, <3>1, <3>2, <3>p DEF BatchInv, SequenceOK, PipelineOrderKept
      <3>5. Uncertain(u) => Uncertain(u)'
        BY <3>3, UncertainStays
      <3>6. Uncertain(u)' => Uncertain(history[n])'
        <4>1. history'[n] = u
          BY <3>2, <3>p
        <4> QED BY <4>1 DEF Uncertain
      <3> QED BY <3>2, <3>4, <3>5, <3>6
    <2> QED BY <2>1, <2>2
  <1> QED BY <1>0, <1>1 DEF PipelineOrderKept

LEMMA SequenceKept ==
    ASSUME BatchInv, LayoutsOK, Effect
    PROVE  SequenceOK'
  <1>0. BatchTypes /\ WaveOK /\ SequenceOK
    BY DEF BatchInv
  <1>1. /\ index \in Nat /\ wave \subseteq Nat /\ \A i \in wave : i < index
        /\ index - 1 \in Int
    BY <1>0, TheCommands DEF WaveOK
  <1>h. /\ Len(history) \in Nat
        /\ \A m \in 1..Len(history) : history[m] \in Units /\ Out(history[m])
    <2>1. history \in Seq(Units)
      BY <1>0 DEF BatchTypes
    <2> QED BY <2>1, ElementOfSeq, LenProperties DEF Out, Ran
  <1>u. \A u \in Units : u[1] \in Nat
    BY BatchConstants DEF Units
  <1>o. ASSUME UNCHANGED <<history, stranded>>
        PROVE  PipelineOrderKept' /\ \A v : Out(v)' = Out(v)
    <2>1. PipelineOrderKept'
      BY <1>o, OrderStays
    <2> QED BY <1>o, <2>1, StrandedStays DEF Out, Ran
  <1>2. CASE Looks
    <2>1. UNCHANGED <<history, stranded, tasks, where, index, wave>>
      BY <1>2 DEF Looks, Rest, LoopStays
    <2>2. PipelineOrderKept' /\ \A v : Out(v)' = Out(v)
      BY <1>o, <2>1
    <2> QED BY <1>0, <2>1, <2>2 DEF SequenceOK
  <1>3. ASSUME UNCHANGED <<history, stranded>>, tasks' = {},
               \A v \in Units : Out(v) => IF where' = "gather" THEN v[1] <= index'
                                         ELSE v[1] < index',
               where' \in {"route", "flush"} =>
                  \A v \in Units : Out(v) => \A i \in wave' : v[1] < i
        PROVE  SequenceOK'
    <2>1. PipelineOrderKept' /\ \A v : Out(v)' = Out(v)
      BY <1>3, <1>o
    <2> QED BY <1>3, <2>1 DEF SequenceOK
  <1>4. CASE Joins
    <2>1. /\ UNCHANGED <<history, stranded, tasks>> /\ where = "route" /\ where' = "route"
          /\ wave' = wave \cup {index} /\ index' = index + 1
      BY <1>4 DEF Joins, Rest
    <2>2. tasks' = {}
      BY <2>1, NoTasks
    <2>3. \A v \in Units : Out(v) => v[1] < index
      BY <1>0, <2>1 DEF SequenceOK
    <2>4. \A v \in Units : Out(v) => v[1] < index + 1
      BY <1>1, <1>u, <2>3
    <2>5. \A v \in Units : Out(v) => \A i \in wave' : v[1] < i
      BY <1>0, <2>1, <2>3 DEF SequenceOK
    <2> QED BY <1>3, <2>1, <2>2, <2>4, <2>5
  <1>5. CASE Turns
    <2>1. /\ UNCHANGED <<history, stranded, tasks, wave, index>> /\ where \in {"route", "flush"}
          /\ where' \in {"route", "flush", "scatter", "end"}
      BY <1>5 DEF Turns, Rest
    <2>2. tasks' = {}
      BY <2>1, NoTasks
    <2>3. \A v \in Units : Out(v) => v[1] < index /\ \A i \in wave : v[1] < i
      BY <1>0, <2>1 DEF SequenceOK
    <2> QED BY <1>3, <2>1, <2>2, <2>3
  <1>6. ASSUME NEW what, Passes(what) PROVE SequenceOK'
    <2>1. /\ tasks' = {} /\ where' = "route" /\ wave' = wave /\ index' = index + 1
          /\ where \in {"route", "scatter"}
      BY <1>6, PassedUnits DEF Passes
    <2>2. \A v \in Units : Out(v) => v[1] < index
      BY <1>0, <2>1 DEF SequenceOK
    <2>3. \A v \in Units : Out(v) => v[1] < index + 1
      BY <1>1, <1>u, <2>2
    <2>4. CASE UNCHANGED <<history, stranded>>
      <3>1. \A v \in Units : Out(v) => \A i \in wave : v[1] < i
        <4>1. CASE where = "route"
          BY <1>0, <4>1 DEF SequenceOK
        <4>2. CASE where = "scatter"
          BY <1>0, <4>2 DEF WaveOK
        <4> QED BY <2>1, <4>1, <4>2
      <3> QED BY <1>3, <2>1, <2>3, <2>4, <3>1
    <2>5. CASE ~ UNCHANGED <<history, stranded>>
      <3>1. where = "scatter"
        BY <1>6, <2>5 DEF Passes
      <3>2. wave' = {}
        BY <1>0, <2>1, <3>1 DEF WaveOK
      <3>3. <<index, NoKey>>[1] = index
        OBVIOUS
      <3>4. \A v : Ran(v)' => Ran(v) \/ v = <<index, NoKey>>
        <4>1. CASE UNCHANGED history
          BY <4>1 DEF Ran
        <4>2. CASE ~ UNCHANGED history
          BY <1>6, <4>2, ControlRuns DEF Ran
        <4> QED BY <4>1, <4>2
      <3>5. \A v : Stray(v)' => Stray(v) \/ v = <<index, NoKey>>
        <4>1. CASE UNCHANGED stranded
          BY <4>1, StrandedStays
        <4>2. CASE ~ UNCHANGED stranded
          BY <1>6, <4>2 DEF Passes
        <4> QED BY <4>1, <4>2
      <3>6. \A v \in Units : Out(v)' => v[1] < index + 1
        <4>1. \A v : Out(v)' => Out(v) \/ v = <<index, NoKey>>
          BY <3>4, <3>5 DEF Out
        <4> QED BY <1>1, <2>3, <3>3, <4>1
      <3>7. ASSUME NEW m \in 1..Len(history'), NEW n \in 1..Len(history'), m < n,
                   n \notin 1..Len(history)
            PROVE  history'[m][1] <= history'[n][1]
        <4>1. ~ UNCHANGED history
          BY <3>7
        <4>2. /\ \A i \in 1..Len(history) : history'[i] = history[i]
              /\ history'[Len(history) + 1] = <<index, NoKey>>
              /\ \A i \in 1..Len(history') : i \in 1..Len(history) \/ i = Len(history) + 1
          BY <1>6, <4>1, ControlRuns
        <4>3. n = Len(history) + 1 /\ m \in 1..Len(history)
          BY <1>h, <3>7, <4>2
        <4>4. history'[m][1] < index /\ history'[m][1] \in Nat /\ history'[n][1] = index
          BY <1>h, <1>u, <2>2, <3>3, <4>2, <4>3
        <4> QED BY <1>1, <4>4
      <3>8. PipelineOrderKept'
        BY <3>7, OrderStays
      <3> QED BY <2>1, <3>2, <3>6, <3>8 DEF SequenceOK
    <2> QED BY <2>4, <2>5
  <1>7. CASE WaveEnds
    <2>1. /\ tasks' = {} /\ wave' = {} /\ where' = "route" /\ UNCHANGED <<history, stranded, index>>
          /\ where \in {"wave", "flush"}
      BY <1>7 DEF WaveEnds
    <2>2. \A v \in Units : Out(v) => v[1] < index
      BY <1>0, <2>1 DEF SequenceOK
    <2> QED BY <1>3, <2>1, <2>2
  <1>8. CASE Gathers
    <2>1. /\ UNCHANGED <<history, stranded, wave>> /\ where = "gather" /\ tasks' = {}
          /\ where' = "route" /\ index' = index + 1
      BY <1>8 DEF Gathers, Rest
    <2>2. wave = {}
      BY <1>0, <2>1 DEF WaveOK
    <2>3. \A v \in Units : Out(v) => v[1] <= index
      BY <1>0, <2>1 DEF SequenceOK
    <2>4. \A v \in Units : Out(v) => v[1] < index + 1
      BY <1>1, <1>u, <2>3
    <2> QED BY <1>3, <2>1, <2>2, <2>4
  <1>9. CASE Begins(tasks')
    <2>0. /\ UNCHANGED <<index, wave, history, stranded>> /\ where \in {"flush", "scatter"}
          /\ where' \in {"wave", "gather"}
      BY <1>9 DEF Begins
    <2>1. \A v \in Units : Out(v) => v[1] < index
      BY <1>0, <2>0 DEF SequenceOK
    <2>2. \A v \in Units : Out(v) => v[1] <= index
      BY <1>1, <1>u, <2>1
    <2>3. \A t \in tasks' : \A u \in Has(t) : \A v \in Units : Out(v) => Before(v, u)
      <3>1. CASE where = "flush" /\ Planned(tasks', WaveUnits)
        <4>1. WaveUnits = {<<i, TheKey(i)>> : i \in wave}
          BY <1>0, WaveUnitsAre
        <4>2. \A u \in WaveUnits : u[1] \in wave
          BY <4>1
        <4>3. \A u \in WaveUnits : \A v \in Units : Out(v) => v[1] < u[1] /\ u[1] \in Nat
          BY <1>0, <1>1, <3>1, <4>2 DEF SequenceOK
        <4>4. \A u \in WaveUnits : \A v \in Units : Out(v) => v[1] <= u[1]
          BY <1>u, <4>3
        <4>5. \A t \in tasks' : Has(t) \subseteq WaveUnits
          BY <3>1 DEF Planned
        <4> QED BY <4>4, <4>5 DEF Before
      <3>2. CASE where = "scatter" /\ Planned(tasks', UnitsOf(index))
        <4>1. index \in 1..Len(pipeline)
          BY <1>0, <3>2, TheCommands DEF WaveOK, BatchTypes
        <4>2. \A u \in UnitsOf(index) : u[1] = index
          BY <1>0, <4>1, UnitsAre
        <4>3. \A t \in tasks' : Has(t) \subseteq UnitsOf(index)
          BY <3>2 DEF Planned
        <4> QED BY <2>2, <4>2, <4>3 DEF Before
      <3> QED BY <1>9, <3>1, <3>2 DEF Begins
    <2>4. PipelineOrderKept' /\ \A v : Out(v)' = Out(v)
      BY <1>o, <2>0
    <2>5. \A t \in tasks' : \A u \in Has(t) : \A v \in Units : Out(v)' => v \in Has(t) \/
            Before(v, u)
      BY <2>3, <2>4
    <2>6. \A v \in Units : Out(v)' => IF where' = "gather" THEN v[1] <= index' ELSE v[1] < index'
      BY <2>0, <2>1, <2>2, <2>4
    <2> QED BY <2>0, <2>4, <2>5, <2>6 DEF SequenceOK, Has, RangeOf, Before
  <1>10. ASSUME NEW t \in tasks, LoopStays, UNCHANGED <<history, stranded>>,
                \A s \in tasks' : \/ s \in tasks
                                  \/ Has(s) \subseteq Has(t) /\ \A u \in Has(t) : ~ Out(u)
         PROVE  SequenceOK'
    <2>1. ASSUME NEW s \in tasks', NEW u \in Has(s), NEW v \in Units, Out(v)
          PROVE  v \in Has(s) \/ Before(v, u)
      <3>1. CASE s \in tasks
        BY <1>0, <2>1, <3>1 DEF SequenceOK
      <3>2. CASE Has(s) \subseteq Has(t) /\ \A w \in Has(t) : ~ Out(w)
        <4>1. v \notin Has(t)
          BY <2>1, <3>2
        <4> QED BY <1>0, <2>1, <3>2, <4>1 DEF SequenceOK
      <3> QED BY <1>10, <3>1, <3>2
    <2>2. PipelineOrderKept' /\ \A v : Out(v)' = Out(v)
      BY <1>o, <1>10
    <2> QED BY <1>0, <1>10, <2>1, <2>2 DEF SequenceOK, LoopStays, Has, RangeOf, Before
  <1>11. ASSUME NEW t \in tasks, NEW new, Replaces(t, new) PROVE SequenceOK'
    <2>1. /\ LoopStays /\ UNCHANGED <<history, stranded>> /\ Refused(t)
          /\ tasks' = (tasks \ {t}) \cup new /\ \A s \in new : Has(s) \subseteq Has(t)
      BY <1>11 DEF Replaces
    <2> QED BY <1>10, <2>1, RefusedNotRun
  <1>12. ASSUME NEW t \in tasks, Ends(t) PROVE SequenceOK'
    BY <1>10, <1>12 DEF Ends
  <1>13. ASSUME NEW t \in tasks, NEW more, NEW done, Serves(t, more, done) PROVE SequenceOK'
    <2> DEFINE s == After(t, more)
               a == Len(t.answers)
    <2>1. /\ Has(s) = Has(t) /\ tasks' = (tasks \ {t}) \cup {s} /\ LoopStays
      BY <1>13, ServedTask DEF Serves, After
    <2> HIDE DEF s
    <2>2. /\ a \in Nat /\ Len(t.units) \in Nat /\ done \in Nat
          /\ \A m \in 1..Len(history) : history'[m] = history[m]
          /\ \A j \in 1..done : /\ history'[Len(history) + j] = t.units[a + j]
                                /\ a + j \in 1..Len(t.units)
          /\ \A m \in 1..Len(history') : \/ m \in 1..Len(history)
                                         \/ \E j \in 1..done : m = Len(history) + j
      BY <1>13, ServedHistory
    <2>3. /\ t \in Task /\ TaskOK(t) /\ where \in {"wave", "gather"}
          /\ where = "wave" => \A u \in Has(t) : u[1] \in wave
          /\ where = "gather" => \A u \in Has(t) : u[1] = index
          /\ \A u \in Has(t) : u[2] \in Keys /\ u[2] # NoKey /\ u[1] \in Nat
      BY TaskKeys
    <2>4. \A i \in 1..Len(t.units) : t.units[i] \in Has(t)
      BY <2>3, HasIs
    <2>5. \A v : Out(v)' => Out(v) \/ v \in Has(t)
      <3>1. \A v : Ran(v)' => Ran(v) \/ v \in Has(t)
        BY <2>2, <2>4 DEF Ran
      <3>2. \A v : Stray(v)' => Stray(v) \/ v \in Has(t)
        <4>1. ASSUME NEW m \in 1..Len(more) PROVE t.units[a + m] \in Has(t)
          <5>1. a + Len(more) <= Len(t.units) /\ Len(more) \in Nat
            BY <1>13, LenProperties DEF Serves
          <5>2. a + m \in 1..Len(t.units)
            BY <2>2, <5>1
          <5> QED BY <2>4, <5>2
        <4>2. \A v : Stray(v)' => Stray(v) \/ \E m \in 1..Len(more) : v = t.units[a + m]
          BY <1>13 DEF Serves
        <4> QED BY <4>1, <4>2
      <3> QED BY <3>1, <3>2 DEF Out
    <2>6. ASSUME NEW m \in 1..Len(history), NEW j \in 1..done,
                 \/ history[m][2] = t.units[a + j][2]
                 \/ NoKey \in {history[m][2], t.units[a + j][2]}
          PROVE  history[m][1] <= t.units[a + j][1]
      <3>1. a + j \in 1..Len(t.units) /\ t.units[a + j] \in Has(t)
        BY <2>2, <2>4
      <3>2. CASE history[m] \in Has(t)
        <4>1. PICK i \in 1..Len(t.units) : t.units[i] = history[m]
          BY <2>3, <3>2, HasIs
        <4>2. Out(t.units[i])
          BY <1>h, <4>1
        <4>3. i <= a
          BY <4>2, NotRun
        <4>4. i < a + j
          BY <2>2, <4>3
        <4> QED BY <2>3, <3>1, <4>1, <4>4 DEF TaskOK
      <3>3. CASE Before(history[m], t.units[a + j])
        BY <2>3, <2>6, <3>1, <3>3 DEF Before
      <3> QED BY <1>0, <1>h, <3>1, <3>2, <3>3 DEF SequenceOK
    <2>7. ASSUME NEW i \in 1..done, NEW j \in 1..done, i < j
          PROVE  t.units[a + i][1] <= t.units[a + j][1]
      <3>1. a + i \in 1..Len(t.units) /\ a + j \in 1..Len(t.units)
        BY <2>2
      <3>2. a + i < a + j
        BY <2>2, <2>7
      <3> QED BY <2>3, <3>1, <3>2 DEF TaskOK
    <2>8. ASSUME NEW m \in 1..Len(history'), NEW n \in 1..Len(history'), m < n,
                 n \notin 1..Len(history),
                 \/ history'[m][2] = history'[n][2]
                 \/ NoKey \in {history'[m][2], history'[n][2]}
          PROVE  history'[m][1] <= history'[n][1]
      <3>0. PICK j \in 1..done : n = Len(history) + j
        BY <2>2, <2>8
      <3>1. history'[n] = t.units[a + j]
        BY <2>2, <3>0
      <3>2. CASE m \in 1..Len(history)
        <4>1. history'[m] = history[m]
          BY <2>2, <3>2
        <4> QED BY <2>6, <2>8, <3>1, <3>2, <4>1
      <3>3. CASE \E i \in 1..done : m = Len(history) + i
        <4>1. PICK i \in 1..done : m = Len(history) + i
          BY <3>3
        <4>2. i < j
          BY <1>h, <2>2, <2>8, <3>0, <4>1
        <4>3. history'[m] = t.units[a + i]
          BY <2>2, <4>1
        <4> QED BY <2>7, <3>1, <4>2, <4>3
      <3> QED BY <2>2, <3>2, <3>3
    <2>10. PipelineOrderKept'
      BY <2>8, OrderStays
    <2>11. ASSUME NEW v \in Units, Out(v)'
           PROVE  IF where = "gather" THEN v[1] <= index ELSE v[1] < index
      <3>1. CASE Out(v)
        BY <1>0, <3>1 DEF SequenceOK
      <3>2. CASE v \in Has(t)
        BY <1>1, <2>3, <3>2
      <3> QED BY <2>5, <2>11, <3>1, <3>2
    <2>12. ASSUME NEW r \in tasks', NEW u \in Has(r), NEW v \in Units, Out(v)'
           PROVE  v \in Has(r) \/ Before(v, u)
      <3>1. CASE Out(v)
        <4>1. CASE r \in tasks
          BY <1>0, <3>1, <4>1 DEF SequenceOK
        <4>2. CASE r = s
          BY <1>0, <2>1, <3>1, <4>2 DEF SequenceOK
        <4> QED BY <2>1, <4>1, <4>2
      <3>2. CASE v \in Has(t)
        <4>1. CASE r = s
          BY <2>1, <3>2, <4>1
        <4>2. CASE r \in tasks /\ r # t
          <5>1. v[2] # u[2]
            BY <3>2, <4>2 DEF BatchInv, TasksOK
          <5>2. v[2] # NoKey
            BY <2>3, <3>2
          <5> QED BY <5>1, <5>2 DEF Before
        <4> QED BY <2>1, <4>1, <4>2
      <3> QED BY <2>5, <2>12, <3>1, <3>2
    <2> QED BY <2>1, <2>3, <2>10, <2>11, <2>12 DEF SequenceOK, LoopStays, Has, RangeOf, Before
  <1> QED BY <1>2, <1>4, <1>5, <1>6, <1>7, <1>8, <1>9, <1>11, <1>12, <1>13 DEF Effect, TaskEffect


LEMMA AnsweredKept ==
    ASSUME BatchInv, LayoutsOK, Effect
    PROVE  AnsweredOK'
  <1>0. BatchTypes /\ WaveOK /\ AnsweredOK
    BY DEF BatchInv
  <1>1. /\ index \in Nat /\ wave \subseteq 1..(index - 1)
        /\ \A i \in 1..(index - 1) : i \in 1..Len(pipeline)
    BY <1>0, TheCommands DEF WaveOK, BatchTypes
  <1>2. \A i : UnitsOf(i)' = UnitsOf(i)
    BY UnitsStay
  <1>3. /\ \A i \in 1..(index - 1) : UnitsOf(i) \subseteq Units /\ \A u \in UnitsOf(i) : u[1] = i
        /\ \A i \in wave : UnitsOf(i) = {<<i, TheKey(i)>>}
    BY <1>0, <1>1, UnitsAre, WaveUnitsAre
  \* The commands behind the loop, while it does not move on.
  <1>4. ASSUME index' = index, wave' = wave,
               \A u \in Units : told[u] # "none" => told'[u] # "none",
               where' = "wave" => \A i \in wave : \A u \in UnitsOf(i) : Settled(u)',
               where' = "gather" => \A u \in UnitsOf(index) : Settled(u)'
        PROVE  AnsweredOK'
    <2>1. \A i \in 1..(index - 1) : i \notin wave => \A u \in UnitsOf(i) : told'[u] # "none"
      BY <1>0, <1>3, <1>4 DEF AnsweredOK
    <2>2. /\ where' = "wave" => \A i \in wave' : \A u \in UnitsOf(i)' : Settled(u)'
          /\ where' = "gather" => \A u \in (UnitsOf(index))' : Settled(u)'
      <3>1. (UnitsOf(index))' = UnitsOf(index)
        BY <1>2, <1>4 DEF UnitsOf
      <3> QED BY <1>2, <1>4, <3>1
    <2> QED BY <1>2, <1>4, <2>1, <2>2 DEF AnsweredOK
  \* The loop moves on from a command that has its answer, or joins the wave.
  <1>5. ASSUME index' = index + 1, where' = "route", wave \subseteq wave',
               \A u \in Units : told[u] # "none" => told'[u] # "none",
               index \in wave' \/ \A u \in UnitsOf(index) : told'[u] # "none"
        PROVE  AnsweredOK'
    <2>1. ASSUME NEW i \in 1..(index' - 1), i \notin wave', NEW u \in UnitsOf(i)
          PROVE  told'[u] # "none"
      <3>1. CASE i = index
        BY <1>5, <2>1, <3>1
      <3>2. CASE i # index
        <4>1. i \in 1..(index - 1) /\ i \notin wave
          BY <1>1, <1>5, <2>1, <3>2
        <4>2. told[u] # "none" /\ u \in Units
          BY <1>0, <1>3, <2>1, <4>1 DEF AnsweredOK
        <4> QED BY <1>5, <4>2
      <3> QED BY <3>1, <3>2
    <2>2. \A i \in 1..(index' - 1) : i \notin wave' => \A u \in UnitsOf(i)' : told'[u] # "none"
      BY <1>2, <2>1
    <2> QED BY <1>5, <2>2 DEF AnsweredOK
  <1>6. CASE Looks
    <2>1. UNCHANGED <<index, wave, where, told, tasks>>
      BY <1>6 DEF Looks, Rest, LoopStays
    <2>2. \A u : Settled(u) => Settled(u)'
      BY <2>1 DEF Settled
    <2> QED BY <1>0, <1>4, <2>1, <2>2 DEF AnsweredOK
  <1>7. CASE Joins
    BY <1>5, <1>7 DEF Joins, Rest
  <1>8. CASE Turns
    <2>1. UNCHANGED <<index, wave, told>> /\ where' \notin {"wave", "gather"}
      BY <1>8 DEF Turns, Rest
    <2> QED BY <1>4, <2>1
  <1>9. ASSUME NEW what, Passes(what) PROVE AnsweredOK'
    <2>1. where' = "route" /\ wave' = wave /\ index' = index + 1
      BY <1>9 DEF Passes
    <2>2. /\ \A u \in UnitsOf(index) : told'[u] = what
          /\ \A u \in Units : u \notin UnitsOf(index) => told'[u] = told[u]
          /\ what \in {"ok", "not", "unknown"}
      BY <1>9, PassedUnits
    <2> QED BY <1>5, <2>1, <2>2
  <1>10. CASE WaveEnds
    <2>1. index' = index /\ wave' = {} /\ where' = "route" /\ tasks = {}
      BY <1>10 DEF WaveEnds
    <2>2. ASSUME NEW i \in 1..(index - 1), NEW u \in UnitsOf(i) PROVE told'[u] # "none"
      <3>0. u \in Units
        BY <1>3
      <3>1. CASE where = "wave" /\ UNCHANGED told
        <4>1. CASE i \in wave
          BY <1>0, <2>1, <3>1, <4>1 DEF AnsweredOK, Settled
        <4>2. CASE i \notin wave
          BY <1>0, <3>1, <4>2 DEF AnsweredOK
        <4> QED BY <4>1, <4>2
      <3>2. CASE where = "flush"
        <4>1. /\ \A v \in WaveUnits : told'[v] = "not"
              /\ \A v \in Units : v \notin WaveUnits => told'[v] = told[v]
          BY <1>10, <3>2, FailedWave
        <4>2. CASE i \in wave
          <5>1. u \in WaveUnits
            BY <2>2, <4>2 DEF WaveUnits
          <5> QED BY <4>1, <5>1
        <4>3. CASE i \notin wave
          <5>1. told[u] # "none"
            BY <1>0, <4>3 DEF AnsweredOK
          <5> QED BY <3>0, <4>1, <5>1
        <4> QED BY <4>2, <4>3
      <3> QED BY <1>10, <3>1, <3>2 DEF WaveEnds
    <2>3. \A i \in 1..(index' - 1) : \A u \in UnitsOf(i)' : told'[u] # "none"
      BY <1>2, <2>1, <2>2
    <2> QED BY <2>1, <2>3 DEF AnsweredOK
  <1>11. CASE Gathers
    <2>1. /\ index' = index + 1 /\ where' = "route" /\ where = "gather"
          /\ UNCHANGED <<wave, told>> /\ tasks = {}
      BY <1>11 DEF Gathers, Rest
    <2>2. \A u \in UnitsOf(index) : told'[u] # "none"
      BY <1>0, <2>1 DEF AnsweredOK, Settled
    <2> QED BY <1>5, <2>1, <2>2
  <1>12. CASE Begins(tasks')
    <2>1. UNCHANGED <<index, wave, told>>
      BY <1>12 DEF Begins
    <2>2. CASE where' = "wave" /\ Planned(tasks', WaveUnits)
      <3>1. \A i \in wave : \A u \in UnitsOf(i) : u \in WaveUnits
        BY DEF WaveUnits
      <3>2. \A u \in WaveUnits : Settled(u)'
        BY <2>2 DEF Planned, Settled
      <3> QED BY <1>4, <2>1, <2>2, <3>1, <3>2
    <2>3. CASE where' = "gather" /\ Planned(tasks', UnitsOf(index))
      <3>1. \A u \in UnitsOf(index) : Settled(u)'
        BY <2>3 DEF Planned, Settled
      <3> QED BY <1>4, <2>1, <2>3, <3>1
    <2> QED BY <1>12, <2>2, <2>3 DEF Begins
  <1>13. ASSUME NEW t \in tasks, LoopStays,
                \A u \in Units : told[u] # "none" => told'[u] # "none",
                \A u \in Has(t) : Settled(u)', tasks \ {t} \subseteq tasks'
         PROVE  AnsweredOK'
    <2>1. \A u \in Units : Settled(u) => Settled(u)'
      BY <1>13 DEF Settled
    <2>2. where = "wave" => \A i \in wave : \A u \in UnitsOf(i) : u \in Units /\ Settled(u)
      BY <1>0, <1>1, <1>3 DEF AnsweredOK
    <2>3. where = "gather" => \A u \in UnitsOf(index) : u \in Units /\ Settled(u)
      <3> SUFFICES ASSUME where = "gather" PROVE \A u \in UnitsOf(index) : u \in Units /\ Settled(u)
        OBVIOUS
      <3>1. index \in 1..Len(pipeline)
        BY <1>0, TheCommands DEF WaveOK, BatchTypes
      <3>2. UnitsOf(index) \subseteq Units
        BY <1>0, <3>1, UnitsAre
      <3> QED BY <1>0, <3>2 DEF AnsweredOK
    <2> QED BY <1>4, <1>13, <2>1, <2>2, <2>3 DEF LoopStays
  <1>14. ASSUME NEW t \in tasks, NEW new, Replaces(t, new) PROVE AnsweredOK'
    <2>1. /\ LoopStays /\ UNCHANGED told /\ tasks' = (tasks \ {t}) \cup new
          /\ \A u \in Has(t) : \E s \in new : u \in Has(s)
      BY <1>14 DEF Replaces
    <2>2. \A u \in Has(t) : Settled(u)'
      BY <2>1 DEF Settled
    <2> QED BY <1>13, <2>1, <2>2
  <1>15. ASSUME NEW t \in tasks, NEW more, NEW done, Serves(t, more, done) PROVE AnsweredOK'
    <2>1. /\ LoopStays /\ UNCHANGED told /\ tasks' = (tasks \ {t}) \cup {After(t, more)}
          /\ Has(After(t, more)) = Has(t)
      BY <1>15, ServedTask DEF Serves, After
    <2>2. \A u \in Has(t) : Settled(u)'
      BY <2>1 DEF Settled
    <2> QED BY <1>13, <2>1, <2>2
  <1>16. ASSUME NEW t \in tasks, Ends(t) PROVE AnsweredOK'
    <2>1. /\ LoopStays /\ tasks' = tasks \ {t} /\ \A u \in Has(t) : told'[u] # "none"
          /\ \A u \in Units \ Has(t) : told'[u] = told[u]
      BY <1>16 DEF Ends
    <2>2. \A u \in Has(t) : Settled(u)'
      BY <2>1 DEF Settled
    <2>3. \A u \in Units : told[u] # "none" => told'[u] # "none"
      BY <2>1
    <2> QED BY <1>13, <2>1, <2>2, <2>3
  <1> QED BY <1>6, <1>7, <1>8, <1>9, <1>10, <1>11, <1>12, <1>14, <1>15, <1>16
          DEF Effect, TaskEffect

\* A task has as many units as places.
LEMMA HasCount ==
    ASSUME NEW t \in Task, TaskOK(t)
    PROVE  IsFiniteSet(Has(t)) /\ Cardinality(Has(t)) = Len(t.units)
  <1> DEFINE s == t.units
             n == Len(t.units)
  <1>1. /\ n \in Nat /\ DOMAIN s = 1..n /\ \A m \in 1..n : s[m] \in Has(t)
        /\ \A u \in Has(t) : \E m \in 1..n : s[m] = u
    BY HasIs
  <1>2. s \in [1..n -> Has(t)]
    <2>1. s \in Seq(Units)
      BY TaskFields
    <2>2. s = [m \in 1..n |-> s[m]]
      BY <1>1, <2>1
    <2> HIDE DEF s, n
    <2> QED BY <1>1, <2>2
  <1>3. \A i, j \in 1..n : s[i] = s[j] => i = j
    <2> SUFFICES ASSUME NEW i \in 1..n, NEW j \in 1..n, s[i] = s[j], i # j PROVE FALSE
      OBVIOUS
    <2>1. i < j \/ j < i
      BY <1>1
    <2>2. \A k, m \in 1..n : k < m => s[k] # s[m]
      BY DEF TaskOK
    <2> HIDE DEF s, n
    <2> QED BY <2>1, <2>2
  <1> HIDE DEF s, n
  <1>4. s \in Bijection(1..n, Has(t))
    BY <1>1, <1>2, <1>3 DEF Bijection, Injection, Surjection, IsInjective
  <1>5. ExistsBijection(1..n, Has(t))
    BY <1>4 DEF ExistsBijection
  <1>6. IsFiniteSet(Has(t))
    BY <1>1, <1>5, FS_NatBijection
  <1>7. Cardinality(Has(t)) = n
    BY <1>1, <1>5, FS_CountingElements
  <1> QED BY <1>6, <1>7 DEF n

LEMMA UnitsFinite ==
    ASSUME BatchTypes, NEW i \in 1..Len(pipeline)
    PROVE  IsFiniteSet(UnitsOf(i))
  <1> DEFINE K == IF pipeline[i].kind = "control" THEN {NoKey} ELSE pipeline[i].keys
  <1>1. IsFiniteSet(K) /\ IsFiniteSet({i})
    BY UnitsAre, FS_Singleton
  <1>2. UnitsOf(i) = {i} \X K
    BY DEF UnitsOf
  <1> HIDE DEF K
  <1> QED BY <1>1, <1>2, FS_Product

LEMMA CountKept ==
    ASSUME BatchInv, LayoutsOK, Effect
    PROVE  CountOK'
  <1>0. BatchTypes /\ WaveOK /\ CountOK
    BY DEF BatchInv
  <1> DEFINE Succeeded == {u \in UnitsOf(index) : told[u] = "ok"}
  <1>1. ASSUME where' = "gather", index' = index,
               total' = Cardinality({u \in UnitsOf(index) : told'[u] = "ok"}),
               ~ failed' => \A u \in UnitsOf(index) : told'[u] \in {"none", "ok"}
        PROVE  CountOK'
    <2>1. (UnitsOf(index))' = UnitsOf(index)
      BY <1>1, UnitsStay DEF UnitsOf
    <2> QED BY <1>1, <2>1 DEF CountOK
  <1>2. where' # "gather" => CountOK'
    BY DEF CountOK
  <1>3. CASE Joins \/ Turns \/ WaveEnds \/ Gathers \/ \E what : Passes(what)
    BY <1>2, <1>3 DEF Joins, Turns, WaveEnds, Gathers, Passes
  <1>4. ASSUME UNCHANGED <<where, index, told, total, failed>> PROVE CountOK'
    BY <1>0, <1>1, <1>2, <1>4 DEF CountOK
  <1>5. CASE Begins(tasks')
    <2>1. CASE where = "scatter" /\ where' = "gather" /\ total' = 0
      <3>1. index \in 1..Len(pipeline)
        BY <1>0, <2>1, TheCommands DEF WaveOK, BatchTypes
      <3>2. \A u \in UnitsOf(index) : told[u] = "none"
        <4>1. UnitsOf(index) \subseteq Units /\ \A u \in UnitsOf(index) : u[1] = index
          BY <1>0, <3>1, UnitsAre
        <4> QED BY <2>1, <4>1 DEF BatchInv, FreshOK
      <3>3. told' = told /\ index' = index
        BY <1>5 DEF Begins
      <3>4. {u \in UnitsOf(index) : told'[u] = "ok"} = {}
        BY <3>2, <3>3
      <3>5. Cardinality({u \in UnitsOf(index) : told'[u] = "ok"}) = 0
        BY <3>4, FS_EmptySet
      <3> QED BY <1>1, <2>1, <3>2, <3>3, <3>5
    <2>2. CASE where' = "wave"
      BY <1>2, <2>2
    <2> QED BY <1>5, <2>1, <2>2 DEF Begins
  <1>6. ASSUME NEW t \in tasks, Ends(t), where' = "gather" PROVE CountOK'
    <2>1. /\ LoopStays /\ told' \in [Units -> Results]
          /\ \A u \in Units \ Has(t) : told'[u] = told[u]
          /\ \/ failed' /\ total' = total /\ \A u \in Has(t) : told'[u] # "ok"
             \/ /\ failed' = failed /\ total' = total + Len(t.units)
                /\ \A u \in Has(t) : told'[u] = "ok"
      BY <1>6 DEF Ends, LoopStays
    <2>2. where = "gather" /\ index' = index
      BY <1>6, <2>1 DEF LoopStays
    <2>3. index \in 1..Len(pipeline)
      BY <1>0, <2>2, TheCommands DEF WaveOK, BatchTypes
    <2>4. UnitsOf(index) \subseteq Units /\ IsFiniteSet(UnitsOf(index))
      BY <1>0, <2>3, UnitsAre, UnitsFinite
    <2>5. total = Cardinality(Succeeded) /\ (~ failed => \A u \in UnitsOf(index) :
            told[u] \in {"none", "ok"})
      BY <1>0, <2>2 DEF CountOK
    <2>6. /\ t \in Task /\ TaskOK(t) /\ \A u \in Has(t) : told[u] = "none"
          /\ Has(t) \subseteq UnitsOf(index)
      <3>1. /\ t \in Task /\ TaskOK(t) /\ \A u \in Has(t) : told[u] = "none" /\ u \in Units
        BY TaskKeys
      <3>2. /\ \A u \in Has(t) : u[1] = index /\ u[2] \in Command.keys
            /\ Command.kind = "scatter"
        BY <2>2 DEF BatchInv, TasksOK, WaveOK
      <3>3. UnitsOf(index) = {index} \X Command.keys
        BY <1>0, <2>3, <3>2, UnitsAre DEF Command
      <3>4. \A u \in Has(t) : u \in UnitsOf(index)
        BY <3>1, <3>2, <3>3 DEF Units
      <3> QED BY <3>1, <3>4
    <2>7. CASE failed' /\ total' = total /\ \A u \in Has(t) : told'[u] # "ok"
      <3>1. {u \in UnitsOf(index) : told'[u] = "ok"} = Succeeded
        BY <2>1, <2>4, <2>6, <2>7
      <3> QED BY <1>1, <1>6, <2>2, <2>5, <2>7, <3>1
    <2>8. CASE /\ failed' = failed /\ total' = total + Len(t.units)
               /\ \A u \in Has(t) : told'[u] = "ok"
      <3>1. {u \in UnitsOf(index) : told'[u] = "ok"} = Succeeded \cup Has(t)
        BY <2>1, <2>4, <2>6, <2>8
      <3>2. Succeeded \cap Has(t) = {}
        BY <2>6
      <3>3. IsFiniteSet(Succeeded)
        <4>1. Succeeded \in SUBSET UnitsOf(index)
          OBVIOUS
        <4> QED BY <2>4, <4>1, FS_Subset
      <3>4. IsFiniteSet(Has(t)) /\ Cardinality(Has(t)) = Len(t.units)
        BY <2>6, HasCount
      <3> HIDE DEF Succeeded
      <3>5. Cardinality(Succeeded \cup Has(t)) = Cardinality(Succeeded) + Cardinality(Has(t)) - 0
        <4>1. Cardinality(Succeeded \cap Has(t)) = 0
          BY <3>2, FS_EmptySet
        <4>2. Cardinality(Succeeded \cup Has(t))
                = Cardinality(Succeeded) + Cardinality(Has(t)) - Cardinality(Succeeded \cap Has(t))
          BY <3>3, <3>4, FS_Union
        <4> QED BY <4>1, <4>2
      <3>6. total' = Cardinality(Succeeded \cup Has(t))
        <4>1. Cardinality(Succeeded) \in Nat /\ Cardinality(Has(t)) \in Nat
          BY <3>3, <3>4, FS_CardinalityType
        <4> QED BY <2>5, <2>8, <3>4, <3>5, <4>1
      <3>7. ~ failed' => \A u \in UnitsOf(index) : told'[u] \in {"none", "ok"}
        BY <2>1, <2>4, <2>5, <2>8
      <3> QED BY <1>1, <1>6, <2>2, <3>1, <3>6, <3>7
    <2> QED BY <2>1, <2>7, <2>8
  <1>7. ASSUME NEW t \in tasks, TaskEffect(t) PROVE CountOK'
    <2>1. ASSUME NEW new, Replaces(t, new) PROVE CountOK'
      BY <1>4, <2>1 DEF Replaces, LoopStays
    <2>2. ASSUME NEW more, NEW done, Serves(t, more, done) PROVE CountOK'
      BY <1>4, <2>2 DEF Serves, LoopStays
    <2> QED BY <1>2, <1>6, <1>7, <2>1, <2>2 DEF TaskEffect
  <1>8. CASE Looks
    BY <1>4, <1>8 DEF Looks, Rest, LoopStays
  <1> QED BY <1>3, <1>5, <1>7, <1>8 DEF Effect


-----------------------------------------------------------------------------
(* The invariant.                                                             *)

LEMMA BatchStarts == BatchInit => BatchInv
  <1> SUFFICES ASSUME BatchInit PROVE BatchInv
    OBVIOUS
  <1>1. /\ pipeline \in Pipelines /\ known \in {0, 1} /\ epoch = 1 /\ where = "route" /\ index = 1
        /\ wave = {} /\ snap = 0 /\ tasks = {} /\ total = 0 /\ failed = FALSE
        /\ told = [u \in Units |-> "none"] /\ history = <<>> /\ stranded = {}
    BY DEF BatchInit
  <1>2. Len(pipeline) \in Nat /\ MaxEpoch \in Nat \ {0}
    <2>1. pipeline \in Seq(Spoken)
      BY <1>1, BatchConstants
    <2> HIDE DEF Spoken
    <2> QED BY <2>1, LenProperties, BatchConstants
  <1>3. Len(history) = 0 /\ history \in Seq(Units)
    BY <1>1
  <1>4. BatchTypes
    <2>1. known \in 0..MaxEpoch /\ epoch \in 1..MaxEpoch /\ snap \in 0..MaxEpoch
      BY <1>1, <1>2
    <2>a. index \in 1..(Len(pipeline) + 1) /\ total \in Nat
      BY <1>1, <1>2
    <2>b. failed \in BOOLEAN
      BY <1>1, Zenon
    <2>2. index \in 1..(Len(pipeline) + 1) /\ total \in Nat /\ failed \in BOOLEAN
      BY <2>a, <2>b
    <2>3. told \in [Units -> {"none", "ok", "not", "unknown"}]
      BY <1>1
    <2>4. where \in BatchPlaces /\ tasks \subseteq Task
      BY <1>1 DEF BatchPlaces
    <2> QED BY <1>1, <1>3, <2>1, <2>2, <2>3, <2>4 DEF BatchTypes
  <1>5. WaveOK
    BY <1>1 DEF WaveOK, Routes, WaveKeys
  <1>6. TasksOK
    BY <1>1 DEF TasksOK
  <1>7. HistoryOK
    BY <1>3 DEF HistoryOK
  <1>8. TrueOK
    BY <1>1 DEF TrueOK
  <1>9. FreshOK
    BY <1>1 DEF FreshOK
  <1>10. PipelineOrderKept
    BY <1>1 DEF PipelineOrderKept
  <1>a. \A u : ~ Ran(u) /\ ~ Stray(u)
    BY <1>1, <1>3 DEF Ran, Stray
  <1>b. StrandedOK
    BY <1>1, <1>a DEF StrandedOK, StrandedSound
  <1>11. SequenceOK
    BY <1>1, <1>10, <1>a DEF SequenceOK, Out
  <1>12. AnsweredOK
    BY <1>1 DEF AnsweredOK
  <1>13. CountOK
    BY <1>1 DEF CountOK
  <1> QED BY <1>4, <1>5, <1>6, <1>7, <1>8, <1>9, <1>11, <1>12, <1>13, <1>b
          DEF BatchInv

\* What nobody waits for changes nothing but what the servers have executed.
LEMMA StraysKept ==
    ASSUME BatchInv, LayoutsOK, Strays
    PROVE  BatchInv'
  <1>0. BatchTypes /\ WaveOK /\ TasksOK /\ FreshOK /\ AnsweredOK /\ CountOK /\ SequenceOK
    BY DEF BatchInv
  <1>1. /\ UNCHANGED <<where, index, wave, snap, tasks, told, total, failed>>
        /\ pipeline' = pipeline /\ \A i : UnitsOf(i)' = UnitsOf(i) /\ TheKey(i)' = TheKey(i)
    BY UnitsStay DEF Strays, LoopStays
  <1>2. /\ history' \in Seq(Units) /\ Len(history) <= Len(history')
        /\ Len(history) \in Nat /\ Len(history') \in Nat
        /\ \A m \in 1..Len(history) : history'[m] = history[m] /\ history[m] \in Units
        /\ \A m \in 1..Len(history') : history'[m] \in Units
    <2>1. history \in Seq(Units) /\ history' \in Seq(Units)
      BY <1>0 DEF BatchTypes, Strays
    <2> QED BY <2>1, LenProperties, ElementOfSeq DEF Strays
  <1>3. BatchTypes'
    BY <1>0, <1>1, <1>2 DEF BatchTypes, LayoutsOK
  <1>4. WaveOK' /\ TasksOK' /\ FreshOK' /\ AnsweredOK' /\ CountOK'
    <2>1. WaveKeys' = WaveKeys /\ Command' = Command /\ Routes(snap, WaveKeys)' = Routes(snap,
            WaveKeys)
      BY <1>1 DEF WaveKeys, Command, Routes
    <2>2. WaveOK'
      BY <1>0, <1>1, <2>1 DEF WaveOK
    <2>3. TasksOK'
      BY <1>0, <1>1, <2>1 DEF TasksOK, TaskOK, Has, RangeOf
    <2>4. FreshOK'
      BY <1>0, <1>1 DEF FreshOK, Has, RangeOf
    <2>5. AnsweredOK'
      BY <1>0, <1>1 DEF AnsweredOK, Settled, Has, RangeOf
    <2>6. CountOK'
      BY <1>0, <1>1 DEF CountOK
    <2> QED BY <2>2, <2>3, <2>4, <2>5, <2>6
  <1>5. \A u : (Ran(u) => Ran(u)') /\ (Out(u)' => Out(u))
    <2>1. \A u : Ran(u) => Ran(u)'
      BY <1>2 DEF Ran
    <2>2. \A u : Ran(u)' => Ran(u) \/ Stray(u)
      BY <1>2 DEF Ran, Strays
    <2>3. \A u : Stray(u)' => Stray(u)
      BY DEF Strays
    <2> QED BY <2>1, <2>2, <2>3 DEF Out
  <1>6. \A m \in 1..Len(history') : m \in 1..Len(history) \/ Uncertain(history'[m])
    BY <1>2 DEF Strays, BatchInv, StrandedOK
  <1>7. HistoryOK'
    <2>1. ASSUME NEW m \in 1..Len(history')
          PROVE  told[history'[m]] \in {"ok", "unknown"} \/ Reported(history[m])'
      <3>p. PICK u : u = history'[m]
        OBVIOUS
      <3>1. told[u] \in {"ok", "unknown"} \/ Reported(u)
        <4>1. CASE m \in 1..Len(history)
          BY <1>2, <3>p, <4>1 DEF BatchInv, HistoryOK
        <4>2. CASE Uncertain(u)
          BY <4>2 DEF Uncertain, Reported
        <4> QED BY <1>6, <3>p, <4>1, <4>2
      <3>2. Reported(u) => Reported(history[m])'
        BY <1>1, <3>p DEF Reported
      <3> QED BY <3>1, <3>2, <3>p
    <2>2. \A m, n \in 1..Len(history') : m # n => history'[m] # history'[n]
      BY DEF Strays
    <2> QED BY <1>1, <2>1, <2>2 DEF HistoryOK
  <1>8. StrandedOK'
    <2>1. StrandedSound' /\ \A u : Stray(u)' => Stray(u) /\ ~ Ran(u)'
      BY DEF Strays
    <2>2. \A u \in Units : Uncertain(u) => Uncertain(u)'
      BY <1>1 DEF Uncertain
    <2> QED BY <2>1, <2>2 DEF BatchInv, StrandedOK
  <1>9. TrueOK'
    BY <1>1, <1>5 DEF BatchInv, TrueOK
  <1>10. PipelineOrderKept'
    <2>1. DOMAIN history' = 1..Len(history') /\ DOMAIN history = 1..Len(history)
      BY <1>0, <1>2 DEF BatchTypes
    <2>2. ASSUME NEW m \in 1..Len(history'), NEW n \in 1..Len(history'), m < n,
                 \/ history'[m][2] = history'[n][2]
                 \/ NoKey \in {history'[m][2], history'[n][2]}
          PROVE  history'[m][1] <= history'[n][1] \/ Uncertain(history[n])'
      <3>p. PICK u : u = history'[n]
        OBVIOUS
      <3>1. history'[m][1] <= history'[n][1] \/ Uncertain(u)
        <4>1. CASE n \in 1..Len(history)
          <5>1. m \in 1..Len(history)
            BY <1>2, <2>2, <4>1
          <5> QED BY <1>0, <1>2, <2>1, <2>2, <3>p, <4>1, <5>1 DEF SequenceOK, PipelineOrderKept
        <4> QED BY <1>6, <3>p, <4>1
      <3>2. Uncertain(u) => Uncertain(history[n])'
        BY <1>1, <3>p DEF Uncertain
      <3> QED BY <3>1, <3>2
    <2> QED BY <2>1, <2>2 DEF PipelineOrderKept
  <1>11. SequenceOK'
    BY <1>0, <1>1, <1>5, <1>10 DEF SequenceOK, Has, RangeOf, Before
  <1> QED BY <1>3, <1>4, <1>7, <1>8, <1>9, <1>11 DEF BatchInv

LEMMA BatchKept ==
    ASSUME BatchInv, [BatchNext]_batchVars
    PROVE  BatchInv'
  <1>1. LayoutsOK /\ (Effect \/ Strays)
    BY EveryStep
  <1>2. CASE Effect
    <2>1. BatchTypes' /\ WaveOK' /\ TasksOK'
      BY <1>1, <1>2, TypesKept, WaveKept, TasksKept
    <2>2. HistoryOK' /\ StrandedOK' /\ TrueOK' /\ FreshOK'
      BY <1>1, <1>2, HistoryKept, StrandedKept, TrueKept, FreshKept
    <2>3. SequenceOK' /\ AnsweredOK' /\ CountOK'
      BY <1>1, <1>2, SequenceKept, AnsweredKept, CountKept
    <2> QED BY <2>1, <2>2, <2>3 DEF BatchInv
  <1> QED BY <1>1, <1>2, StraysKept

\* Every reachable state of a pipeline on the topology executor satisfies the invariant,
\* the types of TopologyBatch among it, for all layouts, pipelines and bounds
\* (topology_scatter.go:34).
THEOREM PipelineInvariant == BatchSpec => []BatchInv
  <1>1. BatchInit => BatchInv
    BY BatchStarts
  <1>2. BatchInv /\ [BatchNext]_batchVars => BatchInv'
    BY BatchKept
  <1> QED BY <1>1, <1>2, PTL DEF BatchSpec

-----------------------------------------------------------------------------
(* What follows.                                                              *)

LEMMA Truthful ==
    ASSUME BatchInv
    PROVE  \A u \in Units : (told[u] = "ok" => Ran(u)) /\ (told[u] = "not" => ~ Ran(u))
  <1>1. \A u \in Units : told[u] = "ok" => Ran(u)
    BY DEF BatchInv, TrueOK
  <1>2. ASSUME NEW u \in Units, told[u] = "not", Ran(u) PROVE FALSE
    <2>1. PICK m \in 1..Len(history) : history[m] = u
      BY <1>2 DEF Ran
    <2>2. Reported(u)
      BY <1>2, <2>1 DEF BatchInv, HistoryOK
    <2>3. PICK t \in tasks : \E n \in 1..Len(t.answers) : t.units[n] = u
      BY <2>2 DEF Reported
    <2>4. PICK n \in 1..Len(t.answers) : t.units[n] = u
      BY <2>3
    <2>5. t \in Task /\ TaskOK(t) /\ \A v \in Has(t) : told[v] = "none"
      BY TaskKeys
    <2>6. n \in 1..Len(t.units)
      <3>1. Len(t.answers) \in Nat /\ Len(t.units) \in Nat /\ Len(t.answers) <= Len(t.units)
        BY <2>5, HasIs DEF TaskOK
      <3> QED BY <3>1
    <2>7. u \in Has(t)
      BY <2>4, <2>5, <2>6, HasIs
    <2> QED BY <1>2, <2>5, <2>7
  <1> QED BY <1>1, <1>2

LEMMA TimesRunIs ==
    ASSUME BatchInv
    PROVE  TimesRun = [u \in Units |-> IF Ran(u) THEN 1 ELSE 0]
  <1>0. DOMAIN history = 1..Len(history) /\ \A m, n \in 1..Len(history) : m # n =>
          history[m] # history[n]
    <2>1. history \in Seq(Units)
      BY DEF BatchInv, BatchTypes
    <2>2. \A m, n \in 1..Len(history) : m # n => history[m] # history[n]
      BY DEF BatchInv, HistoryOK
    <2> QED BY <2>1, <2>2
  <1> SUFFICES ASSUME NEW u \in Units
               PROVE  Cardinality({n \in DOMAIN history : history[n] = u}) = IF Ran(u) THEN 1 ELSE 0
    BY DEF TimesRun
  <1>1. CASE Ran(u)
    <2>1. PICK m \in 1..Len(history) : history[m] = u
      BY <1>1 DEF Ran
    <2>2. {n \in DOMAIN history : history[n] = u} = {m}
      BY <1>0, <2>1
    <2>3. Cardinality({m}) = 1
      BY FS_Singleton
    <2> QED BY <1>1, <2>2, <2>3
  <1>2. CASE ~ Ran(u)
    <2>1. {n \in DOMAIN history : history[n] = u} = {}
      BY <1>0, <1>2 DEF Ran
    <2> QED BY <1>2, <2>1, FS_EmptySet
  <1> QED BY <1>1, <1>2

\* A pipeline on the topology executor implements Delivery: each command, and each key of
\* a scatter command, is executed at most once, answered once and truthfully
\* (topology_scatter.go:34, topology_scatter_retry.go:12).
THEOREM BatchImplementsDelivery == BatchSpec => BatchImplements
  <1>1. BatchInit => BatchDelivery!Init
    <2> SUFFICES ASSUME BatchInit PROVE BatchDelivery!Init
      OBVIOUS
    <2>1. BatchInv /\ history = <<>> /\ told = [u \in Units |-> "none"]
      BY BatchStarts DEF BatchInit
    <2>2. \A u \in Units : ~ Ran(u)
      BY <2>1 DEF Ran
    <2>3. TimesRun = [u \in Units |-> 0]
      BY <2>1, <2>2, TimesRunIs
    <2> QED BY <2>1, <2>3 DEF BatchDelivery!Init
  <1>a. BatchInv => /\ TimesRun = [u \in Units |-> IF Ran(u) THEN 1 ELSE 0]
                    /\ \A u \in Units : /\ told[u] = "ok" => Ran(u)
                                        /\ told[u] = "not" => ~ Ran(u)
    BY TimesRunIs, Truthful
  <1>b. BatchInv' => (/\ TimesRun = [u \in Units |-> IF Ran(u) THEN 1 ELSE 0]
                      /\ \A u \in Units : /\ told[u] = "ok" => Ran(u)
                                          /\ told[u] = "not" => ~ Ran(u))'
    BY <1>a, PTL
  <1>2. BatchInv /\ BatchInv' /\ [BatchNext]_batchVars => [BatchDelivery!Next]_BatchDelivery!vars
    <2> SUFFICES ASSUME BatchInv, BatchInv', [BatchNext]_batchVars PROVE BatchDelivery!Step
      BY DEF BatchDelivery!Next
    <2>0. LayoutsOK /\ (Effect \/ Strays)
      BY EveryStep
    <2>1. TimesRun = [u \in Units |-> IF Ran(u) THEN 1 ELSE 0]
      BY <1>a
    <2>2. /\ TimesRun' = [u \in Units |-> IF Ran(u)' THEN 1 ELSE 0]
          /\ \A u \in Units : (told'[u] = "ok" => Ran(u)') /\ (told'[u] = "not" => ~ Ran(u)')
      BY <1>b
    <2>a. ASSUME Strays PROVE UNCHANGED told /\ \A u \in Units : Ran(u) => Ran(u)'
      <3>1. Len(history) \in Nat /\ Len(history') \in Nat /\ Len(history) <= Len(history')
        BY <2>a, LenProperties DEF Strays, BatchInv, BatchTypes
      <3> QED BY <2>a, <3>1 DEF Strays, Ran
    <2>3. \A u \in Units : Ran(u) => Ran(u)'
      BY <2>0, <2>a, RanStays
    <2>4. \A u \in Units : told[u] # "none" => told'[u] = told[u]
      BY <2>0, <2>a, ToldStays
    <2>5. TimesRun' \in [Units -> {0, 1}] /\ told' \in [Units -> BatchDelivery!Outcomes]
      BY <2>2 DEF BatchInv, BatchTypes, BatchDelivery!Outcomes
    <2>6. \A u \in Units : /\ TimesRun'[u] >= TimesRun[u]
                           /\ told[u] # "none" => told'[u] = told[u]
                           /\ told'[u] = "ok" => TimesRun'[u] = 1
                           /\ told'[u] = "not" => TimesRun'[u] = 0
      BY <2>1, <2>2, <2>3, <2>4
    <2> QED BY <2>5, <2>6 DEF BatchDelivery!Step
  <1> QED BY <1>1, <1>2, PipelineInvariant, PTL DEF BatchSpec, BatchImplements, BatchDelivery!Spec

\* At the end every command has its answer.
LEMMA EndsAnswered == BatchInv => AllAnswered
  <1> SUFFICES ASSUME BatchInv, where = "end", NEW i \in DOMAIN pipeline, NEW u \in UnitsOf(i)
               PROVE  told[u] # "none"
    BY DEF AllAnswered
  <1>1. BatchTypes /\ wave = {} /\ index = Len(pipeline) + 1
    BY DEF BatchInv, WaveOK
  <1>2. pipeline \in Seq(Spoken) /\ Len(pipeline) \in Nat
    BY <1>1, TheCommands
  <1>3. i \in 1..(index - 1)
    <2> HIDE DEF Spoken
    <2>1. DOMAIN pipeline = 1..Len(pipeline)
      BY <1>2
    <2> QED BY <1>1, <1>2, <2>1
  <1> QED BY <1>1, <1>3 DEF BatchInv, AnsweredOK

\* The count of a scatter command is that of its keys whose groups have answered.
LEMMA CountIsTrue == BatchInv => SucceededIsTrue
  <1> SUFFICES ASSUME BatchInv, where = "gather", tasks = {}
               PROVE  /\ total = Cardinality({u \in UnitsOf(index) : told[u] = "ok"})
                      /\ ~ failed => total = Cardinality(UnitsOf(index))
                      /\ total <= Cardinality({u \in UnitsOf(index) : TimesRun[u] = 1})
    BY DEF SucceededIsTrue
  <1> DEFINE Succeeded == {u \in UnitsOf(index) : told[u] = "ok"}
             Done == {u \in UnitsOf(index) : TimesRun[u] = 1}
  <1>1. BatchTypes /\ index \in 1..Len(pipeline)
    BY TheCommands DEF BatchInv, WaveOK, BatchTypes
  <1>2. UnitsOf(index) \subseteq Units /\ IsFiniteSet(UnitsOf(index))
    BY <1>1, UnitsAre, UnitsFinite
  <1>3. total = Cardinality(Succeeded) /\ (~ failed => \A u \in UnitsOf(index) :
          told[u] \in {"none", "ok"})
    BY DEF BatchInv, CountOK
  <1>4. \A u \in UnitsOf(index) : told[u] # "none"
    BY DEF BatchInv, AnsweredOK, Settled
  <1>5. ASSUME ~ failed PROVE Succeeded = UnitsOf(index)
    BY <1>3, <1>4, <1>5
  <1>6. TimesRun = [u \in Units |-> IF Ran(u) THEN 1 ELSE 0]
    BY TimesRunIs
  <1>7. Succeeded \in SUBSET Done /\ IsFiniteSet(Done)
    <2>1. \A u \in Succeeded : TimesRun[u] = 1
      BY <1>2, <1>6, Truthful
    <2>2. Done \in SUBSET UnitsOf(index)
      OBVIOUS
    <2> QED BY <1>2, <2>1, <2>2, FS_Subset
  <1> HIDE DEF Done
  <1>8. Cardinality(Succeeded) <= Cardinality(Done)
    BY <1>7, FS_Subset
  <1> QED BY <1>3, <1>5, <1>8 DEF Done

\* Two commands on one key are executed in the order of the pipeline, unless the outcome of
\* the one that comes late is not known; every command has its answer at the end, and the
\* count of a scatter command is true (topology_scatter.go:89, topology_scatter_command.go:24).
THEOREM PipelinesKept == BatchSpec => [](PipelineOrderKept /\ AllAnswered /\ SucceededIsTrue)
  <1>1. BatchInv => PipelineOrderKept
    BY DEF BatchInv, SequenceOK
  <1> QED BY <1>1, EndsAnswered, CountIsTrue, PipelineInvariant, PTL

-----------------------------------------------------------------------------
(* All of them.                                                               *)

\* Whatever lies below it, an executor executes a command at most once, answers it once
\* and truthfully (buffered.go:157, http_executor.go:246, topology_scatter.go:34).
THEOREM ExecutorsImplementDelivery ==
    BufferedSpec /\ HttpSpec /\ BatchSpec => ImplementsDelivery
  BY BufferedImplementsDelivery, HttpImplementsDelivery, BatchImplementsDelivery, PTL
     DEF ImplementsDelivery

\* Pipelines and buffers keep the order of their commands, those of unknown outcome excepted,
\* every command of a pipeline has its answer and its count is true, and a buffer stays within
\* its bounds
\* (topology_scatter.go:89, topology_scatter_command.go:24, buffered.go:165).
THEOREM ExecutorsKeepBatches == BufferedSpec /\ BatchSpec => []BatchesKept
  <1>1. /\ PipelineOrderKept /\ AllAnswered /\ SucceededIsTrue
        /\ AdmissionOrderKept /\ WithinBounds
        => BatchesKept
    BY DEF BatchesKept
  <1> QED BY <1>1, PipelinesKept, BufferedOrder, BufferedWithinBounds, PTL
=============================================================================
