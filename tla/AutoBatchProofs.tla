-------------------------- MODULE AutoBatchProofs --------------------------
(* Proofs about the auto-batch executor, for every finite set of calls and    *)
(* all queue and batch sizes.                                                 *)
(*                                                                            *)
(* The argument is one about positions.  The requests were accepted in some   *)
(* order, and at every moment that order falls into four consecutive parts:   *)
(* the first Base requests, which are answered; the batch; the flush request  *)
(* the loop will answer after the batch, if any; and the channel.             *)
EXTENDS AutoBatch, SequenceTheorems, FiniteSetTheorems, WellFoundedInduction, TLAPS
\* The elements of s occur among the first h of t, in the same order.
Within(s, t, h) ==
    /\ \A i \in 1..Len(s) : \E k \in 1..h : t[k] = s[i]
    /\ \A i, j \in 1..Len(s) : i < j =>
          \E k, m \in 1..h : k < m /\ t[k] = s[i] /\ t[m] = s[j]

----------------------------------------------------------------------------
\* g is the recursive function by which Live computes, on 0..n.
IsKept(g, b, n) ==
    g = [i \in 0..n |-> IF i = 0 THEN <<>>
                        ELSE IF cancelled[b[i]] THEN g[i - 1] ELSE Append(g[i - 1], b[i])]

\* Induction by least counterexample: a nonempty set of numbers has a least one.
LEMMA LeastNat ==
    ASSUME NEW T, T \subseteq Nat, T # {}
    PROVE \E x \in T : \A y \in T : x <= y
  <1> DEFINE R == {ss \in Nat \X Nat : ss[1] < ss[2]}
  <1>1. R = OpToRel(<, Nat)
    BY DEF OpToRel
  <1>2. IsWellFoundedOn(R, Nat)
    BY <1>1, NatLessThanWellFounded
  <1>3. \E x \in T : \A y \in T : ~ (<<y, x>> \in R)
    <2> HIDE DEF R
    <2> QED BY <1>2, WFMin
  <1>4. PICK x \in T : \A y \in T : ~ (<<y, x>> \in R)
    BY <1>3
  <1>5. ASSUME NEW y \in T PROVE x <= y
    <2>1. x \in Nat /\ y \in Nat
      OBVIOUS
    <2>2. ~ (<<y, x>> \in R)
      BY <1>4
    <2>3. ~ (y < x)
      <3>1. <<y, x>> \in Nat \X Nat
        BY <2>1
      <3>2. <<y, x>>[1] = y /\ <<y, x>>[2] = x
        OBVIOUS
      <3> QED BY <2>2, <3>1, <3>2
    <2> QED BY <2>1, <2>3
  <1> QED BY <1>5

\* The recursive function of Live exists for every batch.
LEMMA KeptExists ==
    ASSUME NEW b \in Seq(Requests)
    PROVE  \A n \in 0..Len(b) : \E g : IsKept(g, b, n)
  <1> DEFINE T == {n \in 0..Len(b) : ~ \E g : IsKept(g, b, n)}
  <1> SUFFICES ASSUME T # {} PROVE FALSE
    OBVIOUS
  <1>0. Len(b) \in Nat
    OBVIOUS
  <1>1. T \subseteq Nat
    BY <1>0
  <1>2. PICK n \in T : \A y \in T : n <= y
    <2> HIDE DEF T
    <2> QED BY <1>1, LeastNat
  <1>3. CASE n = 0
    <2> DEFINE g == [i \in 0..0 |-> <<>>]
    <2>1. IsKept(g, b, 0)
      BY DEF IsKept
    <2> QED BY <2>1, <1>3
  <1>4. CASE n # 0
    <2>1. n \in 1..Len(b) /\ n - 1 \in 0..Len(b) /\ n - 1 \notin T
      BY <1>0, <1>2, <1>4
    <2>2. PICK g : IsKept(g, b, n - 1)
      BY <2>1
    <2> DEFINE h == [i \in 0..n |->
                       IF i < n THEN g[i]
                       ELSE IF cancelled[b[n]] THEN g[n - 1] ELSE Append(g[n - 1], b[n])]
    <2>3. IsKept(h, b, n)
      <3>1. \A i \in 0..(n - 1) : g[i] = IF i = 0 THEN <<>>
                        ELSE IF cancelled[b[i]] THEN g[i - 1] ELSE Append(g[i - 1], b[i])
        BY <2>2, <2>1 DEF IsKept
      <3>2. \A i \in 0..n : h[i] = IF i = 0 THEN <<>>
                        ELSE IF cancelled[b[i]] THEN h[i - 1] ELSE Append(h[i - 1], b[i])
        BY <3>1, <2>1
      <3> QED BY <3>2 DEF IsKept
    <2> QED BY <2>3
  <1> QED BY <1>3, <1>4

\* Live is the last value of that function.
LEMMA LiveIsKept ==
    ASSUME NEW b \in Seq(Requests)
    PROVE  \E g : IsKept(g, b, Len(b)) /\ Live(b) = g[Len(b)]
  <1>1. \E g : IsKept(g, b, Len(b))
    BY KeptExists
  <1> DEFINE k == CHOOSE g : IsKept(g, b, Len(b))
  <1>2. IsKept(k, b, Len(b))
    BY <1>1
  <1>3. Live(b) = k[Len(b)]
    BY Zenon DEF Live, IsKept
  <1> QED BY <1>2, <1>3

\* s has exactly the uncancelled requests of the first n of b, in their order.
Selects(s, b, n) ==
    /\ s \in Seq(Requests)
    /\ \A a \in 1..Len(s) : \E k \in 1..n : b[k] = s[a] /\ ~cancelled[b[k]]
    /\ \A k \in 1..n : ~cancelled[b[k]] => \E a \in 1..Len(s) : s[a] = b[k]
    /\ \A a, c \in 1..Len(s) : a < c =>
          \E k, m \in 1..n : k < m /\ b[k] = s[a] /\ b[m] = s[c]

\* One more request, not cancelled, is kept.
LEMMA SelectsAppend ==
    ASSUME NEW b \in Seq(Requests), NEW n \in 1..Len(b), NEW s, Selects(s, b, n - 1),
           ~cancelled[b[n]]
    PROVE  Selects(Append(s, b[n]), b, n)
  <1> DEFINE t == Append(s, b[n])
  <1>1. s \in Seq(Requests) /\ b[n] \in Requests /\ Len(s) \in Nat /\ Len(b) \in Nat
    BY DEF Selects
  <1>2. /\ t \in Seq(Requests) /\ Len(t) = Len(s) + 1
        /\ \A i \in 1..Len(s) : t[i] = s[i]
        /\ t[Len(s) + 1] = b[n]
    BY <1>1, AppendProperties
  <1>3. \A k \in 1..(n - 1) : k \in 1..n /\ k < n
    BY <1>1
  <1>4. \A a \in 1..Len(t) : a \in 1..Len(s) \/ a = Len(s) + 1
    BY <1>1, <1>2
  <1>5. n \in 1..n /\ (\A k \in 1..n : k \in 1..(n - 1) \/ k = n)
    BY <1>1
  <1> HIDE DEF t
  <1>6. ASSUME NEW a \in 1..Len(t) PROVE \E k \in 1..n : b[k] = t[a] /\ ~cancelled[b[k]]
    <2>1. CASE a \in 1..Len(s)
      <3>1. PICK k \in 1..(n - 1) : b[k] = s[a] /\ ~cancelled[b[k]]
        BY <2>1, Zenon DEF Selects
      <3> QED BY <1>2, <1>3, <2>1, <3>1, Zenon
    <2>2. CASE a = Len(s) + 1
      BY <1>2, <1>5, <2>2, Zenon
    <2> QED BY <1>4, <2>1, <2>2
  <1>7. ASSUME NEW k \in 1..n, ~cancelled[b[k]] PROVE \E a \in 1..Len(t) : t[a] = b[k]
    <2>1. \A i \in 1..Len(s) : i \in 1..Len(t)
      BY <1>1, <1>2
    <2>2. Len(s) + 1 \in 1..Len(t)
      BY <1>1, <1>2
    <2>3. CASE k = n
      BY <1>2, <2>2, <2>3
    <2>4. CASE k \in 1..(n - 1)
      <3>1. PICK a \in 1..Len(s) : s[a] = b[k]
        BY <1>7, <2>4, Zenon DEF Selects
      <3> QED BY <1>2, <2>1, <3>1, Zenon
    <2> QED BY <1>5, <2>3, <2>4
  <1>8. ASSUME NEW a \in 1..Len(t), NEW c \in 1..Len(t), a < c
        PROVE  \E k, m \in 1..n : k < m /\ b[k] = t[a] /\ b[m] = t[c]
    <2>0. a \in 1..Len(s)
      BY <1>1, <1>2, <1>8
    <2>1. CASE c \in 1..Len(s)
      <3>1. PICK k \in 1..(n - 1), m \in 1..(n - 1) : k < m /\ b[k] = s[a] /\ b[m] = s[c]
        BY <1>8, <2>0, <2>1, Zenon DEF Selects
      <3> QED BY <1>2, <1>3, <2>0, <2>1, <3>1, Zenon
    <2>2. CASE c = Len(s) + 1
      <3>1. PICK k \in 1..(n - 1) : b[k] = s[a]
        BY <2>0 DEF Selects
      <3> QED BY <1>2, <1>3, <1>5, <2>0, <2>2, <3>1
    <2> QED BY <1>4, <2>1, <2>2
  <1>9. Selects(t, b, n)
    BY <1>2, <1>6, <1>7, <1>8 DEF Selects
  <1> QED BY <1>9 DEF t

\* What the filter of flush computes (auto_batch.go:298), for every batch.
LEMMA LiveSelects ==
    ASSUME NEW b \in Seq(Requests)
    PROVE  Selects(Live(b), b, Len(b))
  <1>0. PICK g : IsKept(g, b, Len(b)) /\ Live(b) = g[Len(b)]
    BY LiveIsKept
  <1>1. \A i \in 0..Len(b) : g[i] = IF i = 0 THEN <<>>
                        ELSE IF cancelled[b[i]] THEN g[i - 1] ELSE Append(g[i - 1], b[i])
    BY <1>0 DEF IsKept
  <1>2. Len(b) \in Nat
    OBVIOUS
  <1> DEFINE T == {n \in 0..Len(b) : ~ Selects(g[n], b, n)}
  <1>3. ASSUME T # {} PROVE FALSE
    <2>1. T \subseteq Nat
      BY <1>2
    <2>2. PICK n \in T : \A y \in T : n <= y
      <3> HIDE DEF T
      <3> QED BY <1>3, <2>1, LeastNat
    <2>3. CASE n = 0
      <3>1. g[0] = <<>>
        BY <1>1, <1>2
      <3>2. Selects(<<>>, b, 0)
        BY DEF Selects
      <3> QED BY <2>2, <2>3, <3>1, <3>2
    <2>4. CASE n # 0
      <3>1. n \in 1..Len(b) /\ n - 1 \in 0..Len(b) /\ n - 1 \notin T
        BY <1>2, <2>2, <2>4
      <3>2. Selects(g[n - 1], b, n - 1)
        BY <3>1
      <3>3. CASE cancelled[b[n]]
        <4>1. g[n] = g[n - 1]
          BY <1>1, <3>1, <3>3
        <4>2. \A k \in 1..n : k \in 1..(n - 1) \/ k = n
          BY <3>1
        <4>3. \A k \in 1..(n - 1) : k \in 1..n
          BY <3>1
        <4>4. Selects(g[n - 1], b, n)
          <5> DEFINE s == g[n - 1]
          <5>0. Selects(s, b, n - 1)
            BY <3>2
          <5> HIDE DEF s
          <5>1. \A a \in 1..Len(s) : \E k \in 1..n : b[k] = s[a] /\ ~cancelled[b[k]]
            BY <5>0, <4>3, Zenon DEF Selects
          <5>2. \A k \in 1..n : ~cancelled[b[k]] => \E a \in 1..Len(s) : s[a] = b[k]
            BY <5>0, <3>3, <4>2, Zenon DEF Selects
          <5>3. ASSUME NEW a \in 1..Len(s), NEW c \in 1..Len(s), a < c
                PROVE  \E k, m \in 1..n : k < m /\ b[k] = s[a] /\ b[m] = s[c]
            <6>1. PICK k \in 1..(n - 1), m \in 1..(n - 1) : k < m /\ b[k] = s[a] /\ b[m] = s[c]
              BY <5>0, <5>3, Zenon DEF Selects
            <6> QED BY <4>3, <6>1, Zenon
          <5>4. Selects(s, b, n)
            BY <5>0, <5>1, <5>2, <5>3, Zenon DEF Selects
          <5> QED BY <5>4 DEF s
        <4> QED BY <2>2, <4>1, <4>4
      <3>4. CASE ~cancelled[b[n]]
        <4>1. g[n] = Append(g[n - 1], b[n])
          <5>1. n \in 0..Len(b) /\ n # 0
            BY <1>2, <3>1
          <5> QED BY <1>1, <5>1, <3>4, Zenon
        <4> QED BY <2>2, <3>1, <3>2, <3>4, <4>1, SelectsAppend
      <3> QED BY <3>3, <3>4
    <2> QED BY <2>3, <2>4
  <1>4. Selects(g[Len(b)], b, Len(b))
    BY <1>2, <1>3
  <1> QED BY <1>0, <1>4

----------------------------------------------------------------------------
\* The inductive invariant.  Base is the number of requests the loop is done with.
Flushed == IF flushFor = None THEN 0 ELSE 1
Base == Len(accepted) - Len(requests) - Flushed - Len(batch)

\* Only commands are batched; the history and the channel hold requests.
SeqsOK ==
    /\ requests \in Seq(Requests) /\ batch \in Seq(Commands) /\ active \in Seq(Requests)
    /\ accepted \in Seq(Requests) /\ executed \in Seq(Requests)

\* Batch, flush request and channel are the tail of what was accepted, in order;
\* nothing is accepted twice, and only callers that sent are accepted.
LayoutOK ==
    /\ Base >= 0
    /\ \A i \in 1..Len(batch) : batch[i] = accepted[Base + i]
    /\ flushFor # None => accepted[Base + Len(batch) + 1] = flushFor
    /\ \A i \in 1..Len(requests) : requests[i] = accepted[Base + Len(batch) + Flushed + i]
    /\ \A i, j \in 1..Len(accepted) : i # j => accepted[i] # accepted[j]
    /\ \A i \in 1..Len(accepted) : pc[accepted[i]] \in {"waiting", "returned"}

\* Everything up to Base has one answer.  Of the batch, only what the filter left
\* out has one; nothing behind the batch has, and nothing that was not accepted.
AnswersOK ==
    /\ \A i \in 1..Len(accepted) : answers[accepted[i]] =
          IF i <= Base \/ (/\ i <= Base + Len(batch) /\ loop \in {"slot", "wait"}
                           /\ accepted[i] \notin Range(active))
          THEN 1 ELSE 0
    /\ \A r \in Requests : (\A i \in 1..Len(accepted) : accepted[i] # r) => answers[r] = 0

\* A flush request waits only while its flush is under way; the drain is terminal
\* only with an empty batch; it runs only when closed, when no send can succeed, so
\* that the channel it found empty stays empty through the last flush.
ControlOK ==
    /\ flushFor # None => loop \in {"filter", "slot", "wait"}
    /\ terminal => batch = <<>> /\ loop \in {"drain", "quiesce", "done"}
    /\ loop \in {"drain", "quiesce", "done"} => isClosed
    /\ loop \in {"filter", "slot", "wait"} /\ mode # "regular" => isClosed
    /\ loop \in {"filter", "slot", "wait"} /\ mode = "final" => requests = <<>>
    /\ loop \in {"quiesce", "done"} => requests = <<>> /\ batch = <<>>
    /\ Len(batch) <= MaxSize
    /\ loop \in {"select", "drain"} => Len(batch) < MaxSize

\* The slot token stands for the one pipeline that may run.
RunningOK ==
    /\ running = {} \/ \E b \in running : running = {b}
    /\ slotFree <=> running = {}
    /\ loop = "done" /\ ~closeErr => slotFree

\* How far the started pipelines reach: to Base, or over the batch of the one that
\* the flush waits for.
Horizon == IF loop = "wait" THEN Base + Len(batch) ELSE Base

\* The pipeline carries part of the batch in its order, and everything that was
\* started lies within the horizon in the order of acceptance.
PipelinesOK ==
    /\ loop \in {"slot", "wait"} => Within(active, batch, Len(batch))
    /\ Within(executed, accepted, Horizon)

\* The whole: each part is needed to keep another.
BatchInv == TypeOK /\ SeqsOK /\ LayoutOK /\ AnswersOK /\ ControlOK /\ RunningOK /\ PipelinesOK

----------------------------------------------------------------------------
\* Every step keeps the sequences well typed.
LEMMA SeqsStep == BatchInv /\ [Next]_vars => SeqsOK'
  <1> SUFFICES ASSUME BatchInv, [Next]_vars PROVE SeqsOK'
    OBVIOUS
  <1> USE DEF BatchInv, SeqsOK, TypeOK
  <1>0. Commands \subseteq Requests /\ batch \in Seq(Requests)
    BY DEF Requests
  <1>1. ASSUME NEW r \in Requests, Reserve(r) PROVE SeqsOK'
    BY <1>1 DEF Reserve, flushing
  <1>2. ASSUME NEW r \in Requests, Send(r) PROVE SeqsOK'
    <2>1. /\ requests' = requests \/ requests' = Append(requests, r)
          /\ accepted' = accepted \/ accepted' = Append(accepted, r)
          /\ UNCHANGED <<batch, active, executed>>
      BY <1>2 DEF Send, flushing
    <2>2. Append(requests, r) \in Seq(Requests) /\ Append(accepted, r) \in Seq(Requests)
      BY AppendProperties
    <2> QED BY <2>1, <2>2
  <1>3. ASSUME NEW r \in Requests, EncodeFails(r) PROVE SeqsOK'
    BY <1>3 DEF EncodeFails, flushing
  <1>4. ASSUME NEW r \in Requests, Cancel(r) PROVE SeqsOK'
    BY <1>4 DEF Cancel, flushing
  <1>5. ASSUME NEW r \in Requests, Return(r) PROVE SeqsOK'
    BY <1>5 DEF Return, flushing
  <1>6. CASE Close
    BY <1>6 DEF Close, flushing
  <1>7. CASE Take
    <2>1. Head(requests) \in Requests /\ Tail(requests) \in Seq(Requests)
      BY <1>7 DEF Take
    <2>2. /\ requests' = Tail(requests)
          /\ \/ batch' = batch
             \/ Head(requests) \notin Flushes /\ batch' = Append(batch, Head(requests))
          /\ UNCHANGED <<active, executed, accepted>>
      BY <1>7 DEF Take
    <2>3. Head(requests) \notin Flushes => Append(batch, Head(requests)) \in Seq(Commands)
      BY <2>1, AppendProperties DEF Requests
    <2> QED BY <2>1, <2>2, <2>3
  <1>8. CASE TimerFires
    BY <1>8 DEF TimerFires, flushing
  <1>9. CASE SeeClosed
    BY <1>9 DEF SeeClosed, flushing
  <1>10. CASE DrainEmpty
    <2>1. (batch' = batch \/ batch' = <<>>) /\ UNCHANGED <<requests, active, accepted, executed>>
      BY <1>10 DEF DrainEmpty
    <2>2. batch' \in Seq(Commands)
      <3>1. CASE batch' = batch
        BY <3>1
      <3>2. CASE batch' = <<>>
        BY <3>2
      <3> QED BY <2>1, <3>1, <3>2
    <2> QED BY <2>1, <2>2
  <1>11. CASE Filter
    <2>1. Live(batch) \in Seq(Requests)
      BY <1>0, LiveSelects DEF Selects
    <2> QED BY <1>11, <2>1 DEF Filter, FlushEnds
  <1>12. CASE AcquireSlot
    <2>1. executed \o active \in Seq(Requests)
      BY ConcatProperties
    <2>2. CASE executed' = executed \o active /\ UNCHANGED <<batch, active, requests, accepted>>
      BY <2>1, <2>2
    <2>3. CASE batch' = <<>> /\ active' = <<>> /\ UNCHANGED <<requests, accepted, executed>>
      BY <2>3
    <2> QED BY <1>12, <2>2, <2>3 DEF AcquireSlot, FlushEnds
  <1>13. CASE WaitResult
    <2>1. batch' = <<>> /\ active' = <<>> /\ UNCHANGED <<requests, accepted, executed>>
      BY <1>13 DEF WaitResult, FlushEnds
    <2> QED BY <2>1
  <1>14. CASE Quiesce
    BY <1>14 DEF Quiesce, flushing
  <1>15. ASSUME NEW b \in running, PipelineEnds(b) PROVE SeqsOK'
    BY <1>15 DEF PipelineEnds
  <1>16. CASE Expire
    BY <1>16 DEF Expire, flushing
  <1>17. CASE UNCHANGED vars
    BY <1>17 DEF vars, flushing
  <1> QED BY <1>1, <1>2, <1>3, <1>4, <1>5, <1>6, <1>7, <1>8, <1>9, <1>10, <1>11, <1>12,
             <1>13, <1>14, <1>15, <1>16, <1>17 DEF Next, LoopStep

\* Every step keeps the loop, the close flag, the mode and the channel in agreement.
LEMMA ControlStep == BatchInv /\ [Next]_vars => ControlOK'
  <1> SUFFICES ASSUME BatchInv, [Next]_vars PROVE ControlOK'
    OBVIOUS
  <1> USE AutoBatchConstants DEF BatchInv, SeqsOK, TypeOK, ControlOK
  <1>0. Commands \subseteq Requests /\ batch \in Seq(Requests)
    BY DEF Requests
  <1>1. ASSUME NEW r \in Requests, Reserve(r) PROVE ControlOK'
    BY <1>1 DEF Reserve, flushing
  <1>2. ASSUME NEW r \in Requests, Send(r) PROVE ControlOK'
    BY <1>2 DEF Send, flushing
  <1>3. ASSUME NEW r \in Requests, EncodeFails(r) PROVE ControlOK'
    BY <1>3 DEF EncodeFails, flushing
  <1>4. ASSUME NEW r \in Requests, Cancel(r) PROVE ControlOK'
    BY <1>4 DEF Cancel, flushing
  <1>5. ASSUME NEW r \in Requests, Return(r) PROVE ControlOK'
    BY <1>5 DEF Return, flushing
  <1>6. CASE Close
    BY <1>6 DEF Close, flushing
  <1>7. CASE Take
    <2>1. Head(requests) \in Requests /\ Tail(requests) \in Seq(Requests)
      BY <1>7 DEF Take
    <2> QED BY <1>7, <2>1 DEF Take, Requests
  <1>8. CASE TimerFires
    BY <1>8 DEF TimerFires, flushing
  <1>9. CASE SeeClosed
    BY <1>9 DEF SeeClosed, flushing
  <1>10. CASE DrainEmpty
    BY <1>10 DEF DrainEmpty, flushing
  <1>11. CASE Filter
    BY <1>11 DEF Filter, FlushEnds
  <1>12. CASE AcquireSlot
    BY <1>12 DEF AcquireSlot, FlushEnds
  <1>13. CASE WaitResult
    BY <1>13 DEF WaitResult, FlushEnds
  <1>14. CASE Quiesce
    BY <1>14 DEF Quiesce, flushing
  <1>15. ASSUME NEW b \in running, PipelineEnds(b) PROVE ControlOK'
    BY <1>15 DEF PipelineEnds
  <1>16. CASE Expire
    BY <1>16 DEF Expire, flushing
  <1>17. CASE UNCHANGED vars
    BY <1>17 DEF vars, flushing
  <1> QED BY <1>1, <1>2, <1>3, <1>4, <1>5, <1>6, <1>7, <1>8, <1>9, <1>10, <1>11, <1>12,
             <1>13, <1>14, <1>15, <1>16, <1>17 DEF Next, LoopStep

\* Every step keeps the slot token and the running pipeline in agreement.
LEMMA RunningStep == BatchInv /\ [Next]_vars => RunningOK'
  <1> SUFFICES ASSUME BatchInv, [Next]_vars PROVE RunningOK'
    OBVIOUS
  <1> USE DEF BatchInv, TypeOK, RunningOK
  <1>1. ASSUME NEW r \in Requests, Reserve(r) PROVE RunningOK'
    BY <1>1 DEF Reserve, flushing
  <1>2. ASSUME NEW r \in Requests, Send(r) PROVE RunningOK'
    BY <1>2 DEF Send, flushing
  <1>3. ASSUME NEW r \in Requests, EncodeFails(r) PROVE RunningOK'
    BY <1>3 DEF EncodeFails, flushing
  <1>4. ASSUME NEW r \in Requests, Cancel(r) PROVE RunningOK'
    BY <1>4 DEF Cancel, flushing
  <1>5. ASSUME NEW r \in Requests, Return(r) PROVE RunningOK'
    BY <1>5 DEF Return, flushing
  <1>6. CASE Close
    BY <1>6 DEF Close, flushing
  <1>7. CASE Take
    BY <1>7 DEF Take
  <1>8. CASE TimerFires
    BY <1>8 DEF TimerFires, flushing
  <1>9. CASE SeeClosed
    BY <1>9 DEF SeeClosed, flushing
  <1>10. CASE DrainEmpty
    BY <1>10 DEF DrainEmpty, flushing
  <1>11. CASE Filter
    BY <1>11 DEF Filter, FlushEnds
  <1>12. CASE AcquireSlot
    <2>1. CASE slotFree /\ slotFree' = FALSE /\ running' = running \cup {active}
      <3>1. running' = {active}
        BY <2>1
      <3>2. loop' = "wait"
        BY <1>12, <2>1 DEF AcquireSlot
      <3> QED BY <2>1, <3>1, <3>2
    <2>2. CASE UNCHANGED <<slotFree, running>>
      BY <1>12, <2>2 DEF AcquireSlot, FlushEnds
    <2> QED BY <1>12, <2>1, <2>2 DEF AcquireSlot
  <1>13. CASE WaitResult
    BY <1>13 DEF WaitResult, FlushEnds
  <1>14. CASE Quiesce
    BY <1>14 DEF Quiesce, flushing
  <1>15. ASSUME NEW b \in running, PipelineEnds(b) PROVE RunningOK'
    BY <1>15 DEF PipelineEnds
  <1>16. CASE Expire
    BY <1>16 DEF Expire, flushing
  <1>17. CASE UNCHANGED vars
    BY <1>17 DEF vars, flushing
  <1> QED BY <1>1, <1>2, <1>3, <1>4, <1>5, <1>6, <1>7, <1>8, <1>9, <1>10, <1>11, <1>12,
             <1>13, <1>14, <1>15, <1>16, <1>17 DEF Next, LoopStep

----------------------------------------------------------------------------
\* A step that moves no request keeps the layout.
LEMMA LayoutFrame ==
    ASSUME SeqsOK, LayoutOK, pc \in [Requests -> {"idle", "reserved", "waiting", "returned"}],
           UNCHANGED <<requests, batch, flushFor, accepted>>,
           \A r \in Requests : pc[r] \in {"waiting", "returned"} => pc'[r] \in {"waiting", "returned"}
    PROVE  LayoutOK'
  <1>1. \A i \in 1..Len(accepted) : accepted[i] \in Requests
    BY DEF SeqsOK
  <1> QED BY <1>1 DEF LayoutOK, Base, Flushed

\* sendReserved appends to the channel and to the order of acceptance alike.
LEMMA LayoutSend ==
    ASSUME SeqsOK, LayoutOK, pc \in [Requests -> {"idle", "reserved", "waiting", "returned"}],
           NEW r \in Requests, pc[r] = "reserved",
           requests' = Append(requests, r), accepted' = Append(accepted, r),
           pc' = [pc EXCEPT ![r] = "waiting"], UNCHANGED <<batch, flushFor>>
    PROVE  LayoutOK' /\ Base' = Base /\ Flushed' = Flushed
  <1> DEFINE n == Len(accepted)
             q == Len(requests)
  <1>0. n \in Nat /\ q \in Nat /\ Len(batch) \in Nat /\ Flushed \in {0, 1}
    BY DEF SeqsOK, Flushed
  <1>1. /\ Len(accepted') = n + 1 /\ accepted'[n + 1] = r
        /\ \A i \in 1..n : accepted'[i] = accepted[i]
    BY AppendProperties DEF SeqsOK
  <1>2. /\ Len(requests') = q + 1 /\ requests'[q + 1] = r
        /\ \A i \in 1..q : requests'[i] = requests[i]
    BY AppendProperties DEF SeqsOK
  <1>3. Flushed' = Flushed /\ Base' = Base /\ Base \in Nat
    BY <1>0, <1>1, <1>2 DEF Base, Flushed, LayoutOK
  <1>4. \A i \in 1..n : accepted[i] \in Requests /\ accepted[i] # r
    <2>1. \A i \in 1..n : accepted[i] \in Requests
      BY DEF SeqsOK
    <2>2. \A i \in 1..n : pc[accepted[i]] # "reserved"
      BY DEF LayoutOK
    <2> QED BY <2>1, <2>2
  <1>5. n = Base + Len(batch) + Flushed + q
    BY <1>0 DEF Base
  <1>6. \A i \in 1..Len(batch') : batch'[i] = accepted'[Base' + i]
    BY <1>0, <1>1, <1>3, <1>5 DEF LayoutOK
  <1>7. flushFor' # None => accepted'[Base' + Len(batch') + 1] = flushFor'
    BY <1>0, <1>1, <1>3, <1>5 DEF LayoutOK, Flushed
  <1>8. \A i \in 1..Len(requests') :
           requests'[i] = accepted'[Base' + Len(batch') + Flushed' + i]
    <2> SUFFICES ASSUME NEW i \in 1..(q + 1)
                 PROVE  requests'[i] = accepted'[Base + Len(batch) + Flushed + i]
      BY <1>2, <1>3
    <2>1. CASE i = q + 1
      BY <1>0, <1>1, <1>2, <1>3, <1>5, <2>1
    <2>2. CASE i \in 1..q
      <3>1. Base + Len(batch) + Flushed + i \in 1..n
        BY <1>0, <1>3, <1>5, <2>2
      <3>2. requests[i] = accepted[Base + Len(batch) + Flushed + i]
        BY <2>2 DEF LayoutOK
      <3> QED BY <1>1, <1>2, <2>2, <3>1, <3>2
    <2>3. i \in 1..q \/ i = q + 1
      <3> HIDE DEF q
      <3> QED BY <1>0
    <2> QED BY <2>1, <2>2, <2>3, Zenon
  <1>9. \A i, j \in 1..Len(accepted') : i # j => accepted'[i] # accepted'[j]
    BY <1>0, <1>1, <1>4 DEF LayoutOK
  <1>10. \A i \in 1..Len(accepted') : pc'[accepted'[i]] \in {"waiting", "returned"}
    BY <1>0, <1>1, <1>4 DEF LayoutOK
  <1> QED BY <1>3, <1>6, <1>7, <1>8, <1>9, <1>10 DEF LayoutOK

\* Take moves the head of the channel to the batch, to flushFor, or out.
LEMMA LayoutTake ==
    ASSUME SeqsOK, LayoutOK, requests # <<>>, requests' = Tail(requests), flushFor = None,
           None \notin Requests,
           UNCHANGED <<accepted, pc>>
    PROVE  /\ batch' = Append(batch, Head(requests)) /\ flushFor' = None
              => LayoutOK' /\ Base' = Base
           /\ UNCHANGED batch /\ flushFor' = Head(requests) => LayoutOK' /\ Base' = Base
           /\ batch = <<>> /\ UNCHANGED <<batch, flushFor>> => LayoutOK' /\ Base' = Base + 1
  <1> DEFINE q == Len(requests)
  <1>0. Len(accepted) \in Nat /\ q \in Nat \ {0} /\ Len(batch) \in Nat /\ Flushed = 0
    BY EmptySeq DEF SeqsOK, Flushed
  <1>1. /\ Len(requests') = q - 1
        /\ \A i \in 1..(q - 1) : requests'[i] = requests[i + 1]
        /\ Head(requests) = requests[1] /\ Head(requests) \in Requests
    BY HeadTailProperties DEF SeqsOK
  <1>2. Base \in Nat /\ Len(accepted) = Base + Len(batch) + q
    BY <1>0 DEF Base, LayoutOK
  <1>3. /\ \A i \in 1..q : requests[i] = accepted[Base + Len(batch) + i]
        /\ \A i \in 1..Len(batch) : batch[i] = accepted[Base + i]
        /\ \A i, j \in 1..Len(accepted) : i # j => accepted[i] # accepted[j]
        /\ \A i \in 1..Len(accepted) : pc[accepted[i]] \in {"waiting", "returned"}
    <2>1. \A i \in 1..q : requests[i] = accepted[Base + Len(batch) + Flushed + i]
      BY DEF LayoutOK
    <2>2. \A i \in 1..q : Base + Len(batch) + Flushed + i = Base + Len(batch) + i
      BY <1>0, <1>2
    <2> QED BY <2>1, <2>2 DEF LayoutOK
  <1>4. Head(requests) = accepted[Base + Len(batch) + 1]
    BY <1>0, <1>1, <1>3
  <1>5. ASSUME batch' = Append(batch, Head(requests)), flushFor' = None
        PROVE  LayoutOK' /\ Base' = Base
    <2>1. batch \in Seq(Requests)
      BY DEF SeqsOK, Requests
    <2>2. /\ Len(batch') = Len(batch) + 1 /\ batch'[Len(batch) + 1] = Head(requests)
          /\ \A i \in 1..Len(batch) : batch'[i] = batch[i]
      BY <1>1, <1>5, <2>1, AppendProperties
    <2>3. Flushed' = 0 /\ Base' = Base
      BY <1>0, <1>1, <1>2, <1>5, <2>2 DEF Base, Flushed
    <2>4. \A i \in 1..Len(batch') : batch'[i] = accepted'[Base' + i]
      <3> SUFFICES ASSUME NEW i \in 1..(Len(batch) + 1) PROVE batch'[i] = accepted[Base + i]
        BY <2>2, <2>3
      <3>1. CASE i = Len(batch) + 1
        <4>1. Base + i = Base + Len(batch) + 1
          BY <1>0, <1>2, <3>1
        <4> QED BY <1>4, <2>2, <3>1, <4>1
      <3>2. CASE i \in 1..Len(batch)
        BY <1>3, <2>2, <3>2
      <3> QED BY <1>0, <3>1, <3>2
    <2>5. \A i \in 1..Len(requests') :
             requests'[i] = accepted'[Base' + Len(batch') + Flushed' + i]
      BY <1>0, <1>1, <1>2, <1>3, <2>2, <2>3
    <2> QED BY <1>2, <1>3, <1>5, <2>3, <2>4, <2>5 DEF LayoutOK
  <1>6. ASSUME UNCHANGED batch, flushFor' = Head(requests)
        PROVE  LayoutOK' /\ Base' = Base
    <2>1. flushFor' # None /\ Flushed' = 1 /\ Base' = Base
      BY <1>0, <1>1, <1>2, <1>6 DEF Base, Flushed
    <2>2. \A i \in 1..Len(batch') : batch'[i] = accepted'[Base' + i]
      BY <1>3, <1>6, <2>1
    <2>3. \A i \in 1..Len(requests') :
             requests'[i] = accepted'[Base' + Len(batch') + Flushed' + i]
      BY <1>0, <1>1, <1>2, <1>3, <1>6, <2>1
    <2> QED BY <1>2, <1>3, <1>4, <1>6, <2>1, <2>2, <2>3 DEF LayoutOK
  <1>7. ASSUME batch = <<>>, UNCHANGED <<batch, flushFor>>
        PROVE  LayoutOK' /\ Base' = Base + 1
    <2>1. Flushed' = 0 /\ Len(batch) = 0 /\ Len(batch') = 0 /\ Base' = Base + 1
      BY <1>0, <1>1, <1>2, <1>7 DEF Base, Flushed
    <2>2. \A i \in 1..Len(requests') :
             requests'[i] = accepted'[Base' + Len(batch') + Flushed' + i]
      <3> SUFFICES ASSUME NEW i \in 1..(q - 1) PROVE requests'[i] = accepted[Base + 1 + i]
        BY <1>0, <1>1, <1>2, <2>1
      <3>1. requests'[i] = requests[i + 1] /\ i + 1 \in 1..q
        BY <1>0, <1>1
      <3>2. requests[i + 1] = accepted[Base + Len(batch) + (i + 1)]
        BY <1>3, <3>1
      <3>3. Base + Len(batch) + (i + 1) = Base + 1 + i
        BY <1>0, <1>2, <2>1
      <3> QED BY <3>1, <3>2, <3>3
    <2> QED BY <1>2, <1>3, <1>7, <2>1, <2>2 DEF LayoutOK
  <1> QED BY <1>5, <1>6, <1>7

\* The end of a flush empties the batch and flushFor.
LEMMA LayoutFlush ==
    ASSUME SeqsOK, LayoutOK, batch' = <<>>, flushFor' = None, UNCHANGED <<requests, accepted, pc>>
    PROVE  LayoutOK' /\ Base' = Base + Len(batch) + Flushed
  <1>0. Len(accepted) \in Nat /\ Len(requests) \in Nat /\ Len(batch) \in Nat /\ Flushed \in {0, 1}
    BY DEF SeqsOK, Flushed
  <1>1. Len(batch') = 0 /\ Flushed' = 0 /\ Base' = Base + Len(batch) + Flushed /\ Base \in Nat
    BY <1>0 DEF Base, Flushed, LayoutOK
  <1>2. \A i \in 1..Len(requests') :
             requests'[i] = accepted'[Base' + Len(batch') + Flushed' + i]
    BY <1>0, <1>1 DEF LayoutOK
  <1> QED BY <1>0, <1>1, <1>2 DEF LayoutOK

\* Every step keeps the layout.
LEMMA LayoutStep == BatchInv /\ [Next]_vars => LayoutOK'
  <1> SUFFICES ASSUME BatchInv, [Next]_vars PROVE LayoutOK'
    OBVIOUS
  <1>0. /\ SeqsOK /\ LayoutOK /\ None \notin Requests
        /\ pc \in [Requests -> {"idle", "reserved", "waiting", "returned"}]
    BY AutoBatchConstants DEF BatchInv, TypeOK
  <1>1. ASSUME NEW r \in Requests, Reserve(r) PROVE LayoutOK'
    <2>1. /\ UNCHANGED <<requests, batch, flushFor, accepted>>
          /\ \A x \in Requests : pc[x] \in {"waiting", "returned"} => pc'[x] \in {"waiting", "returned"}
      BY <1>0, <1>1 DEF Reserve, flushing
    <2> QED BY <1>0, <2>1, LayoutFrame, Zenon
  <1>2. ASSUME NEW r \in Requests, Send(r) PROVE LayoutOK'
    <2>1. CASE isClosed
      <3>1. /\ UNCHANGED <<requests, batch, flushFor, accepted>>
            /\ \A x \in Requests : pc[x] \in {"waiting", "returned"} => pc'[x] \in {"waiting", "returned"}
        BY <1>0, <1>2, <2>1 DEF Send, flushing
      <3> QED BY <1>0, <3>1, LayoutFrame, Zenon
    <2>2. CASE ~isClosed
      <3>1. /\ pc[r] = "reserved" /\ requests' = Append(requests, r) /\ accepted' = Append(accepted, r)
            /\ pc' = [pc EXCEPT ![r] = "waiting"] /\ UNCHANGED <<batch, flushFor>>
        BY <1>2, <2>2 DEF Send, flushing
      <3> QED BY <1>0, <3>1, LayoutSend, Zenon
    <2> QED BY <2>1, <2>2
  <1>3. ASSUME NEW r \in Requests, EncodeFails(r) PROVE LayoutOK'
    <2>1. /\ UNCHANGED <<requests, batch, flushFor, accepted>>
          /\ \A x \in Requests : pc[x] \in {"waiting", "returned"} => pc'[x] \in {"waiting", "returned"}
      BY <1>0, <1>3 DEF EncodeFails, flushing
    <2> QED BY <1>0, <2>1, LayoutFrame, Zenon
  <1>5. ASSUME NEW r \in Requests, Return(r) PROVE LayoutOK'
    <2>1. /\ UNCHANGED <<requests, batch, flushFor, accepted>>
          /\ \A x \in Requests : pc[x] \in {"waiting", "returned"} => pc'[x] \in {"waiting", "returned"}
      BY <1>0, <1>5 DEF Return, flushing
    <2> QED BY <1>0, <2>1, LayoutFrame, Zenon
  <1>7. CASE Take
    <2>0. /\ requests # <<>> /\ requests' = Tail(requests) /\ flushFor = None
          /\ UNCHANGED <<accepted, pc>>
      BY <1>7 DEF Take, BatchInv, ControlOK, callers
    <2>1. \/ batch' = Append(batch, Head(requests)) /\ flushFor' = None
          \/ UNCHANGED batch /\ flushFor' = Head(requests)
          \/ batch = <<>> /\ UNCHANGED <<batch, flushFor>>
      BY <1>7 DEF Take, BatchInv, ControlOK
    <2> QED BY <1>0, <2>0, <2>1, LayoutTake, Zenon
  <1>10. CASE DrainEmpty
    <2>1. UNCHANGED <<requests, batch, flushFor, accepted, pc>>
      BY <1>10 DEF DrainEmpty, BatchInv, ControlOK, callers
    <2> QED BY <1>0, <2>1, LayoutFrame, Zenon
  <1>11. CASE \E S, f : FlushEnds(S, f) /\ UNCHANGED <<requests, accepted, pc>>
    <2>1. batch' = <<>> /\ flushFor' = None /\ UNCHANGED <<requests, accepted, pc>>
      BY <1>11 DEF FlushEnds
    <2> QED BY <1>0, <2>1, LayoutFlush, Zenon
  <1>12. CASE UNCHANGED <<requests, batch, flushFor, accepted, pc>>
    BY <1>0, <1>12, LayoutFrame, Zenon
  <1>13. Filter \/ AcquireSlot \/ WaitResult =>
            \/ \E S, f : FlushEnds(S, f) /\ UNCHANGED <<requests, accepted, pc>>
            \/ UNCHANGED <<requests, batch, flushFor, accepted, pc>>
    BY DEF Filter, AcquireSlot, WaitResult, callers
  <1>14. \/ \E r \in Requests : Cancel(r)
         \/ Close \/ TimerFires \/ SeeClosed \/ Quiesce \/ Expire \/ UNCHANGED vars
         \/ \E b \in running : PipelineEnds(b)
         => UNCHANGED <<requests, batch, flushFor, accepted, pc>>
    BY DEF Cancel, Close, TimerFires, SeeClosed, Quiesce, Expire, vars, flushing, callers,
           PipelineEnds, BatchInv, ControlOK
  <1> QED BY <1>1, <1>2, <1>3, <1>5, <1>7, <1>10, <1>11, <1>12, <1>13, <1>14 DEF Next, LoopStep

----------------------------------------------------------------------------
\* A step that answers nobody and does not move Base keeps the answers right.
LEMMA AnswersFrame ==
    ASSUME AnswersOK, UNCHANGED <<answers, accepted>>, Base' = Base,
           \/ loop \notin {"slot", "wait"} /\ loop' \notin {"slot", "wait"}
           \/ loop \in {"slot", "wait"} /\ loop' \in {"slot", "wait"} /\ UNCHANGED <<batch, active>>
    PROVE  AnswersOK'
  <1>1. CASE loop \notin {"slot", "wait"} /\ loop' \notin {"slot", "wait"}
    <2>1. \A i \in 1..Len(accepted) : answers[accepted[i]] = IF i <= Base THEN 1 ELSE 0
      BY <1>1 DEF AnswersOK
    <2> QED BY <1>1, <2>1 DEF AnswersOK
  <1>2. CASE loop \in {"slot", "wait"} /\ loop' \in {"slot", "wait"} /\ UNCHANGED <<batch, active>>
    BY <1>2 DEF AnswersOK
  <1> QED BY <1>1, <1>2

\* A request that enters the channel has no answer yet.
LEMMA AnswersSend ==
    ASSUME SeqsOK, LayoutOK, AnswersOK, NEW r \in Requests, \A i \in 1..Len(accepted) : accepted[i] # r,
           accepted' = Append(accepted, r), Base' = Base,
           UNCHANGED <<answers, loop, batch, active>>
    PROVE  AnswersOK'
  <1> DEFINE n == Len(accepted)
  <1>0. n \in Nat /\ Len(requests) \in Nat /\ Len(batch) \in Nat /\ Flushed \in {0, 1}
    BY DEF SeqsOK, Flushed
  <1>1. /\ Len(accepted') = n + 1 /\ accepted'[n + 1] = r
        /\ \A i \in 1..n : accepted'[i] = accepted[i]
    BY AppendProperties DEF SeqsOK
  <1>2. Base \in Nat /\ Base + Len(batch) <= n
    BY <1>0 DEF Base, LayoutOK
  <1>3. answers[r] = 0
    BY DEF AnswersOK
  <1>4. ASSUME NEW i \in 1..(n + 1)
        PROVE  answers[accepted'[i]] =
                 IF i <= Base \/ (i <= Base + Len(batch) /\ loop \in {"slot", "wait"}
                                  /\ accepted'[i] \notin Range(active))
                 THEN 1 ELSE 0
    <2>1. CASE i = n + 1
      BY <1>0, <1>1, <1>2, <1>3, <2>1
    <2>2. CASE i \in 1..n
      BY <1>1, <2>2 DEF AnswersOK
    <2>3. i \in 1..n \/ i = n + 1
      <3> HIDE DEF n
      <3> QED BY <1>0
    <2> QED BY <2>1, <2>2, <2>3, Zenon
  <1>5. ASSUME NEW x \in Requests, \A i \in 1..(n + 1) : accepted'[i] # x PROVE answers[x] = 0
    <2>1. \A i \in 1..n : accepted[i] # x
      BY <1>0, <1>1, <1>5
    <2> QED BY <2>1 DEF AnswersOK
  <1> QED BY <1>1, <1>4, <1>5 DEF AnswersOK

\* The head of the channel answered at once: Base moves over it.
LEMMA AnswersTake ==
    ASSUME SeqsOK, LayoutOK, AnswersOK, answers \in [Requests -> Nat],
           requests # <<>>, flushFor = None, batch = <<>>,
           loop \notin {"slot", "wait"}, loop' \notin {"slot", "wait"},
           Answer({Head(requests)}), UNCHANGED accepted, Base' = Base + 1
    PROVE  AnswersOK'
  <1> DEFINE n == Len(accepted)
  <1>0. n \in Nat /\ Len(requests) \in Nat \ {0} /\ Len(batch) = 0 /\ Flushed = 0
    BY EmptySeq DEF SeqsOK, Flushed
  <1>1. Base \in Nat /\ Base + 1 \in 1..n
    BY <1>0 DEF Base, LayoutOK
  <1>2. Head(requests) = accepted[Base + 1]
    <2>1. Head(requests) = requests[1]
      BY HeadTailProperties DEF SeqsOK
    <2>2. requests[1] = accepted[Base + Len(batch) + Flushed + 1]
      BY <1>0 DEF LayoutOK
    <2>3. Base + Len(batch) + Flushed + 1 = Base + 1
      BY <1>0, <1>1
    <2> QED BY <2>1, <2>2, <2>3
  <1>3. \A i \in 1..n : answers[accepted[i]] = IF i <= Base THEN 1 ELSE 0
    BY DEF AnswersOK
  <1>4. \A i \in 1..n : accepted[i] \in Requests /\ (accepted[i] = Head(requests) <=> i = Base + 1)
    BY <1>1, <1>2 DEF SeqsOK, LayoutOK
  <1>5. \A i \in 1..n : answers'[accepted[i]] = IF i <= Base + 1 THEN 1 ELSE 0
    BY <1>1, <1>3, <1>4 DEF Answer
  <1>6. ASSUME NEW x \in Requests, \A i \in 1..n : accepted[i] # x PROVE answers'[x] = 0
    BY <1>1, <1>2, <1>6 DEF Answer, AnswersOK
  <1> QED BY <1>5, <1>6 DEF AnswersOK

\* Where the batch and the flush request are among the accepted requests.
LEMMA BatchPlaces ==
    ASSUME SeqsOK, LayoutOK
    PROVE  /\ Base \in Nat /\ Len(batch) \in Nat /\ Flushed \in {0, 1}
           /\ Base + Len(batch) + Flushed <= Len(accepted) /\ Len(accepted) \in Nat
           /\ \A i \in 1..Len(accepted) : accepted[i] \in Requests
           /\ \A i \in 1..Len(accepted) : accepted[i] \in Range(batch) <=> i \in (Base + 1)..(Base + Len(batch))
           /\ \A r \in Range(batch) : \E i \in (Base + 1)..(Base + Len(batch)) : r = accepted[i]
           /\ flushFor # None => \A i \in 1..Len(accepted) : accepted[i] = flushFor <=> i = Base + Len(batch) + 1
  <1>1. /\ Base \in Nat /\ Len(batch) \in Nat /\ Flushed \in {0, 1}
        /\ Base + Len(batch) + Flushed <= Len(accepted) /\ Len(accepted) \in Nat
        /\ flushFor # None => Flushed = 1
    BY DEF SeqsOK, LayoutOK, Base, Flushed
  <1>2. \A i \in 1..Len(accepted) : accepted[i] \in Requests
    BY DEF SeqsOK
  <1>3. Range(batch) = {batch[k] : k \in 1..Len(batch)}
    BY DEF Range, SeqsOK
  <1>4. \A r \in Range(batch) : \E i \in (Base + 1)..(Base + Len(batch)) : r = accepted[i]
    <2> SUFFICES ASSUME NEW k \in 1..Len(batch)
                 PROVE  \E i \in (Base + 1)..(Base + Len(batch)) : batch[k] = accepted[i]
      BY <1>3
    <2>1. batch[k] = accepted[Base + k]
      BY DEF LayoutOK
    <2>2. Base + k \in (Base + 1)..(Base + Len(batch))
      BY <1>1
    <2> QED BY <2>1, <2>2
  <1>5. ASSUME NEW i \in (Base + 1)..(Base + Len(batch)) PROVE accepted[i] \in Range(batch)
    <2>1. i - Base \in 1..Len(batch) /\ Base + (i - Base) = i
      BY <1>1
    <2>2. batch[i - Base] = accepted[Base + (i - Base)]
      BY <2>1 DEF LayoutOK
    <2> QED BY <1>3, <2>1, <2>2
  <1>6. ASSUME NEW i \in 1..Len(accepted), accepted[i] \in Range(batch)
        PROVE  i \in (Base + 1)..(Base + Len(batch))
    <2>1. PICK j \in (Base + 1)..(Base + Len(batch)) : accepted[i] = accepted[j]
      BY <1>4, <1>6
    <2>2. j \in 1..Len(accepted)
      BY <1>1
    <2>3. i = j
      BY <2>1, <2>2 DEF LayoutOK
    <2> QED BY <2>3
  <1>7. ASSUME flushFor # None, NEW i \in 1..Len(accepted)
        PROVE  accepted[i] = flushFor <=> i = Base + Len(batch) + 1
    <2>1. Base + Len(batch) + 1 \in 1..Len(accepted)
      BY <1>1, <1>7
    <2> QED BY <1>7, <2>1 DEF LayoutOK
  <1> QED BY <1>1, <1>2, <1>4, <1>5, <1>6, <1>7

\* flush answers everything that is left of its batch, and the flush request.
LEMMA AnswersFlush ==
    ASSUME SeqsOK, LayoutOK, AnswersOK, answers \in [Requests -> Nat],
           NEW S, NEW f, FlushEnds(S, f), UNCHANGED accepted,
           Base' = Base + Len(batch) + Flushed, batch' = <<>>,
           S \subseteq Range(batch),
           \A r \in Range(batch) : r \in S <=> answers[r] = 0
    PROVE  AnswersOK'
  <1> DEFINE n == Len(accepted)
             T == S \cup (IF flushFor = None THEN {} ELSE {flushFor})
             last == Base + Len(batch) + Flushed
  <1>0. /\ Base \in Nat /\ Len(batch) \in Nat /\ Flushed \in {0, 1} /\ n \in Nat
        /\ (flushFor = None => Flushed = 0) /\ (flushFor # None => Flushed = 1)
        /\ last <= n
    BY BatchPlaces DEF Flushed
  <1>1. \A r \in Requests : answers'[r] = IF r \in T THEN answers[r] + 1 ELSE answers[r]
    BY DEF FlushEnds, Answer
  <1>2. \A i \in 1..n : /\ accepted[i] \in Requests
                        /\ accepted[i] \in Range(batch) <=> i \in (Base + 1)..(Base + Len(batch))
                        /\ flushFor # None => (accepted[i] = flushFor <=> i = Base + Len(batch) + 1)
    BY BatchPlaces
  <1>3. loop' \notin {"slot", "wait"}
    BY DEF FlushEnds
  <1>4. ASSUME NEW i \in 1..n PROVE answers'[accepted[i]] = IF i <= last THEN 1 ELSE 0
    <2>0. \/ i \in 1..Base \/ i \in (Base + 1)..(Base + Len(batch))
          \/ (i = Base + Len(batch) + 1 /\ Flushed = 1) \/ i > last
      BY <1>0
    <2>1. CASE i \in 1..Base
      <3>1. answers[accepted[i]] = 1
        BY <1>0, <2>1 DEF AnswersOK
      <3>2. accepted[i] \notin T
        BY <1>0, <1>2, <2>1
      <3> QED BY <1>0, <1>1, <1>2, <2>1, <3>1, <3>2
    <2>2. CASE i \in (Base + 1)..(Base + Len(batch))
      <3>1. answers[accepted[i]] \in {0, 1}
        BY DEF AnswersOK
      <3>2. accepted[i] \in T <=> answers[accepted[i]] = 0
        BY <1>0, <1>2, <2>2
      <3>3. i <= last
        BY <1>0, <2>2
      <3> QED BY <1>1, <1>2, <3>1, <3>2, <3>3
    <2>3. CASE i = Base + Len(batch) + 1 /\ Flushed = 1
      <3>1. answers[accepted[i]] = 0
        BY <1>0, <2>3 DEF AnswersOK
      <3>2. accepted[i] \in T
        BY <1>0, <1>2, <2>3
      <3>3. i <= last
        BY <1>0, <2>3
      <3> QED BY <1>1, <1>2, <3>1, <3>2, <3>3
    <2>4. CASE i > last
      <3>1. answers[accepted[i]] = 0
        BY <1>0, <2>4 DEF AnswersOK
      <3>2. accepted[i] \notin T
        BY <1>0, <1>2, <2>4
      <3>3. ~ (i <= last)
        BY <1>0, <2>4
      <3> QED BY <1>1, <1>2, <3>1, <3>2, <3>3
    <2> QED BY <2>0, <2>1, <2>2, <2>3, <2>4
  <1>5. ASSUME NEW x \in Requests, \A i \in 1..n : accepted[i] # x PROVE answers'[x] = 0
    <2>1. x \notin Range(batch)
      <3>1. \A i \in (Base + 1)..(Base + Len(batch)) : i \in 1..n
        BY <1>0
      <3>2. \A r \in Range(batch) : \E i \in (Base + 1)..(Base + Len(batch)) : r = accepted[i]
        BY BatchPlaces, Zenon
      <3> QED BY <1>5, <3>1, <3>2
    <2>2. x # flushFor \/ flushFor = None
      <3>1. flushFor # None => Base + Len(batch) + 1 \in 1..n
        BY <1>0
      <3> QED BY <1>2, <1>5, <3>1
    <2>3. x \notin T
      BY <2>1, <2>2
    <2>4. answers[x] = 0
      BY <1>5 DEF AnswersOK
    <2> QED BY <1>1, <2>3, <2>4
  <1> QED BY <1>3, <1>4, <1>5 DEF AnswersOK

\* What of the batch is still unanswered: all of it before the filter, then the
\* requests of the pipeline.
LEMMA BatchUnanswered ==
    ASSUME SeqsOK, LayoutOK, AnswersOK
    PROVE  \A r \in Range(batch) :
              answers[r] = IF loop \in {"slot", "wait"} /\ r \notin Range(active) THEN 1 ELSE 0
  <1> SUFFICES ASSUME NEW r \in Range(batch)
               PROVE  answers[r] = IF loop \in {"slot", "wait"} /\ r \notin Range(active) THEN 1 ELSE 0
    OBVIOUS
  <1>1. PICK i \in (Base + 1)..(Base + Len(batch)) : r = accepted[i]
    BY BatchPlaces, Zenon
  <1>2. i \in 1..Len(accepted) /\ ~ (i <= Base) /\ i <= Base + Len(batch)
    BY BatchPlaces
  <1> QED BY <1>1, <1>2 DEF AnswersOK

\* What the filter keeps of the batch is what is not cancelled.
LEMMA LiveOfBatch ==
    ASSUME SeqsOK
    PROVE  /\ Live(batch) \in Seq(Requests)
           /\ Range(Live(batch)) = {r \in Range(batch) : ~cancelled[r]}
           /\ Within(Live(batch), batch, Len(batch))
  <1> DEFINE s == Live(batch)
  <1>0. batch \in Seq(Requests)
    BY DEF SeqsOK, Requests
  <1>1. Selects(s, batch, Len(batch))
    BY <1>0, LiveSelects
  <1> HIDE DEF s
  <1>2. s \in Seq(Requests)
    BY <1>1 DEF Selects
  <1>3. /\ Range(s) = {s[i] : i \in 1..Len(s)}
        /\ Range(batch) = {batch[i] : i \in 1..Len(batch)}
    BY <1>0, <1>2 DEF Range
  <1>4. ASSUME NEW r \in Range(s) PROVE r \in Range(batch) /\ ~cancelled[r]
    <2>1. PICK a \in 1..Len(s) : r = s[a]
      BY <1>3
    <2>2. PICK k \in 1..Len(batch) : batch[k] = s[a] /\ ~cancelled[batch[k]]
      BY <1>1, Zenon DEF Selects
    <2>3. ~cancelled[r]
      BY <2>1, <2>2, Zenon
    <2> QED BY <1>3, <2>1, <2>2, <2>3, Zenon
  <1>5. ASSUME NEW r \in Range(batch), ~cancelled[r] PROVE r \in Range(s)
    <2>1. PICK k \in 1..Len(batch) : r = batch[k]
      BY <1>3
    <2>2. ~cancelled[batch[k]]
      BY <1>5, <2>1, Zenon
    <2>3. PICK a \in 1..Len(s) : s[a] = batch[k]
      BY <1>1, <2>2, Zenon DEF Selects
    <2> QED BY <1>3, <2>1, <2>3, Zenon
  <1>6. Range(s) = {r \in Range(batch) : ~cancelled[r]}
    BY <1>4, <1>5, Zenon
  <1>7. Within(s, batch, Len(batch))
    BY <1>1, Zenon DEF Selects, Within
  <1> QED BY <1>2, <1>6, <1>7 DEF s

\* The filter answers what it leaves out of the pipeline.
LEMMA AnswersFilter ==
    ASSUME SeqsOK, LayoutOK, AnswersOK, answers \in [Requests -> Nat], cancelled \in [Requests -> BOOLEAN],
           loop = "filter", loop' = "slot", active' = Live(batch),
           Answer({r \in Range(batch) : cancelled[r]}),
           UNCHANGED <<accepted, batch>>, Base' = Base
    PROVE  AnswersOK'
  <1> DEFINE n == Len(accepted)
             dead == {r \in Range(batch) : cancelled[r]}
  <1>0. Base \in Nat /\ Len(batch) \in Nat /\ n \in Nat
    BY BatchPlaces
  <1>1. \A r \in Requests : answers'[r] = IF r \in dead THEN answers[r] + 1 ELSE answers[r]
    BY DEF Answer
  <1>2. Range(active') = {r \in Range(batch) : ~cancelled[r]}
    BY LiveOfBatch
  <1>3. \A i \in 1..n : /\ accepted[i] \in Requests
                        /\ accepted[i] \in Range(batch) <=> i \in (Base + 1)..(Base + Len(batch))
    BY BatchPlaces
  <1>4. \A i \in 1..n : answers[accepted[i]] = IF i <= Base THEN 1 ELSE 0
    BY DEF AnswersOK
  <1> HIDE DEF dead
  <1>5. ASSUME NEW i \in 1..n
        PROVE  answers'[accepted[i]] =
                 IF i <= Base \/ (i <= Base + Len(batch) /\ accepted[i] \notin Range(active'))
                 THEN 1 ELSE 0
    <2>1. CASE i \in (Base + 1)..(Base + Len(batch))
      <3>1. accepted[i] \in Range(batch)
        BY <1>3, <2>1
      <3>2. accepted[i] \in dead <=> accepted[i] \notin Range(active')
        BY <1>2, <3>1, Zenon DEF dead
      <3>3. ~ (i <= Base) /\ i <= Base + Len(batch)
        BY <1>0, <2>1
      <3> QED BY <1>1, <1>3, <1>4, <3>2, <3>3
    <2>2. CASE i \notin (Base + 1)..(Base + Len(batch))
      <3>1. accepted[i] \notin dead
        BY <1>3, <2>2 DEF dead
      <3>2. i <= Base \/ ~ (i <= Base + Len(batch))
        BY <1>0, <2>2
      <3>3. i <= Base + Len(batch) => i <= Base
        BY <3>2
      <3> QED BY <1>1, <1>3, <1>4, <3>1, <3>3
    <2> QED BY <2>1, <2>2
  <1>6. ASSUME NEW x \in Requests, \A i \in 1..n : accepted[i] # x PROVE answers'[x] = 0
    <2>1. x \notin Range(batch)
      <3>1. \A i \in (Base + 1)..(Base + Len(batch)) : i \in 1..n
        BY BatchPlaces
      <3>2. \A r \in Range(batch) : \E i \in (Base + 1)..(Base + Len(batch)) : r = accepted[i]
        BY BatchPlaces, Zenon
      <3> QED BY <1>6, <3>1, <3>2
    <2>2. x \notin dead
      BY <2>1 DEF dead
    <2>3. answers[x] = 0
      BY <1>6 DEF AnswersOK
    <2> QED BY <1>1, <2>2, <2>3
  <1> QED BY <1>5, <1>6 DEF AnswersOK

\* Every step keeps the answers right: no request is answered twice or skipped.
LEMMA AnswersStep == BatchInv /\ [Next]_vars => AnswersOK'
  <1> SUFFICES ASSUME BatchInv, [Next]_vars PROVE AnswersOK'
    OBVIOUS
  <1>0. /\ SeqsOK /\ LayoutOK /\ AnswersOK /\ None \notin Requests
        /\ pc \in [Requests -> {"idle", "reserved", "waiting", "returned"}]
        /\ answers \in [Requests -> Nat] /\ cancelled \in [Requests -> BOOLEAN]
    BY AutoBatchConstants DEF BatchInv, TypeOK
  <1>1. CASE /\ UNCHANGED <<answers, accepted, requests, batch, flushFor>>
             /\ \/ loop \notin {"slot", "wait"} /\ loop' \notin {"slot", "wait"}
                \/ loop \in {"slot", "wait"} /\ loop' \in {"slot", "wait"} /\ UNCHANGED active
    <2>1. Base' = Base
      BY <1>1 DEF Base, Flushed
    <2> QED BY <1>0, <1>1, <2>1, AnswersFrame, Zenon
  <1>2. ASSUME NEW r \in Requests, Send(r), ~isClosed PROVE AnswersOK'
    <2>1. /\ pc[r] = "reserved" /\ requests' = Append(requests, r) /\ accepted' = Append(accepted, r)
          /\ pc' = [pc EXCEPT ![r] = "waiting"] /\ UNCHANGED <<answers, loop, active, batch, flushFor>>
      BY <1>2 DEF Send, flushing
    <2>2. Base' = Base
      BY <1>0, <2>1, LayoutSend, Zenon
    <2>3. \A i \in 1..Len(accepted) : accepted[i] # r
      BY <1>0, <2>1 DEF LayoutOK
    <2> QED BY <1>0, <2>1, <2>2, <2>3, AnswersSend, Zenon
  <1>3. CASE Take
    <2>0. /\ requests # <<>> /\ requests' = Tail(requests) /\ flushFor = None
          /\ UNCHANGED <<accepted, pc>>
          /\ loop \notin {"slot", "wait"} /\ loop' \notin {"slot", "wait"}
      BY <1>3 DEF Take, BatchInv, ControlOK, callers
    <2>1. CASE UNCHANGED answers
      <3>1. \/ batch' = Append(batch, Head(requests)) /\ flushFor' = None
            \/ UNCHANGED batch /\ flushFor' = Head(requests)
            \/ Answer({Head(requests)})
        BY <1>3, <2>0 DEF Take, BatchInv, ControlOK
      <3>2. ~ Answer({Head(requests)})
        <4>1. Head(requests) \in Requests
          BY <1>0, <2>0 DEF SeqsOK
        <4> QED BY <1>0, <2>1, <4>1 DEF Answer
      <3>3. Base' = Base
        BY <1>0, <2>0, <3>1, <3>2, LayoutTake, Zenon
      <3> QED BY <1>0, <2>0, <2>1, <3>3, AnswersFrame, Zenon
    <2>2. CASE Answer({Head(requests)}) /\ batch = <<>> /\ UNCHANGED <<batch, flushFor>>
      <3>1. Base' = Base + 1
        BY <1>0, <2>0, <2>2, LayoutTake, Zenon
      <3> QED BY <1>0, <2>0, <2>2, <3>1, AnswersTake, Zenon
    <2> QED BY <1>3, <2>1, <2>2 DEF Take, BatchInv, ControlOK
  <1>4. CASE DrainEmpty
    <2>1. UNCHANGED <<accepted, requests, batch, flushFor>>
          /\ loop \notin {"slot", "wait"} /\ loop' \notin {"slot", "wait"}
      BY <1>4 DEF DrainEmpty, BatchInv, ControlOK
    <2>2. UNCHANGED answers
      <3>1. CASE terminal
        <4>1. batch = <<>> /\ Answer(Range(batch))
          BY <1>4, <3>1 DEF DrainEmpty, BatchInv, ControlOK
        <4>2. Range(batch) = {}
          BY <4>1 DEF Range
        <4> QED BY <1>0, <4>1, <4>2 DEF Answer
      <3>2. CASE ~terminal
        BY <1>4, <3>2 DEF DrainEmpty
      <3> QED BY <3>1, <3>2
    <2> QED BY <1>1, <2>1, <2>2
  <1>5. ASSUME NEW S, NEW f, FlushEnds(S, f), UNCHANGED <<requests, accepted, pc>>,
               S \subseteq Range(batch), \A r \in Range(batch) : r \in S <=> answers[r] = 0
        PROVE  AnswersOK'
    <2>1. batch' = <<>> /\ flushFor' = None /\ UNCHANGED <<requests, accepted, pc>>
      BY <1>5 DEF FlushEnds
    <2>2. Base' = Base + Len(batch) + Flushed
      BY <1>0, <2>1, LayoutFlush, Zenon
    <2> QED BY <1>0, <1>5, <2>1, <2>2, AnswersFlush, Zenon
  <1>6. CASE Filter
    <2> DEFINE dead == {r \in Range(batch) : cancelled[r]}
    <2>0. loop = "filter" /\ UNCHANGED <<requests, accepted, pc>>
      BY <1>6 DEF Filter, callers
    <2>1. CASE Live(batch) = <<>>
      <3>1. FlushEnds(dead, FALSE)
        BY <1>6, <2>1, Zenon DEF Filter
      <3>2. Range(<<>>) = {}
        BY DEF Range
      <3>3. \A r \in Range(batch) : cancelled[r]
        BY <1>0, <2>1, <3>2, LiveOfBatch, Zenon
      <3>4. \A r \in Range(batch) : answers[r] = 0
        BY <1>0, <2>0, BatchUnanswered
      <3>5. dead \subseteq Range(batch) /\ \A r \in Range(batch) : r \in dead <=> answers[r] = 0
        BY <3>3, <3>4, Zenon
      <3> HIDE DEF dead
      <3> QED BY <1>5, <2>0, <3>1, <3>5, Zenon
    <2>2. CASE Live(batch) # <<>>
      <3>1. /\ Answer(dead) /\ active' = Live(batch) /\ loop' = "slot"
            /\ UNCHANGED <<batch, flushFor>>
        BY <1>6, <2>2, Zenon DEF Filter
      <3>2. Base' = Base
        BY <2>0, <3>1 DEF Base, Flushed
      <3> QED BY <1>0, <2>0, <3>1, <3>2, AnswersFilter, Zenon
    <2> QED BY <2>1, <2>2
  <1>7. ASSUME loop \in {"slot", "wait"}, NEW f, FlushEnds(Range(active), f),
               UNCHANGED <<requests, accepted, pc>>
        PROVE  AnswersOK'
    <2>1. Range(active) \subseteq Range(batch)
      <3>1. \A i \in 1..Len(active) : \E k \in 1..Len(batch) : batch[k] = active[i]
        BY <1>7 DEF BatchInv, PipelinesOK, Within
      <3>2. /\ Range(active) = {active[i] : i \in 1..Len(active)}
            /\ Range(batch) = {batch[i] : i \in 1..Len(batch)}
        BY <1>0 DEF Range, SeqsOK
      <3> QED BY <3>1, <3>2
    <2>2. \A r \in Range(batch) : r \in Range(active) <=> answers[r] = 0
      BY <1>0, <1>7, BatchUnanswered
    <2> QED BY <1>5, <1>7, <2>1, <2>2, Zenon
  <1>8. CASE AcquireSlot
    <2>1. loop \in {"slot", "wait"} /\ UNCHANGED <<requests, accepted, pc>>
      BY <1>8 DEF AcquireSlot, callers
    <2>2. CASE FlushEnds(Range(active), TRUE)
      BY <1>7, <2>1, <2>2, Zenon
    <2>3. CASE loop' = "wait" /\ UNCHANGED <<answers, batch, active, flushFor>>
      BY <1>1, <2>1, <2>3
    <2> QED BY <1>8, <2>2, <2>3, Zenon DEF AcquireSlot
  <1>9. CASE WaitResult
    <2>1. loop \in {"slot", "wait"} /\ UNCHANGED <<requests, accepted, pc>>
      BY <1>9 DEF WaitResult, callers
    <2>2. \E f : FlushEnds(Range(active), f)
      BY <1>9, Zenon DEF WaitResult
    <2> QED BY <1>7, <2>1, <2>2, Zenon
  <1>10. \/ \E r \in Requests : Reserve(r) \/ EncodeFails(r) \/ Cancel(r) \/ Return(r)
                               \/ (Send(r) /\ isClosed)
         \/ Close \/ Quiesce \/ Expire \/ UNCHANGED vars
         \/ \E b \in running : PipelineEnds(b)
         => UNCHANGED <<answers, accepted, requests, batch, flushFor, loop, active>> \/ Quiesce
    BY DEF Cancel, Close, Reserve, EncodeFails, Return, Send, Expire, vars, flushing, callers,
           PipelineEnds, BatchInv, ControlOK
  <1>11. TimerFires \/ SeeClosed \/ Quiesce
         => /\ UNCHANGED <<answers, accepted, requests, batch, flushFor>>
            /\ loop \notin {"slot", "wait"} /\ loop' \notin {"slot", "wait"}
    BY DEF TimerFires, SeeClosed, Quiesce, flushing, BatchInv, ControlOK
  <1>12. UNCHANGED <<answers, accepted, requests, batch, flushFor, loop, active>> => AnswersOK'
    BY <1>1
  <1>13. TimerFires \/ SeeClosed \/ Quiesce => AnswersOK'
    BY <1>1, <1>11
  <1> QED BY <1>2, <1>3, <1>4, <1>6, <1>8, <1>9, <1>10, <1>12, <1>13 DEF Next, LoopStep

----------------------------------------------------------------------------
\* Accepting more, or moving the horizon on, keeps what is within it there.
LEMMA WithinMore ==
    ASSUME NEW s, NEW t, NEW u, NEW h \in Nat, NEW g \in Nat, h <= g, Within(s, t, h),
           \A k \in 1..h : u[k] = t[k]
    PROVE  Within(s, u, g)
  <1>1. \A k \in 1..h : k \in 1..g
    OBVIOUS
  <1>2. ASSUME NEW i \in 1..Len(s) PROVE \E k \in 1..g : u[k] = s[i]
    <2>1. PICK k \in 1..h : t[k] = s[i]
      BY Zenon DEF Within
    <2> QED BY <1>1, <2>1, Zenon
  <1>3. ASSUME NEW i \in 1..Len(s), NEW j \in 1..Len(s), i < j
        PROVE  \E k, m \in 1..g : k < m /\ u[k] = s[i] /\ u[m] = s[j]
    <2>1. PICK k \in 1..h, m \in 1..h : k < m /\ t[k] = s[i] /\ t[m] = s[j]
      BY <1>3, Zenon DEF Within
    <2> QED BY <1>1, <2>1, Zenon
  <1> QED BY <1>2, <1>3, Zenon DEF Within

\* A pipeline of the batch starts behind everything that was started before it.
LEMMA WithinConcat ==
    ASSUME NEW S, NEW x \in Seq(S), NEW y \in Seq(S), NEW t, NEW b, NEW p \in Nat, NEW n \in Nat,
           Within(x, t, p), Within(y, b, n), \A i \in 1..n : b[i] = t[p + i]
    PROVE  Within(x \o y, t, p + n)
  <1> DEFINE h == p + n
             e == Len(x)
             a == Len(y)
             z == x \o y
  <1>0. e \in Nat /\ a \in Nat
    OBVIOUS
  <1>1. /\ Len(z) = e + a
        /\ \A i \in 1..e : z[i] = x[i]
        /\ \A i \in 1..a : z[e + i] = y[i]
    OBVIOUS
  <1>3. /\ \A k \in 1..p : k \in 1..h
        /\ \A k \in 1..n : p + k \in 1..h
        /\ \A k \in 1..p, m \in 1..n : k < p + m
        /\ \A k, m \in 1..n : k < m => p + k < p + m
    OBVIOUS
  <1>4. \A i \in 1..(e + a) : i \in 1..e \/ (i - e \in 1..a /\ e + (i - e) = i)
    <2> HIDE DEF e, a
    <2> QED BY <1>0
  <1> HIDE DEF h, e, a, z
  <1>5. ASSUME NEW i \in 1..(e + a) PROVE \E k \in 1..h : t[k] = z[i]
    <2>1. CASE i \in 1..e
      <3>1. PICK k \in 1..p : t[k] = x[i]
        BY <2>1, Zenon DEF Within, e
      <3> QED BY <1>1, <1>3, <2>1, <3>1, Zenon
    <2>2. CASE i - e \in 1..a /\ e + (i - e) = i
      <3>1. PICK k \in 1..n : b[k] = y[i - e]
        BY <2>2, Zenon DEF Within, a
      <3>2. z[i] = y[i - e]
        BY <1>1, <2>2, Zenon
      <3> QED BY <1>3, <3>1, <3>2, Zenon
    <2> QED BY <1>4, <2>1, <2>2, Zenon
  <1>6. ASSUME NEW i \in 1..(e + a), NEW j \in 1..(e + a), i < j
        PROVE  \E k, m \in 1..h : k < m /\ t[k] = z[i] /\ t[m] = z[j]
    <2>1. CASE i \in 1..e /\ j \in 1..e
      <3>1. PICK k \in 1..p, m \in 1..p : k < m /\ t[k] = x[i] /\ t[m] = x[j]
        BY <1>6, <2>1, Zenon DEF Within, e
      <3> QED BY <1>1, <1>3, <2>1, <3>1, Zenon
    <2>2. CASE i \in 1..e /\ j - e \in 1..a /\ e + (j - e) = j
      <3>1. PICK k \in 1..p : t[k] = x[i]
        BY <2>2, Zenon DEF Within, e
      <3>2. PICK m \in 1..n : b[m] = y[j - e]
        BY <2>2, Zenon DEF Within, a
      <3>3. z[j] = y[j - e] /\ z[i] = x[i]
        BY <1>1, <2>2, Zenon
      <3> QED BY <1>3, <3>1, <3>2, <3>3, Zenon
    <2>3. CASE i - e \in 1..a /\ e + (i - e) = i /\ j - e \in 1..a /\ e + (j - e) = j
      <3>0. i - e < j - e
        BY <1>0, <1>6
      <3>1. PICK k \in 1..n, m \in 1..n : k < m /\ b[k] = y[i - e] /\ b[m] = y[j - e]
        BY <2>3, <3>0, Zenon DEF Within, a
      <3>2. z[i] = y[i - e] /\ z[j] = y[j - e]
        BY <1>1, <2>3, Zenon
      <3> QED BY <1>3, <3>1, <3>2, Zenon
    <2>4. ~ (j \in 1..e /\ i - e \in 1..a)
      BY <1>0, <1>6
    <2> QED BY <1>4, <2>1, <2>2, <2>3, <2>4, Zenon
  <1>7. Within(z, t, h)
    <2>1. \A i \in 1..Len(z) : \E k \in 1..h : t[k] = z[i]
      BY <1>1, <1>5
    <2>2. ASSUME NEW i \in 1..Len(z), NEW j \in 1..Len(z), i < j
          PROVE  \E k, m \in 1..h : k < m /\ t[k] = z[i] /\ t[m] = z[j]
      <3>1. i \in 1..(e + a) /\ j \in 1..(e + a)
        BY <1>1
      <3> QED BY <1>6, <2>2, <3>1, Zenon
    <2> QED BY <2>1, <2>2, Zenon DEF Within
  <1> QED BY <1>7 DEF z, h

\* Every step keeps the pipelines in the order of acceptance.
LEMMA PipelinesStep == BatchInv /\ [Next]_vars => PipelinesOK'
  <1> SUFFICES ASSUME BatchInv, [Next]_vars PROVE PipelinesOK'
    OBVIOUS
  <1>0. /\ SeqsOK /\ LayoutOK /\ None \notin Requests /\ PipelinesOK /\ ControlOK
        /\ pc \in [Requests -> {"idle", "reserved", "waiting", "returned"}]
        /\ Within(executed, accepted, Horizon)
        /\ (loop \in {"slot", "wait"} => Within(active, batch, Len(batch)))
    BY AutoBatchConstants DEF BatchInv, TypeOK, PipelinesOK
  <1>1. /\ Base \in Nat /\ Len(batch) \in Nat /\ Horizon \in Nat /\ Horizon <= Len(accepted)
        /\ Len(accepted) \in Nat /\ Flushed \in {0, 1} /\ Horizon <= Base + Len(batch)
    BY <1>0, BatchPlaces DEF Horizon
  <1>2. ASSUME UNCHANGED <<executed, accepted>>, Horizon' \in Nat, Horizon <= Horizon',
               loop' \in {"slot", "wait"} => Within(active', batch', Len(batch'))
        PROVE  PipelinesOK'
    <2>1. \A k \in 1..Horizon : accepted'[k] = accepted[k]
      BY <1>2
    <2>2. Within(executed, accepted', Horizon')
      BY <1>0, <1>1, <1>2, <2>1, WithinMore
    <2> QED BY <1>2, <2>2 DEF PipelinesOK
  <1>3. CASE UNCHANGED <<executed, accepted, requests, batch, flushFor, loop, active>>
    <2>1. Horizon' = Horizon /\ (loop' \in {"slot", "wait"} => Within(active', batch', Len(batch')))
      BY <1>0, <1>3 DEF Horizon, Base, Flushed
    <2> QED BY <1>1, <1>2, <1>3, <2>1
  <1>4. ASSUME UNCHANGED <<executed, accepted>>, loop' \notin {"slot", "wait"},
               Base' \in Nat, Horizon <= Base'
        PROVE  PipelinesOK'
    BY <1>1, <1>2, <1>4 DEF Horizon
  <1>5. ASSUME NEW r \in Requests, Send(r), ~isClosed PROVE PipelinesOK'
    <2>1. /\ pc[r] = "reserved" /\ requests' = Append(requests, r) /\ accepted' = Append(accepted, r)
          /\ pc' = [pc EXCEPT ![r] = "waiting"] /\ UNCHANGED <<executed, loop, active, batch, flushFor>>
      BY <1>5 DEF Send, flushing
    <2>2. Base' = Base
      BY <1>0, <2>1, LayoutSend, Zenon
    <2>3. Horizon' = Horizon /\ (loop' \in {"slot", "wait"} => Within(active', batch', Len(batch')))
      BY <1>0, <2>1, <2>2 DEF Horizon
    <2>4. \A k \in 1..Len(accepted) : accepted'[k] = accepted[k]
      BY <1>0, <2>1, AppendProperties DEF SeqsOK
    <2>5. \A k \in 1..Horizon : accepted'[k] = accepted[k]
      BY <1>1, <2>4
    <2>6. Within(executed, accepted', Horizon)
      <3>1. Horizon <= Horizon
        BY <1>1
      <3> QED BY <1>0, <1>1, <2>5, <3>1, WithinMore, Zenon
    <2> QED BY <2>1, <2>3, <2>6 DEF PipelinesOK
  <1>6. CASE Take
    <2>0. /\ requests # <<>> /\ requests' = Tail(requests) /\ flushFor = None
          /\ UNCHANGED <<accepted, pc, executed>>
          /\ loop \notin {"slot", "wait"} /\ loop' \notin {"slot", "wait"}
      BY <1>0, <1>6 DEF Take, ControlOK, callers
    <2>1. \/ batch' = Append(batch, Head(requests)) /\ flushFor' = None
          \/ UNCHANGED batch /\ flushFor' = Head(requests)
          \/ batch = <<>> /\ UNCHANGED <<batch, flushFor>>
      BY <1>0, <1>6 DEF Take, ControlOK
    <2>2. Base' = Base \/ Base' = Base + 1
      BY <1>0, <2>0, <2>1, LayoutTake, Zenon
    <2>3. Base' \in Nat /\ Horizon <= Base'
      BY <1>1, <2>0, <2>2 DEF Horizon
    <2> QED BY <1>4, <2>0, <2>3
  <1>7. ASSUME NEW S, NEW f, FlushEnds(S, f), UNCHANGED <<requests, accepted, pc, executed>>
        PROVE  PipelinesOK'
    <2>1. batch' = <<>> /\ flushFor' = None /\ loop' \notin {"slot", "wait"}
      BY <1>7 DEF FlushEnds
    <2>2. Base' = Base + Len(batch) + Flushed
      BY <1>0, <1>7, <2>1, LayoutFlush, Zenon
    <2>3. Base' \in Nat /\ Horizon <= Base'
      BY <1>1, <2>2
    <2> QED BY <1>4, <1>7, <2>1, <2>3
  <1>8. CASE DrainEmpty \/ TimerFires \/ SeeClosed \/ Quiesce
    <2>1. /\ UNCHANGED <<accepted, requests, batch, flushFor, executed>>
          /\ loop \notin {"slot", "wait"} /\ loop' \notin {"slot", "wait"}
      BY <1>0, <1>8 DEF DrainEmpty, TimerFires, SeeClosed, Quiesce, flushing, ControlOK
    <2>2. Base' = Base /\ Horizon = Base
      BY <2>1 DEF Base, Flushed, Horizon
    <2> QED BY <1>1, <1>4, <2>1, <2>2
  <1>9. CASE Filter
    <2>0. loop = "filter" /\ UNCHANGED <<requests, accepted, pc, executed>>
      BY <1>9 DEF Filter, callers
    <2>1. CASE Live(batch) = <<>>
      BY <1>7, <1>9, <2>0, <2>1, Zenon DEF Filter
    <2>2. CASE Live(batch) # <<>>
      <3>1. active' = Live(batch) /\ loop' = "slot" /\ UNCHANGED <<batch, flushFor>>
        BY <1>9, <2>2, Zenon DEF Filter
      <3>2. Horizon' = Horizon
        BY <2>0, <3>1 DEF Base, Flushed, Horizon
      <3>3. Within(active', batch', Len(batch'))
        BY <1>0, <3>1, LiveOfBatch, Zenon
      <3> QED BY <1>1, <1>2, <2>0, <3>2, <3>3
    <2> QED BY <2>1, <2>2
  <1>10. CASE AcquireSlot
    <2>1. loop = "slot" /\ UNCHANGED <<requests, accepted, pc>>
      BY <1>10 DEF AcquireSlot, callers
    <2>2. CASE FlushEnds(Range(active), TRUE) /\ UNCHANGED executed
      BY <1>7, <2>1, <2>2, Zenon
    <2>3. CASE loop' = "wait" /\ executed' = executed \o active /\ UNCHANGED <<batch, active, flushFor>>
      <3>1. Horizon = Base /\ Horizon' = Base + Len(batch)
        BY <2>1, <2>3 DEF Horizon, Base, Flushed
      <3>2. Within(executed, accepted, Base) /\ Within(active, batch, Len(batch))
        BY <1>0, <2>1, <3>1
      <3>3. \A i \in 1..Len(batch) : batch[i] = accepted[Base + i]
        BY <1>0 DEF LayoutOK
      <3>4. executed \in Seq(Requests) /\ active \in Seq(Requests)
        BY <1>0 DEF SeqsOK
      <3>5. Within(executed \o active, accepted, Base + Len(batch))
        BY <1>1, <3>2, <3>3, <3>4, WithinConcat, Zenon
      <3> QED BY <2>1, <2>3, <3>1, <3>2, <3>5 DEF PipelinesOK
    <2> QED BY <1>10, <2>2, <2>3, Zenon DEF AcquireSlot
  <1>11. CASE WaitResult
    <2>1. UNCHANGED <<requests, accepted, pc, executed>>
      BY <1>11 DEF WaitResult, callers
    <2>2. \E f : FlushEnds(Range(active), f)
      BY <1>11, Zenon DEF WaitResult
    <2> QED BY <1>7, <2>1, <2>2, Zenon
  <1>12. \/ \E r \in Requests : Reserve(r) \/ EncodeFails(r) \/ Cancel(r) \/ Return(r)
                               \/ (Send(r) /\ isClosed)
         \/ Close \/ Expire \/ UNCHANGED vars
         \/ \E b \in running : PipelineEnds(b)
         => UNCHANGED <<executed, accepted, requests, batch, flushFor, loop, active>>
    BY DEF Cancel, Close, Reserve, EncodeFails, Return, Send, Expire, vars, flushing, callers,
           PipelineEnds
  <1> QED BY <1>3, <1>5, <1>6, <1>8, <1>9, <1>10, <1>11, <1>12 DEF Next, LoopStep

----------------------------------------------------------------------------
\* The callers between reserveQueueSlot and sendReserved.
Reserved == {r \in Requests : pc[r] = "reserved"}

\* A caller takes an admission token, or gives its token back or away.
LEMMA ReservedCount ==
    ASSUME pc \in [Requests -> {"idle", "reserved", "waiting", "returned"}], NEW r \in Requests,
           NEW x \in {"idle", "reserved", "waiting", "returned"}, pc' = [pc EXCEPT ![r] = x]
    PROVE  /\ Cardinality(Reserved) \in Nat
           /\ pc[r] # "reserved" /\ x = "reserved" => Cardinality(Reserved') = Cardinality(Reserved) + 1
           /\ pc[r] = "reserved" /\ x # "reserved" => Cardinality(Reserved') = Cardinality(Reserved) - 1
           /\ pc[r] # "reserved" /\ x # "reserved" => Cardinality(Reserved') = Cardinality(Reserved)
  <1>1. IsFiniteSet(Reserved)
    BY AutoBatchConstants, FS_Subset DEF Reserved
  <1>2. Cardinality(Reserved) \in Nat
    BY <1>1, FS_CardinalityType
  <1>3. ASSUME pc[r] # "reserved", x = "reserved" PROVE Cardinality(Reserved') = Cardinality(Reserved) + 1
    <2>1. Reserved' = Reserved \cup {r} /\ r \notin Reserved
      BY <1>3 DEF Reserved
    <2> QED BY <1>1, <2>1, FS_AddElement
  <1>4. ASSUME pc[r] = "reserved", x # "reserved" PROVE Cardinality(Reserved') = Cardinality(Reserved) - 1
    <2>1. Reserved' = Reserved \ {r} /\ r \in Reserved
      BY <1>4 DEF Reserved
    <2> QED BY <1>1, <2>1, FS_RemoveElement
  <1>5. ASSUME pc[r] # "reserved", x # "reserved" PROVE Cardinality(Reserved') = Cardinality(Reserved)
    <2>1. Reserved' = Reserved
      BY <1>5 DEF Reserved
    <2> QED BY <2>1
  <1> QED BY <1>2, <1>3, <1>4, <1>5

\* Admission tokens are free, with a caller, or with a request in the channel.
Tokens == slots + Cardinality(Reserved) + Len(requests) = QueueSize

\* Every step conserves the admission tokens (e.queueSlots).
LEMMA TokensStep == BatchInv /\ [Next]_vars => Tokens' /\ slots' \in 0..QueueSize
  <1> SUFFICES ASSUME BatchInv, [Next]_vars PROVE Tokens' /\ slots' \in 0..QueueSize
    OBVIOUS
  <1>0. /\ slots + Cardinality(Reserved) + Len(requests) = QueueSize
        /\ slots \in 0..QueueSize /\ QueueSize \in Nat /\ requests \in Seq(Requests)
        /\ Len(requests) \in Nat /\ Cardinality(Reserved) \in Nat
        /\ pc \in [Requests -> {"idle", "reserved", "waiting", "returned"}]
    <2>1. IsFiniteSet(Reserved)
      BY AutoBatchConstants, FS_Subset DEF Reserved
    <2>2. Cardinality(Reserved) \in Nat
      BY <2>1, FS_CardinalityType
    <2>3. slots + Cardinality(Reserved) + Len(requests) = QueueSize
      BY DEF Reserved, BatchInv, TypeOK
    <2> QED BY <2>2, <2>3, AutoBatchConstants DEF BatchInv, TypeOK, SeqsOK
  <1>1. ASSUME NEW r \in Requests, Reserve(r) PROVE Tokens' /\ slots' \in 0..QueueSize
    <2>1. CASE slots' = slots - 1 /\ slots > 0 /\ pc' = [pc EXCEPT ![r] = "reserved"]
      <3>1. Cardinality(Reserved') = Cardinality(Reserved) + 1
        BY <1>0, <1>1, <2>1, ReservedCount DEF Reserve
      <3>2. requests' = requests
        BY <1>1 DEF Reserve
      <3>3. Len(requests') = Len(requests)
        BY <3>2
      <3> QED BY <1>0, <2>1, <3>1, <3>3 DEF Tokens
    <2>2. CASE slots' = slots /\ pc' = [pc EXCEPT ![r] = "returned"]
      <3>1. Cardinality(Reserved') = Cardinality(Reserved)
        BY <1>0, <1>1, <2>2, ReservedCount DEF Reserve
      <3>2. requests' = requests
        BY <1>1 DEF Reserve
      <3>3. Len(requests') = Len(requests)
        BY <3>2
      <3> QED BY <1>0, <2>2, <3>1, <3>3 DEF Tokens
    <2> QED BY <1>1, <2>1, <2>2 DEF Reserve
  <1>2. ASSUME NEW r \in Requests, Send(r) PROVE Tokens' /\ slots' \in 0..QueueSize
    <2>1. Cardinality(Reserved') = Cardinality(Reserved) - 1
      <3>1. pc[r] = "reserved" /\ (pc' = [pc EXCEPT ![r] = "returned"] \/ pc' = [pc EXCEPT ![r] = "waiting"])
        BY <1>2 DEF Send
      <3> QED BY <1>0, <3>1, ReservedCount
    <2>2. Cardinality(Reserved') \in Nat
      <3>1. IsFiniteSet(Reserved')
        BY AutoBatchConstants, FS_Subset DEF Reserved
      <3> QED BY <3>1, FS_CardinalityType
    <2>3. CASE isClosed
      <3>1. slots' = slots + 1 /\ requests' = requests
        BY <1>2, <2>3 DEF Send
      <3>2. Len(requests') = Len(requests)
        BY <3>1
      <3> QED BY <1>0, <2>1, <2>2, <3>1, <3>2 DEF Tokens
    <2>4. CASE ~isClosed
      <3>1. slots' = slots /\ requests' = Append(requests, r)
        BY <1>2, <2>4 DEF Send
      <3>2. Len(requests') = Len(requests) + 1
        BY <1>0, <3>1
      <3> QED BY <1>0, <2>1, <3>1, <3>2 DEF Tokens
    <2> QED BY <2>3, <2>4
  <1>3. ASSUME NEW r \in Requests, EncodeFails(r) PROVE Tokens' /\ slots' \in 0..QueueSize
    <2>1. Cardinality(Reserved') = Cardinality(Reserved) - 1
      BY <1>0, <1>3, ReservedCount DEF EncodeFails
    <2>2. Cardinality(Reserved') \in Nat
      <3>1. IsFiniteSet(Reserved')
        BY AutoBatchConstants, FS_Subset DEF Reserved
      <3> QED BY <3>1, FS_CardinalityType
    <2>3. slots' = slots + 1 /\ requests' = requests
      BY <1>3 DEF EncodeFails
    <2>4. Len(requests') = Len(requests)
      BY <2>3
    <2> QED BY <1>0, <2>1, <2>2, <2>3, <2>4 DEF Tokens
  <1>4. ASSUME NEW r \in Requests, Return(r) PROVE Tokens' /\ slots' \in 0..QueueSize
    <2>1. Cardinality(Reserved') = Cardinality(Reserved)
      BY <1>0, <1>4, ReservedCount DEF Return
    <2>2. slots' = slots /\ requests' = requests
      BY <1>4 DEF Return
    <2>3. Len(requests') = Len(requests)
      BY <2>2
    <2> QED BY <1>0, <2>1, <2>2, <2>3 DEF Tokens
  <1>5. CASE Take
    <2>1. requests # <<>> /\ requests' = Tail(requests) /\ slots' = slots + 1 /\ pc' = pc
      BY <1>5 DEF Take, callers
    <2>2. Len(requests') = Len(requests) - 1 /\ Len(requests) > 0
      BY <1>0, <2>1
    <2>3. Cardinality(Reserved') = Cardinality(Reserved)
      BY <2>1 DEF Reserved
    <2> QED BY <1>0, <2>1, <2>2, <2>3 DEF Tokens
  <1>6. CASE UNCHANGED <<slots, requests, pc>>
    <2>1. Cardinality(Reserved') = Cardinality(Reserved) /\ Len(requests') = Len(requests)
      BY <1>6 DEF Reserved
    <2> QED BY <1>0, <1>6, <2>1 DEF Tokens
  <1>7. \/ \E r \in Requests : Cancel(r)
        \/ Close \/ TimerFires \/ SeeClosed \/ DrainEmpty \/ Filter \/ AcquireSlot \/ WaitResult
        \/ Quiesce \/ Expire \/ UNCHANGED vars
        \/ \E b \in running : PipelineEnds(b)
        => UNCHANGED <<slots, requests, pc>>
    BY DEF Cancel, Close, TimerFires, SeeClosed, DrainEmpty, Filter, AcquireSlot, WaitResult,
           Quiesce, Expire, vars, callers, PipelineEnds
  <1> QED BY <1>1, <1>2, <1>3, <1>4, <1>5, <1>6, <1>7 DEF Next, LoopStep

\* The types of the variables that are not sequences.
Types ==
    /\ isClosed \in BOOLEAN /\ slotFree \in BOOLEAN /\ closeErr \in BOOLEAN
    /\ pc \in [Requests -> {"idle", "reserved", "waiting", "returned"}]
    /\ cancelled \in [Requests -> BOOLEAN]
    /\ answers \in [Requests -> Nat]
    /\ loop \in {"select", "filter", "slot", "wait", "drain", "quiesce", "done"}
    /\ mode \in {"regular", "drain", "final"}
    /\ flushFor \in Flushes \cup {None}
    /\ timerActive \in BOOLEAN /\ expired \in BOOLEAN /\ terminal \in BOOLEAN
    /\ result \in {"none", "ok", "err"}

\* Every step keeps the types.
LEMMA TypesStep == BatchInv /\ [Next]_vars => Types'
  <1> SUFFICES ASSUME BatchInv, [Next]_vars PROVE Types'
    OBVIOUS
  <1>0. Types /\ requests \in Seq(Requests)
    BY DEF BatchInv, TypeOK, Types, SeqsOK
  <1> USE <1>0 DEF Types
  <1>a. ASSUME NEW S, Answer(S) PROVE answers' \in [Requests -> Nat]
    BY <1>a DEF Answer
  <1>b. ASSUME NEW S, NEW f \in BOOLEAN, FlushEnds(S, f)
        PROVE  /\ closeErr' \in BOOLEAN /\ answers' \in [Requests -> Nat]
               /\ loop' \in {"select", "filter", "slot", "wait", "drain", "quiesce", "done"}
               /\ mode' \in {"regular", "drain", "final"}
               /\ flushFor' \in Flushes \cup {None} /\ expired' \in BOOLEAN /\ terminal' \in BOOLEAN
               /\ result' \in {"none", "ok", "err"}
    <2>1. answers' \in [Requests -> Nat]
      BY <1>a, <1>b, Zenon DEF FlushEnds
    <2> QED BY <1>b, <2>1 DEF FlushEnds
  <1>1. ASSUME NEW r \in Requests, Reserve(r) PROVE Types'
    <2>1. pc' \in [Requests -> {"idle", "reserved", "waiting", "returned"}]
      BY <1>1 DEF Reserve
    <2> QED BY <1>1, <2>1 DEF Reserve, flushing
  <1>2. ASSUME NEW r \in Requests, Send(r) PROVE Types'
    BY <1>2 DEF Send, flushing
  <1>3. ASSUME NEW r \in Requests, EncodeFails(r) PROVE Types'
    BY <1>3 DEF EncodeFails, flushing
  <1>4. ASSUME NEW r \in Requests, Cancel(r) PROVE Types'
    BY <1>4 DEF Cancel, flushing
  <1>5. ASSUME NEW r \in Requests, Return(r) PROVE Types'
    BY <1>5 DEF Return, flushing
  <1>6. CASE Close
    BY <1>6 DEF Close, flushing, callers
  <1>7. CASE Take
    <2>1. answers' \in [Requests -> Nat]
      BY <1>7 DEF Take, Answer
    <2> QED BY <1>7, <2>1 DEF Take, callers
  <1>8. CASE TimerFires
    BY <1>8 DEF TimerFires, callers
  <1>9. CASE SeeClosed
    BY <1>9 DEF SeeClosed, callers
  <1>10. CASE DrainEmpty
    <2>1. answers' \in [Requests -> Nat]
      BY <1>10 DEF DrainEmpty, Answer
    <2> QED BY <1>10, <2>1 DEF DrainEmpty, callers
  <1>11. CASE Filter
    <2>1. CASE Live(batch) = <<>>
      <3>1. FlushEnds({r \in Range(batch) : cancelled[r]}, FALSE)
        BY <1>11, <2>1, Zenon DEF Filter
      <3>2. timerActive' = FALSE /\ UNCHANGED <<isClosed, slotFree, pc, cancelled>>
        BY <1>11 DEF Filter, callers
      <3> QED BY <1>b, <3>1, <3>2
    <2>2. CASE Live(batch) # <<>>
      <3>1. /\ Answer({r \in Range(batch) : cancelled[r]}) /\ loop' = "slot"
            /\ UNCHANGED <<mode, flushFor, result, expired, closeErr, terminal>>
        BY <1>11, <2>2, Zenon DEF Filter
      <3>2. answers' \in [Requests -> Nat]
        BY <1>a, <3>1, Zenon
      <3>3. timerActive' = FALSE /\ UNCHANGED <<isClosed, slotFree, pc, cancelled>>
        BY <1>11 DEF Filter, callers
      <3> QED BY <3>1, <3>2, <3>3
    <2> QED BY <2>1, <2>2
  <1>12. CASE AcquireSlot
    <2>0. UNCHANGED <<isClosed, pc, cancelled, timerActive>>
      BY <1>12 DEF AcquireSlot, callers
    <2>1. CASE FlushEnds(Range(active), TRUE) /\ UNCHANGED slotFree
      BY <1>b, <2>0, <2>1
    <2>2. CASE /\ slotFree' = FALSE /\ loop' = "wait"
               /\ UNCHANGED <<answers, mode, flushFor, result, expired, closeErr, terminal>>
      BY <2>0, <2>2
    <2> QED BY <1>12, <2>1, <2>2, Zenon DEF AcquireSlot
  <1>13. CASE WaitResult
    <2>0. UNCHANGED <<isClosed, slotFree, pc, cancelled, timerActive>>
      BY <1>13 DEF WaitResult, callers
    <2>1. CASE FlushEnds(Range(active), TRUE)
      BY <1>b, <2>0, <2>1
    <2>2. CASE FlushEnds(Range(active), result = "err")
      BY <1>b, <2>0, <2>2
    <2> QED BY <1>13, <2>1, <2>2, Zenon DEF WaitResult
  <1>14. CASE Quiesce
    BY <1>14 DEF Quiesce, flushing, callers
  <1>15. ASSUME NEW b \in running, PipelineEnds(b) PROVE Types'
    BY <1>15 DEF PipelineEnds, callers
  <1>16. CASE Expire
    BY <1>16 DEF Expire, callers
  <1>17. CASE UNCHANGED vars
    BY <1>17 DEF vars, flushing, callers
  <1> QED BY <1>1, <1>2, <1>3, <1>4, <1>5, <1>6, <1>7, <1>8, <1>9, <1>10, <1>11, <1>12,
             <1>13, <1>14, <1>15, <1>16, <1>17 DEF Next, LoopStep

----------------------------------------------------------------------------
\* The executor starts in the invariant.
LEMMA BatchInit == Init => BatchInv
  <1> SUFFICES ASSUME Init PROVE BatchInv
    OBVIOUS
  <1> USE AutoBatchConstants DEF Init
  <1>1. TypeOK
    <2>1. {r \in Requests : pc[r] = "reserved"} = {}
      OBVIOUS
    <2>2. Cardinality({r \in Requests : pc[r] = "reserved"}) = 0
      BY <2>1, FS_EmptySet
    <2>3. slots + 0 + Len(requests) = QueueSize /\ slots \in 0..QueueSize /\ Len(batch) <= MaxSize
      OBVIOUS
    <2> QED BY <2>2, <2>3 DEF TypeOK
  <1>2. SeqsOK
    BY DEF SeqsOK
  <1>3. Base = 0 /\ Flushed = 0 /\ Horizon = 0
    <2>1. Len(accepted) = 0 /\ Len(requests) = 0 /\ Len(batch) = 0 /\ Flushed = 0
      BY DEF Flushed
    <2>2. Base = 0
      <3> HIDE DEF Init
      <3> QED BY <2>1 DEF Base
    <2> QED BY <2>1, <2>2 DEF Horizon
  <1>4. LayoutOK /\ AnswersOK
    BY <1>3 DEF LayoutOK, AnswersOK
  <1>5. ControlOK /\ RunningOK
    BY DEF ControlOK, RunningOK
  <1>6. PipelinesOK
    BY <1>3 DEF PipelinesOK, Within
  <1> QED BY <1>1, <1>2, <1>4, <1>5, <1>6 DEF BatchInv

\* The inductive invariant holds of the executor.  It contains TypeOK and with it
\* the conservation of the admission tokens, by which neither a send under submitMu
\* nor the loop's return of a token ever blocks.
THEOREM BatchInvariant == Spec => []BatchInv
  <1>1. BatchInv /\ [Next]_vars => BatchInv'
    <2> SUFFICES ASSUME BatchInv, [Next]_vars PROVE BatchInv'
      OBVIOUS
    <2>1. TypeOK'
      <3>1. Types' /\ Tokens' /\ slots' \in 0..QueueSize /\ ControlOK'
        BY TypesStep, TokensStep, ControlStep, Zenon
      <3> QED BY <3>1 DEF TypeOK, Types, Tokens, Reserved, ControlOK
    <2>2. SeqsOK' /\ LayoutOK' /\ AnswersOK' /\ ControlOK' /\ RunningOK' /\ PipelinesOK'
      BY SeqsStep, LayoutStep, AnswersStep, ControlStep, RunningStep, PipelinesStep, Zenon
    <2> QED BY <2>1, <2>2 DEF BatchInv
  <1> QED BY <1>1, BatchInit, PTL DEF Spec

\* Every accepted call is answered at most once, and exactly once by the time the
\* loop has ended, however sends, cancellations, timeouts and Close interleave.
THEOREM AcceptedAnsweredHolds == Spec => []AcceptedAnswered
  <1>1. BatchInv => AcceptedAnswered
    <2> SUFFICES ASSUME BatchInv PROVE AcceptedAnswered
      OBVIOUS
    <2>0. SeqsOK /\ LayoutOK /\ AnswersOK /\ ControlOK
      BY DEF BatchInv
    <2>1. Accepted = {accepted[i] : i \in 1..Len(accepted)}
      BY <2>0 DEF Accepted, Range, SeqsOK
    <2>2. ASSUME NEW r \in Requests PROVE answers[r] <= IF r \in Accepted THEN 1 ELSE 0
      <3>1. CASE r \in Accepted
        <4>1. answers[r] \in {0, 1}
          BY <2>0, <2>1, <3>1 DEF AnswersOK
        <4> QED BY <3>1, <4>1
      <3>2. CASE r \notin Accepted
        <4>1. answers[r] = 0
          BY <2>0, <2>1, <3>2 DEF AnswersOK
        <4> QED BY <3>2, <4>1
      <3> QED BY <3>1, <3>2
    <2>3. ASSUME loop = "done", NEW i \in 1..Len(accepted) PROVE answers[accepted[i]] = 1
      <3>1. Len(requests) = 0 /\ Len(batch) = 0 /\ Flushed = 0
        BY <2>0, <2>3 DEF ControlOK, Flushed
      <3>2. Base = Len(accepted)
        BY <2>0, <3>1 DEF Base, SeqsOK
      <3> QED BY <2>0, <3>2 DEF AnswersOK
    <2> QED BY <2>1, <2>2, <2>3 DEF AcceptedAnswered
  <1> QED BY <1>1, BatchInvariant, PTL

\* A flush is answered only after everything accepted before it, and Close returns
\* nil only when no pipeline of this executor is running any more.
THEOREM WaitingIsTrueHolds == Spec => []WaitingIsTrue
  <1>1. BatchInv => WaitingIsTrue
    <2> SUFFICES ASSUME BatchInv PROVE WaitingIsTrue
      OBVIOUS
    <2>0. SeqsOK /\ LayoutOK /\ AnswersOK /\ ControlOK /\ RunningOK
      BY DEF BatchInv
    <2>1. ASSUME NEW i \in DOMAIN accepted, NEW j \in DOMAIN accepted,
                 i < j, accepted[j] \in Flushes, answers[accepted[j]] = 1
          PROVE  answers[accepted[i]] = 1
      <3>1. i \in 1..Len(accepted) /\ j \in 1..Len(accepted)
        BY <2>0 DEF SeqsOK
      <3>2. accepted[j] \notin Range(batch)
        <4>1. Range(batch) \subseteq Commands
          BY <2>0 DEF SeqsOK, Range
        <4> QED BY <2>1, <4>1, AutoBatchConstants
      <3>3. j \notin (Base + 1)..(Base + Len(batch))
        BY <2>0, <3>1, <3>2, BatchPlaces, Zenon
      <3>4. j <= Base
        <4>1. Base \in Nat /\ Len(batch) \in Nat
          BY <2>0, BatchPlaces
        <4>2. j <= Base \/ j <= Base + Len(batch)
          BY <2>0, <2>1, <3>1 DEF AnswersOK
        <4> QED BY <3>1, <3>3, <4>1, <4>2
      <3>5. i <= Base
        <4>1. Base \in Nat
          BY <2>0, BatchPlaces
        <4> QED BY <2>1, <3>1, <3>4, <4>1
      <3> QED BY <2>0, <3>1, <3>5 DEF AnswersOK
    <2>2. CloseNilMeansQuiet
      BY <2>0 DEF CloseNilMeansQuiet, RunningOK
    <2> QED BY <2>1, <2>2 DEF WaitingIsTrue, FlushIsBarrier
  <1> QED BY <1>1, BatchInvariant, PTL

\* One pipeline at a time, and no command is started ahead of one accepted earlier,
\* also after flushes that gave up on their pipeline.
THEOREM PipelinesInOrderHolds == Spec => []PipelinesInOrder
  <1>1. BatchInv => PipelinesInOrder
    <2> SUFFICES ASSUME BatchInv PROVE PipelinesInOrder
      OBVIOUS
    <2>0. SeqsOK /\ LayoutOK /\ RunningOK /\ Within(executed, accepted, Horizon)
      BY DEF BatchInv, PipelinesOK
    <2>1. Cardinality(running) <= 1
      <3>1. CASE running = {}
        BY <3>1, FS_EmptySet
      <3>2. CASE \E b \in running : running = {b}
        BY <3>2, FS_Singleton
      <3> QED BY <2>0, <3>1, <3>2 DEF RunningOK
    <2>2. /\ DOMAIN executed = 1..Len(executed) /\ DOMAIN accepted = 1..Len(accepted)
      BY <2>0 DEF SeqsOK
    <2>3. \A k \in 1..Horizon : k \in 1..Len(accepted)
      BY <2>0, BatchPlaces DEF Horizon
    <2>4. ASSUME NEW i \in DOMAIN executed, NEW j \in DOMAIN executed, i < j
          PROVE  \E k, m \in DOMAIN accepted :
                    k < m /\ accepted[k] = executed[i] /\ accepted[m] = executed[j]
      <3>1. i \in 1..Len(executed) /\ j \in 1..Len(executed)
        BY <2>2
      <3>2. PICK k \in 1..Horizon, m \in 1..Horizon :
                    k < m /\ accepted[k] = executed[i] /\ accepted[m] = executed[j]
        BY <2>0, <2>4, <3>1, Zenon DEF Within
      <3>3. k \in DOMAIN accepted /\ m \in DOMAIN accepted
        BY <2>2, <2>3
      <3> QED BY <3>2, <3>3, Zenon
    <2> QED BY <2>1, <2>4, Zenon DEF PipelinesInOrder
  <1> QED BY <1>1, BatchInvariant, PTL
============================================================================
