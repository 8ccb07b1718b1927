--------------------------- MODULE WorkflowProofs ---------------------------
(* Proofs about the two kinds of workers.                                     *)
(*                                                                            *)
(* Workflow, for any workers, jobs, states and steps, any batch size and      *)
(* concurrency and any number of claims.  WorkflowInv is the inductive        *)
(* invariant: it follows a claim from the server's record into the context of *)
(* a task, into the mutation the task sends, and back.                        *)
(*                                                                            *)
(* QueueWorker, for any workers, any finite set of jobs, any batch size and   *)
(* concurrency and any number of claims.  QueueInvariant is the inductive     *)
(* invariant: it follows a success from the handler into the channel, the     *)
(* batch and the request, and the counts into the server's record.            *)
EXTENDS Workflow, QueueWorker, FiniteSetTheorems, FunctionTheorems, SequenceTheorems, TLAPS

InCall == {"preflight", "closure", "commit", "commitWait"}
Waiting == {"commitWait", "outcomeWait"}

\* A worker has tasks only while it is in a batch; a task waits for an answer only
\* after it has sent its mutation, and knows of no uncertainty before its handler
\* runs.
TasksOK ==
    /\ \A w \in Workers : loop[w] # "batch" => \A j \in Jobs : pc[<<w, j>>] = "none"
    /\ \A t \in Tasks : pc[t] \notin Waiting => answer[t] = "none"
    /\ \A t \in Tasks : pc[t] \in {"none", "queued", "done"} => unknown[t] = {}

\* The claim of a context is one the server has handed out and the latest the task
\* has obtained; the mutation of a task carries the claim of its context; and an
\* answer to STEP_CONTINUE has replaced that claim at the server.
ClaimOK(t) ==
    /\ ctx[t].fence <= fence[t[2]]
    /\ \A f \in ctx[t].applied : f <= ctx[t].fence
    /\ unknown[t] # {} => ctx[t].uncertain
    /\ pc[t] \in InCall \cup {"outcomeWait"} => req[t].job = t[2] /\ req[t].fence = ctx[t].fence
    /\ pc[t] \in InCall => req[t].kind = "continue"
    /\ pc[t] = "outcomeWait" => ~ctx[t].uncertain
    /\ pc[t] = "commitWait" /\ answer[t] = "ok" => req[t].fence < fence[t[2]]

ClaimsOK == \A t \in Tasks : ClaimOK(t)

\* A mutation on a claim that is still the job's latest stores a step only if there
\* is no result for it yet.
Fresh(m) ==
    /\ m.fence <= fence[m.job]
    /\ m.kind = "continue" \/ m.name = NoStep
    /\ m.fence = fence[m.job] => m.name \notin values[m.job]

FreshOK ==
    /\ \A m \in net : Fresh(m)
    /\ \A t \in Tasks : pc[t] \in {"closure", "commit"} => Fresh(req[t])

\* A step counts one commit when its result is stored and none before.
ValuesOK ==
    \A j \in Jobs :
       /\ NoStep \notin values[j]
       /\ \A s \in Steps : commits[j][s] = IF s \in values[j] THEN 1 ELSE 0

WorkflowInv == TypeOK /\ TasksOK /\ ClaimsOK /\ FreshOK /\ ValuesOK

----------------------------------------------------------------------------
\* A task ends: its handler has returned and it sends nothing, or it has sent and
\* its wait is over.
Ends(t) ==
    /\ pc[t] \in {"handler", "outcomeWait"}
    /\ \E ok \in BOOLEAN : Done(t, ok)
    /\ UNCHANGED <<server, loop, at, busy, stopped, commits>>

\* The worker sends the mutation of an outcome or of the error policy.
Sends(t) ==
    /\ pc[t] = "handler" /\ ~ctx[t].uncertain
    /\ \E kind \in {"end", "release"}, to \in StateNames : Send(t, Request(t, kind, to, NoStep))
    /\ UNCHANGED <<loop, at, busy, stopped, commits>>

\* The run state of a context is a state of the workflow.
LEMMA StatesTyped ==
    /\ States[1] \in StateNames /\ 1 \in DOMAIN States
    /\ \A i \in DOMAIN States : i \in Nat /\ States[i] \in StateNames
    /\ Cardinality(DOMAIN States) \in Nat
<1>1. Cardinality(DOMAIN States) \in Nat
  BY WorkflowConstants, FS_CardinalityType
<1>2. \A i \in DOMAIN States : i \in 1..Cardinality(DOMAIN States)
  BY WorkflowConstants
<1>3. 1 \in DOMAIN States
  <2>1. PICK i : i \in DOMAIN States
    BY WorkflowConstants
  <2>2. 1 <= Cardinality(DOMAIN States)
    BY <1>1, <1>2, <2>1
  <2>3. 1 \in 1..Cardinality(DOMAIN States)
    BY <1>1, <2>2
  <2> QED
    BY <2>3, WorkflowConstants
<1> QED
  BY <1>1, <1>2, <1>3 DEF StateNames

\* Whatever a handler returns, the worker sends one mutation on the claim of the
\* context, which is certain, or none at all.
LEMMA TaskForms ==
    ASSUME TypeOK, NEW t \in Tasks
    PROVE  HandlerReturns(t) \/ OutcomeAnswered(t) \/ OutcomeUnanswered(t) => Ends(t) \/ Sends(t)
<1>1. Fails(t) => \E ok \in BOOLEAN : Done(t, ok)
  BY DEF Fails
<1>2. ctx[t].run \in StateNames
  BY DEF TypeOK, Contexts
<1>3. ASSUME NEW kind \in {"end", "release"}, NEW to \in StateNames,
             Mutate(t, kind, to), pc[t] = "handler", ~ctx[t].uncertain,
             UNCHANGED <<loop, at, busy, stopped, commits>>
      PROVE  Ends(t) \/ Sends(t)
  BY <1>1, <1>3 DEF Mutate, Fails, Ends, Sends
<1>4. ReturnUncertain(t) => Ends(t)
  BY <1>1 DEF ReturnUncertain, Ends, Fails
<1>5. ReturnError(t) \/ ReturnOutcome(t) \/ ReturnApplied(t) => Ends(t) \/ Sends(t)
  <2>1. pc[t] = "handler" /\ Fails(t) /\ UNCHANGED <<loop, at, busy, stopped, commits>> => Ends(t)
    BY <1>1 DEF Fails, Ends
  <2> QED
    BY <1>2, <1>3, <2>1 DEF ReturnError, ReturnOutcome, ReturnApplied
<1>6. OutcomeAnswered(t) \/ OutcomeUnanswered(t) => Ends(t)
  BY DEF OutcomeAnswered, OutcomeUnanswered, Ends
<1> QED
  BY <1>4, <1>5, <1>6 DEF HandlerReturns

\* A fresh context is a context.
LEMMA NoContextTyped == NoContext \in Contexts
<1>1. 0 \in 0..MaxFence
  BY WorkflowConstants
<1> QED
  BY <1>1, StatesTyped DEF NoContext, Context, Contexts

\* A mutation carries the job and the claim of its task.
LEMMA RequestTyped ==
    ASSUME TypeOK, NEW t \in Tasks, NEW kind \in {"continue", "release", "end"},
           NEW to \in StateNames, NEW name \in Steps \cup {NoStep}
    PROVE  LET m == Request(t, kind, to, name)
           IN  /\ m \in Mutations /\ m # NoRequest
               /\ m.job = t[2] /\ m.fence = ctx[t].fence /\ m.kind = kind /\ m.name = name
BY DEF Request, Mutations, TypeOK, Contexts, Tasks, NoRequest

\* The end of a round, or of one state of it, leaves the worker outside a batch.
LEMMA ReturnTypes ==
    ASSUME TypeOK, NEW w \in Workers, NEW label \in {"top", "sleep", "ended"}, Return(w, label)
    PROVE  /\ loop' \in [Workers -> {"top", "claim", "batch", "sleep", "ended"}]
           /\ loop'[w] # "batch" /\ \A v \in Workers \ {w} : loop'[v] = loop[v]
           /\ at' \in [Workers -> DOMAIN States]
           /\ busy' \in [Workers -> BOOLEAN] /\ failed' \in [Workers -> BOOLEAN]
BY StatesTyped DEF Return, GotoLoop, TypeOK

\* The same for the step to the next state of the round.
LEMMA NextStateTypes ==
    ASSUME TypeOK, NEW w \in Workers, NEW claimed \in BOOLEAN, NextState(w, claimed)
    PROVE  /\ loop' \in [Workers -> {"top", "claim", "batch", "sleep", "ended"}]
           /\ loop'[w] # "batch" /\ \A v \in Workers \ {w} : loop'[v] = loop[v]
           /\ at' \in [Workers -> DOMAIN States]
           /\ busy' \in [Workers -> BOOLEAN] /\ failed' \in [Workers -> BOOLEAN]
<1>1. CASE at[w] < Cardinality(DOMAIN States)
  <2>1. at[w] + 1 \in DOMAIN States
    <3>1. at[w] \in 1..Cardinality(DOMAIN States)
      BY WorkflowConstants DEF TypeOK
    <3>2. at[w] + 1 \in 1..Cardinality(DOMAIN States)
      BY <1>1, <3>1, StatesTyped
    <3> QED
      BY <3>2, WorkflowConstants
  <2>2. at' \in [Workers -> DOMAIN States]
    BY <1>1, <2>1 DEF NextState, TypeOK
  <2> QED
    BY <1>1, <2>2 DEF NextState, GotoLoop, TypeOK
<1>2. CASE ~(at[w] < Cardinality(DOMAIN States))
  <2>1. Return(w, IF claimed THEN "top" ELSE "sleep")
    BY <1>2 DEF NextState
  <2> QED
    BY <2>1, ReturnTypes
<1> QED
  BY <1>1, <1>2

\* A claim takes the next fencing token of each job it takes, and no token of a job
\* ever goes down.
LEMMA TakeTypes ==
    ASSUME TypeOK, NEW s, NEW B \in SUBSET Claimable(s), Take(B)
    PROVE  /\ status' \in [Jobs -> {"ready", "running", "terminal"}]
           /\ fence' \in [Jobs -> 0..MaxFence] /\ expired' \in [Jobs -> BOOLEAN]
           /\ \A j \in Jobs : fence'[j] = IF j \in B THEN fence[j] + 1 ELSE fence[j]
           /\ \A j \in Jobs : fence[j] \in Nat /\ fence'[j] \in Nat /\ fence[j] <= fence'[j]
           /\ UNCHANGED <<runState, values, net>>
<1>1. \A j \in B : j \in Jobs /\ fence[j] < MaxFence
  BY DEF Claimable
<1>2. fence' \in [Jobs -> 0..MaxFence]
  BY <1>1, WorkflowConstants DEF Take, TypeOK
<1>3. status' \in [Jobs -> {"ready", "running", "terminal"}]
  BY DEF Take, TypeOK
<1>4. expired' \in [Jobs -> BOOLEAN]
  BY DEF Take, TypeOK
<1>5. \A j \in Jobs : fence'[j] = IF j \in B THEN fence[j] + 1 ELSE fence[j]
  BY DEF Take
<1>6. \A j \in Jobs : fence[j] \in Nat /\ fence'[j] \in Nat /\ fence[j] <= fence'[j]
  <2>1. \A j \in Jobs : fence[j] \in Nat
    BY WorkflowConstants DEF TypeOK
  <2> QED
    BY <1>5, <2>1
<1> QED
  BY <1>2, <1>3, <1>4, <1>5, <1>6 DEF Take

\* A task that is forgotten has nothing left; the others keep everything.
LEMMA ForgetTypes ==
    ASSUME TypeOK, NEW T, Forget(T)
    PROVE  /\ ctx' \in [Tasks -> Contexts] /\ answer' \in [Tasks -> {"none", "ok", "rejected"}]
           /\ req' \in [Tasks -> Mutations \cup {NoRequest}]
           /\ unknown' \in [Tasks -> SUBSET (0..MaxFence)]
           /\ \A t \in Tasks \cap T : /\ ctx'[t] = NoContext /\ req'[t] = NoRequest
                                      /\ answer'[t] = "none" /\ unknown'[t] = {}
           /\ \A t \in Tasks \ T : /\ ctx'[t] = ctx[t] /\ req'[t] = req[t]
                                   /\ answer'[t] = answer[t] /\ unknown'[t] = unknown[t]
BY NoContextTyped DEF Forget, TypeOK


\* Every step keeps the types; a claim a task adopts from STEP_CONTINUE is one the
\* server has handed out, so it is within the bound on fencing tokens.
LEMMA TypeStep == WorkflowInv /\ [Next]_vars => TypeOK'
<1> SUFFICES ASSUME WorkflowInv, [Next]_vars PROVE TypeOK'
  OBVIOUS
<1> USE DEF WorkflowInv, TypeOK, Tasks, PCs
<1>1. ASSUME NEW w \in Workers, Begin(w) PROVE TypeOK'
  BY <1>1 DEF Begin, GotoLoop, server, task
<1>2. ASSUME NEW w \in Workers, ClaimNone(w) PROVE TypeOK'
  <2>1. busy[w] \in BOOLEAN
    OBVIOUS
  <2>2. /\ loop' \in [Workers -> {"top", "claim", "batch", "sleep", "ended"}]
        /\ at' \in [Workers -> DOMAIN States]
        /\ busy' \in [Workers -> BOOLEAN] /\ failed' \in [Workers -> BOOLEAN]
    BY <1>2, <2>1, NextStateTypes DEF ClaimNone
  <2> QED
    BY <1>2, <2>2 DEF ClaimNone, server, task
<1>3. ASSUME NEW w \in Workers, Claim(w) PROVE TypeOK'
  <2>1. PICK B \in Batches(States[at[w]]) :
             /\ Take(B)
             /\ pc' = [t \in Tasks |-> IF t \in {w} \X B THEN "queued" ELSE pc[t]]
             /\ ctx' = [t \in Tasks |-> IF t \in {w} \X B
                            THEN Context(fence[t[2]] + 1, runState[t[2]], {}, FALSE)
                            ELSE ctx[t]]
    BY <1>3 DEF Claim
  <2>2. B \in SUBSET Claimable(States[at[w]])
    BY <2>1 DEF Batches
  <2>3. status' \in [Jobs -> {"ready", "running", "terminal"}]
        /\ fence' \in [Jobs -> 0..MaxFence] /\ expired' \in [Jobs -> BOOLEAN]
        /\ UNCHANGED <<runState, values, net>>
    BY <2>1, <2>2, TakeTypes
  <2>4. pc' \in [Tasks -> PCs]
    BY <2>1
  <2>5. \A j \in B : j \in Jobs /\ fence[j] + 1 \in 0..MaxFence
    BY <2>2, WorkflowConstants DEF Claimable
  <2>6. ctx' \in [Tasks -> Contexts]
    BY <2>1, <2>5 DEF Context, Contexts
  <2>7. \A t \in Tasks : pc'[t] # pc[t] => pc[t] = "none"
    <3> SUFFICES ASSUME NEW t \in Tasks, t \in {w} \X B PROVE pc[t] = "none"
      BY <2>1
    <3>1. t = <<w, t[2]>> /\ t[2] \in Jobs /\ loop[w] = "claim"
      BY <1>3 DEF Claim
    <3>2. pc[<<w, t[2]>>] = "none"
      BY <3>1 DEF TasksOK
    <3> QED
      BY <3>1, <3>2, Zenon
  <2> QED
    BY <1>3, <2>1, <2>3, <2>4, <2>6, <2>7 DEF Claim, GotoLoop
<1>4. ASSUME NEW w \in Workers, ClaimFails(w) PROVE TypeOK'
  <2>1. status' \in [Jobs -> {"ready", "running", "terminal"}]
        /\ fence' \in [Jobs -> 0..MaxFence] /\ expired' \in [Jobs -> BOOLEAN]
        /\ UNCHANGED <<runState, values, net>>
    BY <1>4, TakeTypes DEF ClaimFails, Batches
  <2>2. /\ loop' \in [Workers -> {"top", "claim", "batch", "sleep", "ended"}]
        /\ at' \in [Workers -> DOMAIN States]
        /\ busy' \in [Workers -> BOOLEAN] /\ failed' \in [Workers -> BOOLEAN]
    BY <1>4, ReturnTypes DEF ClaimFails
  <2> QED
    BY <1>4, <2>1, <2>2 DEF ClaimFails, task
<1>5. ASSUME NEW w \in Workers, BatchDone(w) PROVE TypeOK'
  <2>1. /\ loop' \in [Workers -> {"top", "claim", "batch", "sleep", "ended"}]
        /\ at' \in [Workers -> DOMAIN States]
        /\ busy' \in [Workers -> BOOLEAN] /\ failed' \in [Workers -> BOOLEAN]
    BY <1>5, ReturnTypes, NextStateTypes DEF BatchDone
  <2>2. pc' \in [Tasks -> PCs] /\ \A t \in Tasks : pc'[t] # pc[t] => pc[t] = "done"
    BY <1>5 DEF BatchDone, TasksOf
  <2>3. \A t \in Tasks : pc'[t] \in {pc[t], "none"}
    BY <1>5 DEF BatchDone
  <2> QED
    BY <1>5, <2>1, <2>2, <2>3, ZenonT(60) DEF BatchDone, server
<1>6. ASSUME NEW w \in Workers, Sleep(w) PROVE TypeOK'
  BY <1>6 DEF Sleep, GotoLoop, server, task
<1>7. ASSUME NEW w \in Workers, Stop(w) PROVE TypeOK'
  BY <1>7 DEF Stop, server, task
<1>8. ASSUME NEW w \in Workers, Crash(w) PROVE TypeOK'
  <2>1. /\ loop' \in [Workers -> {"top", "claim", "batch", "sleep", "ended"}]
        /\ at' \in [Workers -> DOMAIN States]
        /\ busy' \in [Workers -> BOOLEAN] /\ failed' \in [Workers -> BOOLEAN]
    BY <1>8, ReturnTypes DEF Crash
  <2>2. pc' \in [Tasks -> PCs] /\ \A t \in Tasks : pc'[t] = IF t[1] = w THEN "none" ELSE pc[t]
    BY <1>8 DEF Crash
  <2>3. ctx' \in [Tasks -> Contexts] /\ answer' \in [Tasks -> {"none", "ok", "rejected"}]
        /\ req' \in [Tasks -> Mutations \cup {NoRequest}]
        /\ unknown' \in [Tasks -> SUBSET (0..MaxFence)]
        /\ \A t \in Tasks : req'[t] = IF t[1] = w THEN NoRequest ELSE req[t]
    BY <1>8, ForgetTypes DEF Crash, TasksOf
  <2> QED
    BY <1>8, <2>1, <2>2, <2>3 DEF Crash, server
<1>9. ASSUME NEW t \in Tasks, StartTask(t) PROVE TypeOK'
  BY <1>9 DEF StartTask, Goto, TasksOf, server, worker
<1>10. ASSUME NEW t \in Tasks, Preflight(t) PROVE TypeOK'
  BY <1>10 DEF Preflight, Goto, Extend, Current, worker
<1>11. ASSUME NEW t \in Tasks, Replay(t) PROVE TypeOK'
  BY <1>11 DEF Replay, BackInHandler, NoRequest, Goto, Extend, Current, worker
<1>12. ASSUME NEW t \in Tasks, PreflightFails(t) PROVE TypeOK'
  BY <1>12 DEF PreflightFails, BackInHandler, NoRequest, Goto, Extend, Current, worker
<1>13. ASSUME NEW t \in Tasks, Closure(t) PROVE TypeOK'
  <2>1. CASE Goto(t, "commit") /\ UNCHANGED <<req, answer>>
    BY <1>13, <2>1 DEF Closure, Goto, server, worker
  <2>2. CASE BackInHandler(t)
    BY <1>13, <2>2 DEF Closure, BackInHandler, Goto, server, worker
  <2> QED
    BY <1>13, <2>1, <2>2 DEF Closure
<1>14. ASSUME NEW t \in Tasks, SendCommit(t) PROVE TypeOK'
  BY <1>14 DEF SendCommit, Goto, worker
<1>15. ASSUME NEW t \in Tasks, CommitFails(t) PROVE TypeOK'
  BY <1>15 DEF CommitFails, BackInHandler, NoRequest, Goto, server, worker
<1>16. ASSUME NEW t \in Tasks, CommitAnswered(t) PROVE TypeOK'
  <2>1. req[t] \in Mutations /\ req[t].fence + 1 \in 0..MaxFence
    <3>1. req[t] \in Mutations /\ req[t].fence < fence[t[2]]
      BY <1>16 DEF CommitAnswered, ClaimsOK, ClaimOK
    <3>2. t[2] \in Jobs
      OBVIOUS
    <3> QED
      BY <3>1, <3>2, WorkflowConstants DEF Mutations
  <2>2. Context(req[t].fence + 1, req[t].to, ctx[t].applied \cup {req[t].fence + 1},
          ctx[t].uncertain)
           \in Contexts
    BY <2>1 DEF Context, Contexts, Mutations
  <2>3. ctx' \in [Tasks -> Contexts]
    BY <1>16, <2>2 DEF CommitAnswered
  <2> QED
    BY <1>16, <2>3 DEF CommitAnswered, BackInHandler, Goto, server, worker
<1>17. ASSUME NEW t \in Tasks, CommitUnanswered(t) PROVE TypeOK'
  <2>1. Context(ctx[t].fence, ctx[t].run, ctx[t].applied, TRUE) \in Contexts
    BY DEF Context, Contexts
  <2>2. ctx' \in [Tasks -> Contexts]
    BY <1>17, <2>1 DEF CommitUnanswered
  <2>3. req[t].fence \in 0..MaxFence
    BY <1>17 DEF CommitUnanswered, Mutations
  <2>4. unknown' \in [Tasks -> SUBSET (0..MaxFence)]
    BY <1>17, <2>3 DEF CommitUnanswered
  <2> QED
    BY <1>17, <2>2, <2>4 DEF CommitUnanswered, BackInHandler, Goto, server, worker
<1>18. ASSUME NEW t \in Tasks, CallAdvance(t) PROVE TypeOK'
  <2>1. PICK s \in StateNames : req' = [req EXCEPT ![t] = Request(t, "continue", s, NoStep)]
    BY <1>18 DEF CallAdvance
  <2>2. Request(t, "continue", s, NoStep) \in Mutations
    BY RequestTyped
  <2> QED
    BY <1>18, <2>1, <2>2 DEF CallAdvance, Goto, server, worker
<1>19. ASSUME NEW t \in Tasks, CallStep(t) PROVE TypeOK'
  <2>1. PICK s \in StateNames, n \in Steps : req' = [req EXCEPT ![t] = Request(t, "continue", s, n)]
    BY <1>19 DEF CallStep
  <2>2. Request(t, "continue", s, n) \in Mutations
    BY RequestTyped
  <2> QED
    BY <1>19, <2>1, <2>2 DEF CallStep, Goto, server, worker
<1>20. ASSUME NEW t \in Tasks, Ends(t) PROVE TypeOK'
  <2>1. PICK ok \in BOOLEAN : Done(t, ok)
    BY <1>20 DEF Ends
  <2>2. ctx' \in [Tasks -> Contexts] /\ answer' \in [Tasks -> {"none", "ok", "rejected"}]
        /\ req' \in [Tasks -> Mutations \cup {NoRequest}]
        /\ unknown' \in [Tasks -> SUBSET (0..MaxFence)]
        /\ req'[t] = NoRequest /\ \A u \in Tasks \ {t} : req'[u] = req[u]
    BY <2>1, ForgetTypes DEF Done
  <2>3. failed' \in [Workers -> BOOLEAN] /\ pc' = [pc EXCEPT ![t] = "done"]
    BY <2>1 DEF Done, Goto
  <2> QED
    BY <1>20, <2>2, <2>3 DEF Ends, server
<1>21. ASSUME NEW t \in Tasks, Sends(t) PROVE TypeOK'
  <2>1. PICK kind \in {"end", "release"}, to \in StateNames : Send(t, Request(t, kind, to, NoStep))
    BY <1>21 DEF Sends
  <2>2. Request(t, kind, to, NoStep) \in Mutations
    BY RequestTyped
  <2> QED
    BY <1>21, <2>1, <2>2 DEF Sends, Send, Goto
<1>22. ASSUME NEW m \in net, Accept(m) PROVE TypeOK'
  <2>1. m \in Mutations /\ m.job \in Jobs /\ m.to \in StateNames
        /\ m.kind \in {"continue", "release", "end"} /\ m.name \in Steps \cup {NoStep}
    BY DEF Mutations
  <2>2. fence' \in [Jobs -> 0..MaxFence]
    BY <1>22, <2>1, WorkflowConstants DEF Accept, Current
  <2>3. status' \in [Jobs -> {"ready", "running", "terminal"}]
    BY <1>22, <2>1 DEF Accept
  <2>4. values' \in [Jobs -> SUBSET Steps]
    BY <1>22, <2>1 DEF Accept
  <2>5. commits' \in [Jobs -> [Steps -> Nat]]
    BY <1>22, <2>1 DEF Accept
  <2>6. answer' \in [Tasks -> {"none", "ok", "rejected"}]
    BY <1>22 DEF Accept, Reply
  <2> QED
    BY <1>22, <2>1, <2>2, <2>3, <2>4, <2>5, <2>6 DEF Accept, worker
<1>23. ASSUME NEW m \in net, Reject(m) PROVE TypeOK'
  BY <1>23 DEF Reject, Reply, Current, worker
<1>24. ASSUME NEW m \in net, Lose(m) PROVE TypeOK'
  BY <1>24 DEF Lose, worker, task
<1>25. ASSUME NEW j \in Jobs, Expire(j) PROVE TypeOK'
  BY <1>25 DEF Expire, worker, task
<1>26. CASE UNCHANGED vars
  BY <1>26 DEF vars, server, worker, task
<1> QED
  BY <1>1, <1>2, <1>3, <1>4, <1>5, <1>6, <1>7, <1>8, <1>9, <1>10, <1>11, <1>12, <1>13,
     <1>14, <1>15, <1>16, <1>17, <1>18, <1>19, <1>20, <1>21, <1>22, <1>23, <1>24, <1>25,
     <1>26, TaskForms
     DEF Next, LoopStep, TaskStep

\* Tasks come and go with the batch of their worker, also when the worker dies.
LEMMA TasksStep == WorkflowInv /\ [Next]_vars => TasksOK'
<1> SUFFICES ASSUME WorkflowInv, [Next]_vars PROVE TasksOK'
  OBVIOUS
<1> USE DEF WorkflowInv, TasksOK, TypeOK, Tasks, Waiting
<1>1. ASSUME NEW w \in Workers, Begin(w) PROVE TasksOK'
  BY <1>1 DEF Begin, GotoLoop, server, task
<1>2. ASSUME NEW w \in Workers, ClaimNone(w) PROVE TasksOK'
  BY <1>2 DEF ClaimNone, NextState, GotoLoop, Return, server, task
<1>3. ASSUME NEW w \in Workers, Claim(w) PROVE TasksOK'
  <2>1. PICK B \in Batches(States[at[w]]) :
             /\ Take(B)
             /\ pc' = [t \in Tasks |-> IF t \in {w} \X B THEN "queued" ELSE pc[t]]
             /\ ctx' = [t \in Tasks |-> IF t \in {w} \X B
                            THEN Context(fence[t[2]] + 1, runState[t[2]], {}, FALSE)
                            ELSE ctx[t]]
    BY <1>3 DEF Claim
  <2>2. loop' = [loop EXCEPT ![w] = "batch"] /\ UNCHANGED <<answer, unknown>>
    BY <1>3 DEF Claim, GotoLoop
  <2>3. \A v \in Workers, j \in Jobs : v # w => pc'[<<v, j>>] = pc[<<v, j>>]
    BY <2>1
  <2>4. \A t \in Tasks : t \in {w} \X B => pc[t] = "none"
    <3> SUFFICES ASSUME NEW t \in Tasks, t \in {w} \X B PROVE pc[t] = "none"
      OBVIOUS
    <3>1. t = <<w, t[2]>> /\ t[2] \in Jobs /\ loop[w] = "claim"
      BY <1>3 DEF Claim
    <3>2. pc[<<w, t[2]>>] = "none"
      BY <3>1
    <3> QED
      BY <3>1, <3>2, Zenon
  <2>5. \A v \in Workers : loop'[v] # "batch" => \A j \in Jobs : pc'[<<v, j>>] = "none"
    BY <2>2, <2>3
  <2> QED
    BY <2>1, <2>2, <2>4, <2>5
<1>4. ASSUME NEW w \in Workers, ClaimFails(w) PROVE TasksOK'
  BY <1>4 DEF ClaimFails, Return, GotoLoop, Take, Batches, Claimable, task
<1>5. ASSUME NEW w \in Workers, BatchDone(w) PROVE TasksOK'
  BY <1>5 DEF BatchDone, Return, GotoLoop, NextState, TasksOf, server
<1>6. ASSUME NEW w \in Workers, Sleep(w) PROVE TasksOK'
  BY <1>6 DEF Sleep, GotoLoop, server, task
<1>7. ASSUME NEW w \in Workers, Stop(w) PROVE TasksOK'
  BY <1>7 DEF Stop, server, task
<1>8. ASSUME NEW w \in Workers, Crash(w) PROVE TasksOK'
  BY <1>8
     DEF Crash, Forget, NoContext, Context, NoRequest, Return, GotoLoop, TasksOf, server
<1>9. ASSUME NEW t \in Tasks, StartTask(t) PROVE TasksOK'
  BY <1>9 DEF StartTask, Goto, TasksOf, server, worker
<1>10. ASSUME NEW t \in Tasks, Preflight(t) PROVE TasksOK'
  BY <1>10 DEF Preflight, Goto, Extend, Current, worker
<1>11. ASSUME NEW t \in Tasks, Replay(t) PROVE TasksOK'
  BY <1>11 DEF Replay, BackInHandler, NoRequest, Goto, Extend, Current, worker
<1>12. ASSUME NEW t \in Tasks, PreflightFails(t) PROVE TasksOK'
  BY <1>12 DEF PreflightFails, BackInHandler, NoRequest, Goto, Extend, Current, worker
<1>13. ASSUME NEW t \in Tasks, Closure(t) PROVE TasksOK'
  <2>1. CASE Goto(t, "commit") /\ UNCHANGED <<req, answer>>
    BY <1>13, <2>1 DEF Closure, Goto, server, worker
  <2>2. CASE BackInHandler(t)
    BY <1>13, <2>2 DEF Closure, BackInHandler, Goto, server, worker
  <2> QED
    BY <1>13, <2>1, <2>2 DEF Closure
<1>14. ASSUME NEW t \in Tasks, SendCommit(t) PROVE TasksOK'
  BY <1>14 DEF SendCommit, Goto, worker
<1>15. ASSUME NEW t \in Tasks, CommitFails(t) PROVE TasksOK'
  BY <1>15 DEF CommitFails, BackInHandler, NoRequest, Goto, server, worker
<1>16. ASSUME NEW t \in Tasks, CommitAnswered(t) PROVE TasksOK'
  BY <1>16 DEF CommitAnswered, Context, BackInHandler, NoRequest, Goto, server, worker
<1>17. ASSUME NEW t \in Tasks, CommitUnanswered(t) PROVE TasksOK'
  BY <1>17 DEF CommitUnanswered, Context, BackInHandler, NoRequest, Goto, server, worker
<1>18. ASSUME NEW t \in Tasks, CallAdvance(t) PROVE TasksOK'
  BY <1>18 DEF CallAdvance, Goto, Request, server, worker
<1>19. ASSUME NEW t \in Tasks, CallStep(t) PROVE TasksOK'
  BY <1>19 DEF CallStep, Goto, Request, server, worker
<1>20. ASSUME NEW t \in Tasks, Ends(t) PROVE TasksOK'
  <2>1. PICK ok \in BOOLEAN : Done(t, ok)
    BY <1>20 DEF Ends
  <2>2. /\ answer'[t] = "none" /\ unknown'[t] = {}
        /\ \A u \in Tasks \ {t} : answer'[u] = answer[u] /\ unknown'[u] = unknown[u]
    BY <2>1, ForgetTypes DEF Done
  <2>3. pc' = [pc EXCEPT ![t] = "done"] /\ UNCHANGED loop
    BY <1>20, <2>1 DEF Ends, Done, Goto
  <2>4. loop[t[1]] = "batch"
    <3>1. t = <<t[1], t[2]>> /\ t[1] \in Workers /\ t[2] \in Jobs /\ pc[t] # "none"
      BY <1>20 DEF Ends
    <3>2. pc[<<t[1], t[2]>>] # "none"
      BY <3>1, Zenon
    <3> QED
      BY <3>1, <3>2
  <2> QED
    BY <2>2, <2>3, <2>4
<1>21. ASSUME NEW t \in Tasks, Sends(t) PROVE TasksOK'
  BY <1>21 DEF Sends, Request, Send, Goto
<1>22. ASSUME NEW m \in net, Accept(m) PROVE TasksOK'
  BY <1>22 DEF Accept, Reply, Current, worker
<1>23. ASSUME NEW m \in net, Reject(m) PROVE TasksOK'
  BY <1>23 DEF Reject, Reply, Current, worker
<1>24. ASSUME NEW m \in net, Lose(m) PROVE TasksOK'
  BY <1>24 DEF Lose, worker, task
<1>25. ASSUME NEW j \in Jobs, Expire(j) PROVE TasksOK'
  BY <1>25 DEF Expire, worker, task
<1>26. CASE UNCHANGED vars
  BY <1>26 DEF vars, server, worker, task
<1> QED
  BY <1>1, <1>2, <1>3, <1>4, <1>5, <1>6, <1>7, <1>8, <1>9, <1>10, <1>11, <1>12, <1>13,
     <1>14, <1>15, <1>16, <1>17, <1>18, <1>19, <1>20, <1>21, <1>22, <1>23, <1>24, <1>25,
     <1>26, TaskForms
     DEF Next, LoopStep, TaskStep

\* Claims stay true: the server's token only grows, a task adopts the claim its own
\* mutation produced, and uncertainty once noted stays until the task is forgotten.
LEMMA ClaimsStep == WorkflowInv /\ [Next]_vars => ClaimsOK'
<1> SUFFICES ASSUME WorkflowInv, [Next]_vars PROVE ClaimsOK'
  OBVIOUS
<1> USE DEF WorkflowInv, ClaimsOK, ClaimOK, TypeOK, InCall
<1>1. ASSUME NEW w \in Workers, Begin(w) PROVE ClaimsOK'
  BY <1>1 DEF Begin, GotoLoop, server, task
<1>2. ASSUME NEW w \in Workers, ClaimNone(w) PROVE ClaimsOK'
  BY <1>2 DEF ClaimNone, NextState, GotoLoop, Return, server, task
<1>3. ASSUME NEW w \in Workers, Claim(w) PROVE ClaimsOK'
  <2> HIDE DEF ClaimsOK, ClaimOK, TypeOK, InCall
  <2> SUFFICES ASSUME NEW u \in Tasks PROVE ClaimOK(u)'
    BY DEF ClaimsOK
  <2>0. ClaimOK(u) /\ u[2] \in Jobs /\ ctx[u] \in Contexts
    BY DEF ClaimsOK, TypeOK, Tasks
  <2>1. PICK B \in Batches(States[at[w]]) :
             /\ Take(B)
             /\ pc' = [t \in Tasks |-> IF t \in {w} \X B THEN "queued" ELSE pc[t]]
             /\ ctx' = [t \in Tasks |-> IF t \in {w} \X B
                            THEN Context(fence[t[2]] + 1, runState[t[2]], {}, FALSE)
                            ELSE ctx[t]]
    BY <1>3 DEF Claim
  <2>2. UNCHANGED <<req, answer, unknown>>
    BY <1>3 DEF Claim
  <2>3. B \in SUBSET Claimable(States[at[w]])
    BY <2>1 DEF Batches
  <2>4. \A j \in Jobs : fence[j] \in Nat /\ fence'[j] = IF j \in B THEN fence[j] + 1 ELSE fence[j]
    BY <2>1, <2>3, TakeTypes DEF TypeOK
  <2>5. CASE u \in {w} \X B
    <3>1. pc'[u] = "queued" /\ ctx'[u] = Context(fence[u[2]] + 1, runState[u[2]], {}, FALSE)
      BY <2>1, <2>5
    <3>2. u[2] \in B /\ u = <<w, u[2]>> /\ loop[w] = "claim"
      BY <1>3, <2>5 DEF Claim
    <3>3. pc[<<w, u[2]>>] = "none"
      BY <2>0, <3>2 DEF TasksOK
    <3>4. unknown[u] = {}
      BY <3>2, <3>3 DEF TasksOK
    <3> QED
      BY <2>0, <2>2, <2>4, <3>1, <3>2, <3>4 DEF ClaimOK, Context, InCall
  <2>6. CASE u \notin {w} \X B
    <3>1. pc'[u] = pc[u] /\ ctx'[u] = ctx[u]
      BY <2>1, <2>6
    <3>2. fence[u[2]] <= fence'[u[2]] /\ fence'[u[2]] \in Nat
      BY <2>0, <2>4
    <3>3. pc[u] = "commitWait" => req[u].fence \in Nat
      BY DEF TypeOK, Mutations
    <3> QED
      BY <2>0, <2>2, <2>4, <3>1, <3>2, <3>3 DEF ClaimOK, Contexts
  <2> QED
    BY <2>5, <2>6
<1>4. ASSUME NEW w \in Workers, ClaimFails(w) PROVE ClaimsOK'
  <2> HIDE DEF ClaimsOK, ClaimOK, TypeOK, InCall
  <2> SUFFICES ASSUME NEW u \in Tasks PROVE ClaimOK(u)'
    BY DEF ClaimsOK
  <2>0. ClaimOK(u) /\ u[2] \in Jobs /\ ctx[u] \in Contexts
    BY DEF ClaimsOK, TypeOK, Tasks
  <2>1. UNCHANGED task
    BY <1>4 DEF ClaimFails
  <2>2. fence[u[2]] \in Nat /\ fence'[u[2]] \in Nat /\ fence[u[2]] <= fence'[u[2]]
    <3>1. PICK B \in Batches(States[at[w]]) : Take(B)
      BY <1>4 DEF ClaimFails
    <3>2. B \in SUBSET Claimable(States[at[w]])
      BY DEF Batches
    <3> QED
      BY <2>0, <3>1, <3>2, TakeTypes
  <2>3. pc[u] = "commitWait" => req[u].fence \in Nat
    BY DEF TypeOK, Mutations
  <2> QED
    BY <2>0, <2>1, <2>2, <2>3 DEF task, ClaimOK, Contexts
<1>5. ASSUME NEW w \in Workers, BatchDone(w) PROVE ClaimsOK'
  BY <1>5 DEF BatchDone, Return, GotoLoop, NextState, TasksOf, server
<1>6. ASSUME NEW w \in Workers, Sleep(w) PROVE ClaimsOK'
  BY <1>6 DEF Sleep, GotoLoop, server, task
<1>7. ASSUME NEW w \in Workers, Stop(w) PROVE ClaimsOK'
  BY <1>7 DEF Stop, server, task
<1>8. ASSUME NEW w \in Workers, Crash(w) PROVE ClaimsOK'
  <2> HIDE DEF ClaimsOK, ClaimOK, TypeOK, InCall
  <2> SUFFICES ASSUME NEW u \in Tasks PROVE ClaimOK(u)'
    BY DEF ClaimsOK
  <2>0. ClaimOK(u) /\ u[2] \in Jobs /\ ctx[u] \in Contexts
    BY DEF ClaimsOK, TypeOK, Tasks
  <2>1. pc'[u] = IF u[1] = w THEN "none" ELSE pc[u]
    BY <1>8 DEF Crash
  <2>2. UNCHANGED fence
    BY <1>8 DEF Crash, server
  <2>3. CASE u[1] = w
    <3>1. ctx'[u] = NoContext /\ unknown'[u] = {}
      BY <1>8, <2>3, ForgetTypes DEF Crash, TasksOf
    <3> QED
      BY <2>0, <2>1, <2>2, <2>3, <3>1 DEF ClaimOK, NoContext, Context, InCall, TypeOK
  <2>4. CASE u[1] # w
    <3>1. ctx'[u] = ctx[u] /\ req'[u] = req[u] /\ answer'[u] = answer[u] /\ unknown'[u] = unknown[u]
      BY <1>8, <2>4, ForgetTypes DEF Crash, TasksOf
    <3> QED
      BY <2>0, <2>1, <2>2, <2>4, <3>1 DEF ClaimOK
  <2> QED
    BY <2>3, <2>4
<1>9. ASSUME NEW t \in Tasks, StartTask(t) PROVE ClaimsOK'
  BY <1>9 DEF StartTask, Goto, TasksOf, server, worker
<1>10. ASSUME NEW t \in Tasks, Preflight(t) PROVE ClaimsOK'
  BY <1>10 DEF Preflight, Goto, Extend, Current, worker
<1>11. ASSUME NEW t \in Tasks, Replay(t) PROVE ClaimsOK'
  BY <1>11 DEF Replay, BackInHandler, NoRequest, Goto, Extend, Current, worker
<1>12. ASSUME NEW t \in Tasks, PreflightFails(t) PROVE ClaimsOK'
  BY <1>12 DEF PreflightFails, BackInHandler, NoRequest, Goto, Extend, Current, worker
<1>13. ASSUME NEW t \in Tasks, Closure(t) PROVE ClaimsOK'
  BY <1>13 DEF Closure, Goto, BackInHandler, NoRequest, server, worker
<1>14. ASSUME NEW t \in Tasks, SendCommit(t) PROVE ClaimsOK'
  <2> HIDE DEF ClaimsOK, ClaimOK, TypeOK, InCall
  <2> SUFFICES ASSUME NEW u \in Tasks PROVE ClaimOK(u)'
    BY DEF ClaimsOK
  <2>0. ClaimOK(u) /\ u[2] \in Jobs /\ ctx[u] \in Contexts
    BY DEF ClaimsOK, TypeOK, Tasks
  <2>1. pc' = [pc EXCEPT ![t] = "commitWait"] /\ UNCHANGED <<fence, ctx, req, answer, unknown>>
    BY <1>14 DEF SendCommit, Goto
  <2>2. pc[t] = "commit" /\ answer[t] = "none"
    BY <1>14 DEF SendCommit, TasksOK, Waiting
  <2> QED
    BY <2>0, <2>1, <2>2 DEF ClaimOK, InCall, TypeOK
<1>15. ASSUME NEW t \in Tasks, CommitFails(t) PROVE ClaimsOK'
  BY <1>15 DEF CommitFails, BackInHandler, NoRequest, Goto, server, worker
<1>16. ASSUME NEW t \in Tasks, CommitAnswered(t) PROVE ClaimsOK'
  <2> HIDE DEF ClaimsOK, ClaimOK, TypeOK, InCall
  <2> SUFFICES ASSUME NEW u \in Tasks PROVE ClaimOK(u)'
    BY DEF ClaimsOK
  <2>0. ClaimOK(u) /\ u[2] \in Jobs /\ ctx[u] \in Contexts
    BY DEF ClaimsOK, TypeOK, Tasks
  <2>1. UNCHANGED <<fence, unknown>> /\ pc' = [pc EXCEPT ![t] = "handler"]
        /\ req' = [req EXCEPT ![t] = NoRequest] /\ answer' = [answer EXCEPT ![t] = "none"]
    BY <1>16 DEF CommitAnswered, BackInHandler, Goto, server
  <2>2. CASE u # t
    <3>1. ctx'[u] = ctx[u]
      BY <1>16, <2>2 DEF CommitAnswered, TypeOK
    <3> QED
      BY <2>0, <2>1, <2>2, <3>1 DEF ClaimOK, TypeOK
  <2>3. CASE u = t
    <3>1. req[t].fence < fence[t[2]] /\ req[t].fence = ctx[t].fence /\ fence[t[2]] \in Nat
      BY <1>16, <2>0, <2>3 DEF CommitAnswered, ClaimOK, InCall, TypeOK
    <3>2. ctx'[t] = Context(req[t].fence + 1, req[t].to, ctx[t].applied \cup {req[t].fence + 1},
                            ctx[t].uncertain)
      BY <1>16 DEF CommitAnswered, TypeOK
    <3>3. ctx[t].fence \in Nat /\ \A f \in ctx[t].applied : f \in Nat
      BY <2>0, <2>3 DEF Contexts
    <3> QED
      BY <2>0, <2>1, <2>3, <3>1, <3>2, <3>3 DEF ClaimOK, Context, InCall, TypeOK
  <2> QED
    BY <2>2, <2>3
<1>17. ASSUME NEW t \in Tasks, CommitUnanswered(t) PROVE ClaimsOK'
  BY <1>17 DEF CommitUnanswered, Context, BackInHandler, NoRequest, Goto, server, worker
<1>18. ASSUME NEW t \in Tasks, CallAdvance(t) PROVE ClaimsOK'
  BY <1>18 DEF CallAdvance, Goto, Request, server, worker
<1>19. ASSUME NEW t \in Tasks, CallStep(t) PROVE ClaimsOK'
  BY <1>19 DEF CallStep, Goto, Request, server, worker
<1>20. ASSUME NEW t \in Tasks, Ends(t) PROVE ClaimsOK'
  <2> HIDE DEF ClaimsOK, ClaimOK, TypeOK, InCall
  <2> SUFFICES ASSUME NEW u \in Tasks PROVE ClaimOK(u)'
    BY DEF ClaimsOK
  <2>0. ClaimOK(u) /\ u[2] \in Jobs /\ ctx[u] \in Contexts
    BY DEF ClaimsOK, TypeOK, Tasks
  <2>1. PICK ok \in BOOLEAN : Done(t, ok)
    BY <1>20 DEF Ends
  <2>2. pc' = [pc EXCEPT ![t] = "done"] /\ UNCHANGED fence
    BY <1>20, <2>1 DEF Ends, Done, Goto, server
  <2>3. CASE u = t
    <3>1. ctx'[u] = NoContext /\ unknown'[u] = {}
      BY <2>1, <2>3, ForgetTypes DEF Done
    <3> QED
      BY <2>0, <2>2, <2>3, <3>1 DEF ClaimOK, NoContext, Context, InCall, TypeOK
  <2>4. CASE u # t
    <3>1. ctx'[u] = ctx[u] /\ req'[u] = req[u] /\ answer'[u] = answer[u] /\ unknown'[u] = unknown[u]
      BY <2>1, <2>4, ForgetTypes DEF Done
    <3> QED
      BY <2>0, <2>2, <2>4, <3>1 DEF ClaimOK, TypeOK
  <2> QED
    BY <2>3, <2>4
<1>21. ASSUME NEW t \in Tasks, Sends(t) PROVE ClaimsOK'
  BY <1>21 DEF Sends, Request, Send, Goto
<1>22. ASSUME NEW m \in net, Accept(m) PROVE ClaimsOK'
  <2> HIDE DEF ClaimsOK, ClaimOK, TypeOK, InCall
  <2> SUFFICES ASSUME NEW u \in Tasks PROVE ClaimOK(u)'
    BY DEF ClaimsOK
  <2>0. ClaimOK(u) /\ u[2] \in Jobs /\ ctx[u] \in Contexts
    BY DEF ClaimsOK, TypeOK, Tasks
  <2>1. m \in Mutations /\ UNCHANGED <<pc, ctx, req, unknown>>
    BY <1>22 DEF Accept, TypeOK
  <2>2. m.job \in Jobs /\ m.fence = fence[m.job] /\ m.fence \in Nat
    BY <1>22, <2>1 DEF Accept, Current, Mutations
  <2>3. \A j \in Jobs : fence[j] \in Nat /\ fence'[j] \in Nat /\ fence[j] <= fence'[j]
        /\ (j = m.job /\ m.kind = "continue" => fence'[j] = fence[j] + 1)
    BY <1>22, <2>2 DEF Accept, TypeOK
  <2>4. pc[u] = "commitWait" => req[u].fence \in Nat
    BY DEF TypeOK, Mutations
  <2>5. pc[u] = "commitWait" /\ answer'[u] = "ok" => answer[u] = "ok" \/ req[u] = m
    BY <1>22 DEF Accept, Reply
  <2>6. pc[u] = "commitWait" /\ answer'[u] = "ok" => req[u].fence < fence'[u[2]]
    BY <2>0, <2>2, <2>3, <2>4, <2>5 DEF ClaimOK, InCall
  <2> QED
    BY <2>0, <2>1, <2>3, <2>6 DEF ClaimOK, Contexts
<1>23. ASSUME NEW m \in net, Reject(m) PROVE ClaimsOK'
  BY <1>23 DEF Reject, Reply, Current, worker
<1>24. ASSUME NEW m \in net, Lose(m) PROVE ClaimsOK'
  BY <1>24 DEF Lose, worker, task
<1>25. ASSUME NEW j \in Jobs, Expire(j) PROVE ClaimsOK'
  BY <1>25 DEF Expire, worker, task
<1>26. CASE UNCHANGED vars
  BY <1>26 DEF vars, server, worker, task
<1> QED
  BY <1>1, <1>2, <1>3, <1>4, <1>5, <1>6, <1>7, <1>8, <1>9, <1>10, <1>11, <1>12, <1>13,
     <1>14, <1>15, <1>16, <1>17, <1>18, <1>19, <1>20, <1>21, <1>22, <1>23, <1>24, <1>25,
     <1>26, TaskForms
     DEF Next, LoopStep, TaskStep

\* A mutation stays fresh: a step is stored only together with a new fencing token,
\* which makes every other mutation on the old claim stale.
LEMMA FreshStep == WorkflowInv /\ [Next]_vars => FreshOK'
<1> SUFFICES ASSUME WorkflowInv, [Next]_vars PROVE FreshOK'
  OBVIOUS
<1> USE DEF WorkflowInv, FreshOK, Fresh, TypeOK, ClaimsOK
<1>1. ASSUME NEW w \in Workers, Begin(w) PROVE FreshOK'
  BY <1>1 DEF Begin, GotoLoop, server, task
<1>2. ASSUME NEW w \in Workers, ClaimNone(w) PROVE FreshOK'
  BY <1>2 DEF ClaimNone, NextState, GotoLoop, Return, server, task
<1>3. ASSUME NEW w \in Workers, Claim(w) PROVE FreshOK'
  <2>1. PICK B \in Batches(States[at[w]]) :
             /\ Take(B)
             /\ pc' = [t \in Tasks |-> IF t \in {w} \X B THEN "queued" ELSE pc[t]]
             /\ ctx' = [t \in Tasks |-> IF t \in {w} \X B
                            THEN Context(fence[t[2]] + 1, runState[t[2]], {}, FALSE)
                            ELSE ctx[t]]
    BY <1>3 DEF Claim
  <2>2. B \in SUBSET Claimable(States[at[w]])
    BY <2>1 DEF Batches
  <2>3. \A j \in Jobs : fence[j] \in Nat /\ fence'[j] \in Nat /\ fence[j] <= fence'[j]
    <3> HIDE DEF TypeOK
    <3> QED
      BY <2>1, <2>2, TakeTypes
  <2>4. UNCHANGED <<values, net, req>>
    BY <1>3, <2>1, <2>2, TakeTypes DEF Claim
  <2>5. \A t \in Tasks : pc'[t] \in {"closure", "commit"} => pc[t] = pc'[t]
    BY <2>1
  <2>6. \A x \in Mutations : Fresh(x) => Fresh(x)'
    <3> SUFFICES ASSUME NEW x \in Mutations, Fresh(x) PROVE Fresh(x)'
      OBVIOUS
    <3>1. x.job \in Jobs /\ x.fence \in Nat
      BY DEF Mutations
    <3>2. fence[x.job] \in Nat /\ fence'[x.job] \in Nat /\ fence[x.job] <= fence'[x.job]
      BY <2>3, <3>1
    <3>3. x.fence <= fence[x.job] /\ values'[x.job] = values[x.job]
      BY <2>4
    <3> HIDE DEF FreshOK, Fresh, TypeOK, ClaimsOK
    <3>4. x.fence <= fence'[x.job] /\ (x.fence = fence'[x.job] => x.fence = fence[x.job])
      BY <3>1, <3>2, <3>3
    <3> QED
      BY <3>3, <3>4 DEF Fresh
  <2> QED
    BY <2>4, <2>5, <2>6
<1>4. ASSUME NEW w \in Workers, ClaimFails(w) PROVE FreshOK'
  <2>1. /\ \A j \in Jobs : fence[j] \in Nat /\ fence'[j] \in Nat /\ fence[j] <= fence'[j]
        /\ UNCHANGED <<values, net>>
    <3>1. PICK B \in Batches(States[at[w]]) : Take(B)
      BY <1>4 DEF ClaimFails
    <3>2. B \in SUBSET Claimable(States[at[w]])
      BY DEF Batches
    <3> HIDE DEF TypeOK
    <3> QED
      BY <3>1, <3>2, TakeTypes
  <2>2. UNCHANGED <<values, net, req, pc>>
    BY <1>4, <2>1 DEF ClaimFails, task
  <2>3. \A x \in Mutations : Fresh(x) => Fresh(x)'
    <3> SUFFICES ASSUME NEW x \in Mutations, Fresh(x) PROVE Fresh(x)'
      OBVIOUS
    <3>1. x.job \in Jobs /\ x.fence \in Nat
      BY DEF Mutations
    <3>2. fence[x.job] \in Nat /\ fence'[x.job] \in Nat /\ fence[x.job] <= fence'[x.job]
      BY <2>1, <3>1
    <3>3. x.fence <= fence[x.job] /\ values'[x.job] = values[x.job]
      BY <2>2
    <3> HIDE DEF FreshOK, Fresh, TypeOK, ClaimsOK
    <3>4. x.fence <= fence'[x.job] /\ (x.fence = fence'[x.job] => x.fence = fence[x.job])
      BY <3>1, <3>2, <3>3
    <3> QED
      BY <3>3, <3>4 DEF Fresh
  <2> QED
    BY <2>2, <2>3
<1>5. ASSUME NEW w \in Workers, BatchDone(w) PROVE FreshOK'
  BY <1>5 DEF BatchDone, Return, GotoLoop, NextState, TasksOf, server
<1>6. ASSUME NEW w \in Workers, Sleep(w) PROVE FreshOK'
  BY <1>6 DEF Sleep, GotoLoop, server, task
<1>7. ASSUME NEW w \in Workers, Stop(w) PROVE FreshOK'
  BY <1>7 DEF Stop, server, task
<1>8. ASSUME NEW w \in Workers, Crash(w) PROVE FreshOK'
  BY <1>8
     DEF Crash, Forget, NoContext, Context, NoRequest, Return, GotoLoop, TasksOf, server
<1>9. ASSUME NEW t \in Tasks, StartTask(t) PROVE FreshOK'
  BY <1>9 DEF StartTask, Goto, TasksOf, server, worker
<1>10. ASSUME NEW t \in Tasks, Preflight(t) PROVE FreshOK'
  <2>1. req[t].job = t[2] /\ req[t].fence <= fence[t[2]] /\ req[t].kind = "continue"
    BY <1>10 DEF Preflight, ClaimOK, InCall
  <2>2. req[t].name \notin values[t[2]] /\ UNCHANGED <<values, fence, net, req>>
        /\ pc' = [pc EXCEPT ![t] = "closure"]
    BY <1>10 DEF Preflight, Goto
  <2> QED
    BY <2>1, <2>2
<1>11. ASSUME NEW t \in Tasks, Replay(t) PROVE FreshOK'
  BY <1>11 DEF Replay, BackInHandler, NoRequest, Goto, Extend, Current, worker
<1>12. ASSUME NEW t \in Tasks, PreflightFails(t) PROVE FreshOK'
  BY <1>12 DEF PreflightFails, BackInHandler, NoRequest, Goto, Extend, Current, worker
<1>13. ASSUME NEW t \in Tasks, Closure(t) PROVE FreshOK'
  BY <1>13 DEF Closure, Goto, BackInHandler, NoRequest, server, worker
<1>14. ASSUME NEW t \in Tasks, SendCommit(t) PROVE FreshOK'
  BY <1>14 DEF SendCommit, Goto, worker
<1>15. ASSUME NEW t \in Tasks, CommitFails(t) PROVE FreshOK'
  BY <1>15 DEF CommitFails, BackInHandler, NoRequest, Goto, server, worker
<1>16. ASSUME NEW t \in Tasks, CommitAnswered(t) PROVE FreshOK'
  BY <1>16 DEF CommitAnswered, Context, BackInHandler, NoRequest, Goto, server, worker
<1>17. ASSUME NEW t \in Tasks, CommitUnanswered(t) PROVE FreshOK'
  BY <1>17 DEF CommitUnanswered, Context, BackInHandler, NoRequest, Goto, server, worker
<1>18. ASSUME NEW t \in Tasks, CallAdvance(t) PROVE FreshOK'
  <2>1. PICK s \in StateNames : req' = [req EXCEPT ![t] = Request(t, "continue", s, NoStep)]
    BY <1>18 DEF CallAdvance
  <2> DEFINE m == Request(t, "continue", s, NoStep)
  <2>2. m.job = t[2] /\ m.fence = ctx[t].fence /\ m.kind = "continue" /\ m.name = NoStep
    BY RequestTyped
  <2>3. t[2] \in Jobs /\ ctx[t].fence <= fence[t[2]] /\ NoStep \notin values[t[2]]
    BY DEF ClaimOK, ValuesOK, Tasks
  <2>4. UNCHANGED <<values, fence, net>> /\ pc' = [pc EXCEPT ![t] = "commit"]
    BY <1>18 DEF CallAdvance, Goto, server
  <2>5. req'[t] = m /\ \A u \in Tasks \ {t} : req'[u] = req[u]
    BY <2>1
  <2> HIDE DEF m
  <2>6. Fresh(req[t])'
    BY <2>2, <2>3, <2>4, <2>5
  <2> QED
    BY <2>4, <2>5, <2>6
<1>19. ASSUME NEW t \in Tasks, CallStep(t) PROVE FreshOK'
  BY <1>19 DEF CallStep, Goto, Request, server, worker
<1>20. ASSUME NEW t \in Tasks, Ends(t) PROVE FreshOK'
  BY <1>20 DEF Ends, Done, Goto, Forget, NoContext, Context, NoRequest, server
<1>21. ASSUME NEW t \in Tasks, Sends(t) PROVE FreshOK'
  <2>1. PICK kind \in {"end", "release"}, to \in StateNames : Send(t, Request(t, kind, to, NoStep))
    BY <1>21 DEF Sends
  <2> DEFINE m == Request(t, kind, to, NoStep)
  <2>2. m.job = t[2] /\ m.fence = ctx[t].fence /\ m.kind = kind /\ m.name = NoStep
    BY RequestTyped
  <2>3. t[2] \in Jobs /\ ctx[t].fence <= fence[t[2]] /\ NoStep \notin values[t[2]]
    BY DEF ClaimOK, ValuesOK, Tasks
  <2>4. UNCHANGED <<values, fence>> /\ pc' = [pc EXCEPT ![t] = "outcomeWait"]
        /\ net' = net \cup {m} /\ req' = [req EXCEPT ![t] = m]
    BY <2>1 DEF Send, Goto
  <2> HIDE DEF m
  <2>5. Fresh(m)
    BY <2>2, <2>3
  <2> QED
    BY <2>4, <2>5
<1>22. ASSUME NEW m \in net, Accept(m) PROVE FreshOK'
  <2>1. m \in Mutations /\ UNCHANGED <<pc, req>> /\ net' \subseteq net
    BY <1>22 DEF Accept
  <2>2. m.job \in Jobs /\ m.fence = fence[m.job]
    BY <1>22, <2>1 DEF Accept, Current, Mutations
  <2>3. ASSUME NEW x \in Mutations, Fresh(x)
        PROVE  Fresh(x)'
    <3>1. x.job \in Jobs /\ x.fence \in Nat
      BY DEF Mutations
    <3>2. CASE m.kind = "continue" /\ x.job = m.job
      <4>1. fence'[x.job] = fence[x.job] + 1 /\ fence[x.job] \in Nat
        BY <1>22, <2>2, <3>2 DEF Accept
      <4> QED
        BY <2>3, <3>1, <4>1
    <3>3. CASE ~(m.kind = "continue" /\ x.job = m.job)
      <4>1. fence'[x.job] = fence[x.job]
        BY <1>22, <2>2, <3>1, <3>3 DEF Accept
      <4>2. m.kind # "continue" => m.name = NoStep
        OBVIOUS
      <4>3. values'[x.job] = values[x.job]
        BY <1>22, <2>2, <3>1, <3>3, <4>2 DEF Accept
      <4> QED
        BY <2>3, <4>1, <4>3
    <3> QED
      BY <3>2, <3>3
  <2>4. \A t \in Tasks : pc[t] \in {"closure", "commit"} => req[t] \in Mutations
    OBVIOUS
  <2> QED
    BY <2>1, <2>3, <2>4
<1>23. ASSUME NEW m \in net, Reject(m) PROVE FreshOK'
  BY <1>23 DEF Reject, Reply, Current, worker
<1>24. ASSUME NEW m \in net, Lose(m) PROVE FreshOK'
  BY <1>24 DEF Lose, worker, task
<1>25. ASSUME NEW j \in Jobs, Expire(j) PROVE FreshOK'
  BY <1>25 DEF Expire, worker, task
<1>26. CASE UNCHANGED vars
  BY <1>26 DEF vars, server, worker, task
<1> QED
  BY <1>1, <1>2, <1>3, <1>4, <1>5, <1>6, <1>7, <1>8, <1>9, <1>10, <1>11, <1>12, <1>13,
     <1>14, <1>15, <1>16, <1>17, <1>18, <1>19, <1>20, <1>21, <1>22, <1>23, <1>24, <1>25,
     <1>26, TaskForms
     DEF Next, LoopStep, TaskStep

\* The counts follow the stored results: only the acceptance of a fresh mutation
\* stores one.
LEMMA ValuesStep == WorkflowInv /\ [Next]_vars => ValuesOK'
<1> SUFFICES ASSUME WorkflowInv, [Next]_vars PROVE ValuesOK'
  OBVIOUS
<1> USE DEF WorkflowInv, ValuesOK, FreshOK, Fresh, TypeOK
<1>1. ASSUME NEW w \in Workers, Begin(w) PROVE ValuesOK'
  BY <1>1 DEF Begin, GotoLoop, server, task
<1>2. ASSUME NEW w \in Workers, ClaimNone(w) PROVE ValuesOK'
  BY <1>2 DEF ClaimNone, NextState, GotoLoop, Return, server, task
<1>3. ASSUME NEW w \in Workers, Claim(w) PROVE ValuesOK'
  BY <1>3 DEF Claim, Context, GotoLoop, Take, Batches, Claimable
<1>4. ASSUME NEW w \in Workers, ClaimFails(w) PROVE ValuesOK'
  BY <1>4 DEF ClaimFails, Return, GotoLoop, Take, Batches, Claimable, task
<1>5. ASSUME NEW w \in Workers, BatchDone(w) PROVE ValuesOK'
  BY <1>5 DEF BatchDone, Return, GotoLoop, NextState, TasksOf, server
<1>6. ASSUME NEW w \in Workers, Sleep(w) PROVE ValuesOK'
  BY <1>6 DEF Sleep, GotoLoop, server, task
<1>7. ASSUME NEW w \in Workers, Stop(w) PROVE ValuesOK'
  BY <1>7 DEF Stop, server, task
<1>8. ASSUME NEW w \in Workers, Crash(w) PROVE ValuesOK'
  BY <1>8
     DEF Crash, Forget, NoContext, Context, NoRequest, Return, GotoLoop, TasksOf, server
<1>9. ASSUME NEW t \in Tasks, StartTask(t) PROVE ValuesOK'
  BY <1>9 DEF StartTask, Goto, TasksOf, server, worker
<1>10. ASSUME NEW t \in Tasks, Preflight(t) PROVE ValuesOK'
  BY <1>10 DEF Preflight, Goto, Extend, Current, worker
<1>11. ASSUME NEW t \in Tasks, Replay(t) PROVE ValuesOK'
  BY <1>11 DEF Replay, BackInHandler, NoRequest, Goto, Extend, Current, worker
<1>12. ASSUME NEW t \in Tasks, PreflightFails(t) PROVE ValuesOK'
  BY <1>12 DEF PreflightFails, BackInHandler, NoRequest, Goto, Extend, Current, worker
<1>13. ASSUME NEW t \in Tasks, Closure(t) PROVE ValuesOK'
  BY <1>13 DEF Closure, Goto, BackInHandler, NoRequest, server, worker
<1>14. ASSUME NEW t \in Tasks, SendCommit(t) PROVE ValuesOK'
  BY <1>14 DEF SendCommit, Goto, worker
<1>15. ASSUME NEW t \in Tasks, CommitFails(t) PROVE ValuesOK'
  BY <1>15 DEF CommitFails, BackInHandler, NoRequest, Goto, server, worker
<1>16. ASSUME NEW t \in Tasks, CommitAnswered(t) PROVE ValuesOK'
  BY <1>16 DEF CommitAnswered, Context, BackInHandler, NoRequest, Goto, server, worker
<1>17. ASSUME NEW t \in Tasks, CommitUnanswered(t) PROVE ValuesOK'
  BY <1>17 DEF CommitUnanswered, Context, BackInHandler, NoRequest, Goto, server, worker
<1>18. ASSUME NEW t \in Tasks, CallAdvance(t) PROVE ValuesOK'
  BY <1>18 DEF CallAdvance, Goto, Request, server, worker
<1>19. ASSUME NEW t \in Tasks, CallStep(t) PROVE ValuesOK'
  BY <1>19 DEF CallStep, Goto, Request, server, worker
<1>20. ASSUME NEW t \in Tasks, Ends(t) PROVE ValuesOK'
  BY <1>20 DEF Ends, Done, Goto, Forget, NoContext, Context, NoRequest, server
<1>21. ASSUME NEW t \in Tasks, Sends(t) PROVE ValuesOK'
  BY <1>21 DEF Sends, Request, Send, Goto
<1>22. ASSUME NEW m \in net, Accept(m) PROVE ValuesOK'
  BY <1>22 DEF Accept, Reply, Current, worker
<1>23. ASSUME NEW m \in net, Reject(m) PROVE ValuesOK'
  BY <1>23 DEF Reject, Reply, Current, worker
<1>24. ASSUME NEW m \in net, Lose(m) PROVE ValuesOK'
  BY <1>24 DEF Lose, worker, task
<1>25. ASSUME NEW j \in Jobs, Expire(j) PROVE ValuesOK'
  BY <1>25 DEF Expire, worker, task
<1>26. CASE UNCHANGED vars
  BY <1>26 DEF vars, server, worker, task
<1> QED
  BY <1>1, <1>2, <1>3, <1>4, <1>5, <1>6, <1>7, <1>8, <1>9, <1>10, <1>11, <1>12, <1>13,
     <1>14, <1>15, <1>16, <1>17, <1>18, <1>19, <1>20, <1>21, <1>22, <1>23, <1>24, <1>25,
     <1>26, TaskForms
     DEF Next, LoopStep, TaskStep

----------------------------------------------------------------------------
\* Every job starts unclaimed, without a stored step, and no task has begun.
LEMMA WorkflowInit == Init => WorkflowInv
<1> SUFFICES ASSUME Init PROVE WorkflowInv
  OBVIOUS
<1>1. TypeOK
  <2>1. 0 \in 0..MaxFence
    BY WorkflowConstants
  <2> QED
    BY <2>1, StatesTyped, NoContextTyped DEF Init, TypeOK, PCs, Tasks
<1>2. TasksOK
  BY DEF Init, TasksOK, Tasks
<1>3. ClaimsOK
  BY DEF Init, ClaimsOK, ClaimOK, NoContext, Context, InCall, Tasks
<1>4. FreshOK /\ ValuesOK
  BY DEF Init, FreshOK, ValuesOK
<1> QED
  BY <1>1, <1>2, <1>3, <1>4 DEF WorkflowInv

\* WorkflowInv holds in every reachable state, through lost answers, late mutations,
\* expired leases, stops and crashes.
THEOREM WorkflowInvariant == Spec => []WorkflowInv
<1>1. WorkflowInv /\ [Next]_vars => WorkflowInv'
  BY TypeStep, TasksStep, ClaimsStep, FreshStep, ValuesStep DEF WorkflowInv
<1> QED
  BY <1>1, WorkflowInit, PTL DEF Spec

\* The result of a durable step is stored at most once, whoever runs its closure how
\* often (client_durable_step.go:98-111).
THEOREM StepCommittedOnceHolds == Spec => []StepCommittedOnce
<1>1. WorkflowInv => StepCommittedOnce
  BY DEF WorkflowInv, ValuesOK, StepCommittedOnce
<1> QED
  BY <1>1, WorkflowInvariant, PTL

\* A worker whose claim is still good never runs the closure of a step whose result
\* is stored (client_durable_step.go:58).
THEOREM ReplayNotRerunHolds == Spec => []ReplayNotRerun
<1>1. WorkflowInv => ReplayNotRerun
  BY DEF WorkflowInv, FreshOK, Fresh, ClaimsOK, ClaimOK, InCall, Current, ReplayNotRerun
<1> QED
  BY <1>1, WorkflowInvariant, PTL

\* The worker's own mutation goes out on the latest claim of the context and never
\* after a STEP_CONTINUE of unknown fate (workflow.go:346-355).
THEOREM OutcomeOnLatestClaimHolds == Spec => []OutcomeOnLatestClaim
<1>1. WorkflowInv => OutcomeOnLatestClaim
  BY DEF WorkflowInv, ClaimsOK, ClaimOK, OutcomeOnLatestClaim
<1> QED
  BY <1>1, WorkflowInvariant, PTL

-----------------------------------------------------------------------------
(* The queue workers: what the claims of a worker, its channel and its batch  *)
(* have to do with each other.                                                *)

\* The server has issued every token in use; what it has yet to issue is new.
TokensIssued ==
    \A j \in QueueJobs :
        /\ \A w \in Queuers : claims[w][j] <= jobs[j].fence
        /\ \A f \in 1..MaxClaims : f > jobs[j].fence =>
             <<j, f>> \notin handled /\ requests[<<j, f>>] = 0

\* No two workers hold the same claim.
ClaimsApart ==
    \A v, w \in Queuers, j \in QueueJobs : claims[v][j] = claims[w][j] /\ claims[v][j] # 0 => v = w

\* A job has a handler when it is claimed, and has succeeded only once it has ended.
HandlersOfClaims ==
    \A w \in Queuers, j \in QueueJobs :
        /\ hs[w][j] = "none" <=> claims[w][j] = 0
        /\ claims[w][j] # 0 /\ ClaimOf(w, j) \in handled => hs[w][j] = "end"

\* What is in the channel and what is in the batch are successes of this run, each
\* there once, and nothing is in either of them between two runs.
SuccessesOfRun ==
    \A w \in Queuers :
        /\ \A c \in Items(succeeded[w]) \cup Items(batch[w]) :
             c \in handled /\ c[2] = claims[w][c[1]]
        /\ runOnce[w] \in {"idle", "stopped"} =>
             /\ succeeded[w] = <<>> /\ batch[w] = <<>>
             /\ \A j \in QueueJobs : hs[w][j] \in {"none", "end"}
Distinct(s) == \A m, n \in DOMAIN s : s[m] = s[n] => m = n
SuccessesApart ==
    \A w \in Queuers : /\ Distinct(succeeded[w]) /\ Distinct(batch[w])
                       /\ Items(succeeded[w]) \cap Items(batch[w]) = {}

\* A success waits in the channel, or in the batch until that is sent, or its
\* completion has been requested, unless it was refused.
Waits(w, c) == c \in Items(succeeded[w]) \/ (runOnce[w] = "running" /\ c \in Items(batch[w]))
RequestsCounted ==
    \A w \in Queuers : \A j \in Mine(w) :
        requests[ClaimOf(w, j)] =
            IF ClaimOf(w, j) \in handled \ refused /\ ~ Waits(w, ClaimOf(w, j)) THEN 1 ELSE 0

\* What was refused is a success that waits nowhere; its run has recorded an error, and
\* one of its jobs has no partition key.
RefusedOf(w) ==
    /\ \A c \in Items(succeeded[w]) \cup Items(batch[w]) : c \notin refused
    /\ \A j \in Mine(w) : ClaimOf(w, j) \in refused => err[w] /\ Mine(w) \cap keyless # {}
RefusedReported == refused \subseteq handled /\ \A w \in Queuers : RefusedOf(w)

\* What is counted as completed is done; what is counted otherwise has ended in
\* no success.
DoneOf(w) == {j \in Mine(w) : jobs[j].st = "done" /\ jobs[j].fence = claims[w][j]}
AnsweredOf(w) == {j \in Mine(w) : hs[w][j] = "end" /\ ClaimOf(w, j) \notin handled}
CountedOf(w) ==
    /\ counts[w].completed <= Cardinality(DoneOf(w))
    /\ counts[w].retried + counts[w].failed <= Cardinality(AnsweredOf(w))
Counted == \A w \in Queuers : CountedOf(w)

QueueInvariant ==
    /\ QueueTypeOK /\ TokensIssued /\ ClaimsApart /\ HandlersOfClaims /\ SuccessesOfRun
    /\ SuccessesApart /\ RequestsCounted /\ RefusedReported /\ DoneMeansHandled /\ Counted

-----------------------------------------------------------------------------
(* Sequences as the channel and the batch use them.                           *)

\* What an empty sequence holds.
LEMMA ItemsEmpty == Items(<<>>) = {} /\ Distinct(<<>>)
  BY DEF Items, Distinct

\* What is sent to a channel is in it, behind the others.
LEMMA ItemsAppend ==
    ASSUME NEW S, NEW s \in Seq(S), NEW e \in S
    PROVE  /\ Items(Append(s, e)) = Items(s) \cup {e}
           /\ Distinct(s) /\ e \notin Items(s) => Distinct(Append(s, e))
<1>1. /\ DOMAIN Append(s, e) = 1..(Len(s) + 1) /\ DOMAIN s = 1..Len(s) /\ Len(s) \in Nat
      /\ Append(s, e)[Len(s) + 1] = e /\ \A n \in DOMAIN s : Append(s, e)[n] = s[n]
  OBVIOUS
<1>2. Items(Append(s, e)) = Items(s) \cup {e}
  <2>1. Items(Append(s, e)) \subseteq Items(s) \cup {e}
    BY <1>1, SMT DEF Items
  <2>2. Items(s) \cup {e} \subseteq Items(Append(s, e))
    BY <1>1, SMT DEF Items
  <2> QED  BY <2>1, <2>2
<1>3. ASSUME Distinct(s), e \notin Items(s)
      PROVE  Distinct(Append(s, e))
  BY <1>1, <1>3, SMT DEF Distinct, Items
<1> QED  BY <1>2, <1>3

\* What is taken from a channel is its head.
LEMMA ItemsTail ==
    ASSUME NEW S, NEW s \in Seq(S), s # <<>>
    PROVE  /\ Head(s) \in S /\ Tail(s) \in Seq(S) /\ Head(s) \in Items(s)
           /\ Items(Tail(s)) \subseteq Items(s) /\ Items(s) \subseteq Items(Tail(s)) \cup {Head(s)}
           /\ Distinct(s) => Distinct(Tail(s)) /\ Items(Tail(s)) = Items(s) \ {Head(s)}
<1>1. /\ Len(s) \in Nat \ {0} /\ DOMAIN s = 1..Len(s) /\ Head(s) = s[1]
      /\ Head(s) \in S /\ Tail(s) \in Seq(S) /\ DOMAIN Tail(s) = 1..(Len(s) - 1)
      /\ \A n \in DOMAIN Tail(s) : Tail(s)[n] = s[n + 1]
  OBVIOUS
<1>2. Head(s) \in Items(s) /\ Items(Tail(s)) \subseteq Items(s)
  BY <1>1, SMT DEF Items
<1>3. Items(s) \subseteq Items(Tail(s)) \cup {Head(s)}
  <2> SUFFICES ASSUME NEW n \in DOMAIN s, n # 1
               PROVE  s[n] \in Items(Tail(s))
    BY <1>1 DEF Items
  <2>1. n - 1 \in DOMAIN Tail(s) /\ Tail(s)[n - 1] = s[n]
    BY <1>1
  <2> QED  BY <2>1 DEF Items
<1>4. ASSUME Distinct(s)
      PROVE  Distinct(Tail(s)) /\ Head(s) \notin Items(Tail(s))
  BY <1>1, <1>4, SMT DEF Distinct, Items
<1> QED  BY <1>1, <1>2, <1>3, <1>4

-----------------------------------------------------------------------------
(* What an action does to each worker and job.                                *)

\* ClaimDue: the jobs of js get their next token, and the run has no others.
ClaimDueDoes(w) ==
    \E js \in SUBSET QueueJobs :
      /\ runOnce[w] = "idle" /\ \A j \in js : jobs[j].st = "due" /\ jobs[j].fence < MaxClaims
      /\ \A j \in QueueJobs \ js : jobs'[j].st = jobs[j].st /\ jobs'[j].fence = jobs[j].fence
      /\ \A j \in js : jobs'[j].st = "claimed" /\ jobs'[j].fence = jobs[j].fence + 1
      /\ \A j \in js : claims'[w][j] = jobs[j].fence + 1 /\ hs'[w][j] = "new"
      /\ \A j \in QueueJobs \ js : claims'[w][j] = 0 /\ hs'[w][j] = "none"
      /\ \A v \in Queuers \ {w} : claims'[v] = claims[v] /\ hs'[v] = hs[v]
      /\ \A v \in Queuers : runOnce'[v] = IF v = w THEN "running" ELSE runOnce[v]
      /\ \A v \in Queuers : counts'[v] = IF v = w THEN NoCounts ELSE counts[v]
      /\ UNCHANGED <<succeeded, batch, handled, requests, refused>>

\* That is the effect of ClaimDue.
LEMMA ClaimDueEffect ==
    ASSUME QueueTypeOK, NEW w \in Queuers, ClaimDue(w)
    PROVE  ClaimDueDoes(w)
<1>1. PICK js \in SUBSET QueueJobs :
        /\ \A j \in js : jobs[j].st = "due" /\ jobs[j].fence < MaxClaims
        /\ TakeDue(js)
        /\ claims' = [claims EXCEPT ![w] =
             [j \in QueueJobs |-> IF j \in js THEN jobs[j].fence + 1 ELSE 0]]
        /\ hs' = [hs EXCEPT ![w] = [j \in QueueJobs |-> IF j \in js THEN "new" ELSE "none"]]
  BY DEF ClaimDue, DueBatches
<1>2. /\ \A j \in QueueJobs \ js : jobs'[j].st = jobs[j].st /\ jobs'[j].fence = jobs[j].fence
      /\ \A j \in js : jobs'[j].st = "claimed" /\ jobs'[j].fence = jobs[j].fence + 1
  BY <1>1 DEF TakeDue
<1>3. /\ \A j \in js : claims'[w][j] = jobs[j].fence + 1 /\ hs'[w][j] = "new"
      /\ \A j \in QueueJobs \ js : claims'[w][j] = 0 /\ hs'[w][j] = "none"
      /\ \A v \in Queuers \ {w} : claims'[v] = claims[v] /\ hs'[v] = hs[v]
  BY <1>1 DEF QueueTypeOK
<1>4. /\ runOnce[w] = "idle" /\ UNCHANGED <<succeeded, batch, handled, requests, refused>>
      /\ \A v \in Queuers : runOnce'[v] = IF v = w THEN "running" ELSE runOnce[v]
      /\ \A v \in Queuers : counts'[v] = IF v = w THEN NoCounts ELSE counts[v]
  BY DEF QueueTypeOK, ClaimDue
<1> QED  BY <1>1, <1>2, <1>3, <1>4 DEF ClaimDueDoes

\* ClaimDue without an answer: the tokens of some jobs are spent.
ClaimDueFailsDoes(w) ==
    /\ runOnce[w] = "idle"
    /\ \A j \in QueueJobs :
         \/ jobs'[j].st = jobs[j].st /\ jobs'[j].fence = jobs[j].fence
         \/ jobs[j].st = "due" /\ jobs'[j].st = "claimed" /\ jobs'[j].fence = jobs[j].fence + 1
    /\ \A v \in Queuers : runOnce'[v] = IF v = w THEN "stopped" ELSE runOnce[v]
    /\ UNCHANGED <<claims, hs, succeeded, batch, counts, handled, requests, refused>>

\* That is the effect of ClaimDueFails.
LEMMA ClaimDueFailsEffect ==
    ASSUME QueueTypeOK, NEW w \in Queuers, ClaimDueFails(w)
    PROVE  ClaimDueFailsDoes(w)
  BY DEF ClaimDueFailsDoes, QueueTypeOK, ClaimDueFails, DueBatches, TakeDue

\* Collect: the head of the channel goes to the batch.
CollectDoes(w) ==
    \E c \in Items(succeeded[w]) :
      /\ runOnce[w] = "running"
      /\ Items(succeeded'[w]) = Items(succeeded[w]) \ {c} /\ Distinct(succeeded'[w])
      /\ Items(batch'[w]) = Items(batch[w]) \cup {c} /\ Distinct(batch'[w])
      /\ \A v \in Queuers \ {w} : succeeded'[v] = succeeded[v] /\ batch'[v] = batch[v]
      /\ UNCHANGED <<jobs, runOnce, claims, hs, counts, handled, requests, refused>>

\* That is the effect of Collect.
LEMMA CollectEffect ==
    ASSUME QueueTypeOK, SuccessesApart, NEW w \in Queuers, Collect(w)
    PROVE  CollectDoes(w)
<1>1. /\ succeeded[w] \in Seq(Claims) /\ batch[w] \in Seq(Claims) /\ succeeded[w] # <<>>
      /\ succeeded'[w] = Tail(succeeded[w]) /\ batch'[w] = Append(batch[w], Head(succeeded[w]))
      /\ runOnce[w] = "running"
      /\ \A v \in Queuers \ {w} : succeeded'[v] = succeeded[v] /\ batch'[v] = batch[v]
      /\ UNCHANGED <<jobs, runOnce, claims, hs, counts, handled, requests, refused>>
  BY DEF QueueTypeOK, Collect
<1>2. Distinct(succeeded[w]) /\ Distinct(batch[w]) /\ Items(succeeded[w]) \cap Items(batch[w]) = {}
  BY DEF SuccessesApart
<1>3. /\ Head(succeeded[w]) \in Items(succeeded[w]) /\ Head(succeeded[w]) \in Claims
      /\ Distinct(succeeded'[w]) /\ Items(succeeded'[w]) =
           Items(succeeded[w]) \ {Head(succeeded[w])}
  BY <1>1, <1>2, ItemsTail
<1>4. Head(succeeded[w]) \notin Items(batch[w])
  BY <1>2, <1>3
<1>5. Items(batch'[w]) = Items(batch[w]) \cup {Head(succeeded[w])} /\ Distinct(batch'[w])
  BY <1>1, <1>2, <1>3, <1>4, ItemsAppend
<1> QED  BY <1>1, <1>3, <1>5 DEF CollectDoes

\* SendBatch: one more request for each claim of the batch.
SendBatchDoes(w) ==
    /\ runOnce[w] = "running"
    /\ \A c \in Claims : requests'[c] = requests[c] + (IF c \in Items(batch[w]) THEN 1 ELSE 0)
    /\ \A v \in Queuers : runOnce'[v] = IF v = w THEN "completing" ELSE runOnce[v]
    /\ UNCHANGED <<jobs, claims, hs, succeeded, batch, counts, handled, refused>>

\* That is the effect of SendBatch.
LEMMA SendBatchEffect ==
    ASSUME QueueTypeOK, SuccessesApart, NEW w \in Queuers, SendBatch(w)
    PROVE  SendBatchDoes(w)
<1>1. ASSUME NEW c \in Claims
      PROVE  Cardinality({n \in DOMAIN batch[w] : batch[w][n] = c}) =
               IF c \in Items(batch[w]) THEN 1 ELSE 0
  <2>1. CASE c \in Items(batch[w])
    <3>1. PICK n \in DOMAIN batch[w] : batch[w][n] = c
      BY <2>1 DEF Items
    <3>2. {m \in DOMAIN batch[w] : batch[w][m] = c} = {n}
      BY <3>1 DEF SuccessesApart, Distinct
    <3> QED  BY <2>1, <3>2, FS_Singleton
  <2>2. CASE c \notin Items(batch[w])
    <3>1. {m \in DOMAIN batch[w] : batch[w][m] = c} = {}
      BY <2>2 DEF Items
    <3> QED  BY <2>2, <3>1, FS_EmptySet
  <2> QED  BY <2>1, <2>2
<1> QED  BY <1>1 DEF SendBatchDoes, QueueTypeOK, SendBatch

\* RefuseBatch: the batch is lost, and no claim of it is requested.
RefuseBatchDoes(w) ==
    /\ runOnce[w] = "running"
    /\ batch'[w] = <<>> /\ \A v \in Queuers \ {w} : batch'[v] = batch[v]
    /\ refused' = refused \cup Items(batch[w])
    /\ UNCHANGED <<jobs, runOnce, claims, hs, succeeded, counts, handled, requests>>

\* That is the effect of RefuseBatch.
LEMMA RefuseBatchEffect ==
    ASSUME QueueTypeOK, NEW w \in Queuers, RefuseBatch(w)
    PROVE  RefuseBatchDoes(w)
  BY DEF RefuseBatchDoes, QueueTypeOK, RefuseBatch

\* Complete: jobs of the batch whose claim is current are done, and counted when
\* all of them are.
CompleteCounts(w) ==
    \/ UNCHANGED counts
    \/ /\ \A c \in Items(batch[w]) : jobs[c[1]].st = "claimed" /\ jobs[c[1]].fence = c[2]
                                      /\ jobs'[c[1]].st = "done"
       /\ counts' = [counts EXCEPT ![w] = Counts(counts[w].completed + Len(batch[w]),
                                                    counts[w].retried, counts[w].failed)]
CompleteDoes(w) ==
    /\ runOnce[w] = "completing"
    /\ \A j \in QueueJobs :
         /\ jobs'[j].fence = jobs[j].fence
         /\ \/ jobs'[j].st = jobs[j].st
            \/ /\ jobs'[j].st = "done" /\ jobs[j].st = "claimed"
               /\ <<j, jobs[j].fence>> \in Items(batch[w])
    /\ batch'[w] = <<>> /\ \A v \in Queuers \ {w} : batch'[v] = batch[v]
    /\ \A v \in Queuers : runOnce'[v] = IF v = w THEN "running" ELSE runOnce[v]
    /\ UNCHANGED <<claims, hs, succeeded, handled, requests, refused>>
    /\ CompleteCounts(w)

\* That is the effect of Complete.
LEMMA CompleteEffect ==
    ASSUME QueueTypeOK, NEW w \in Queuers, Complete(w)
    PROVE  CompleteDoes(w)
<1> DEFINE sent == Items(batch[w])
<1>1. sent \subseteq Claims
  BY DEF QueueTypeOK, Items
<1>2. PICK some \in SUBSET sent :
        /\ \A c \in some : CurrentClaim(c)
        /\ jobs' = Become({c[1] : c \in some}, "done")
        /\ \/ UNCHANGED counts
           \/ /\ some = sent
              /\ counts' = [counts EXCEPT ![w] = Counts(counts[w].completed + Len(batch[w]),
                                                        counts[w].retried, counts[w].failed)]
  BY DEF Complete
<1>3. \A c \in some : c[1] \in QueueJobs /\ c = <<c[1], c[2]>> /\ jobs[c[1]].st = "claimed" /\
        jobs[c[1]].fence = c[2]
  BY <1>1, <1>2 DEF CurrentClaim, Claims
<1>4. \A j \in QueueJobs : \/ j \in {c[1] : c \in some} /\ jobs'[j] = [st |-> "done",
                                fence |-> jobs[j].fence]
                           \/ jobs'[j] = jobs[j]
  BY <1>2 DEF Become
<1>5. ASSUME NEW c \in some
      PROVE  jobs'[c[1]].st = "done"
  BY <1>2, <1>3, <1>5 DEF Become
<1>6. ASSUME NEW j \in QueueJobs
      PROVE  /\ jobs'[j].fence = jobs[j].fence
             /\ \/ jobs'[j].st = jobs[j].st
                \/ /\ jobs'[j].st = "done" /\ jobs[j].st = "claimed"
                   /\ <<j, jobs[j].fence>> \in sent
  <2>1. CASE j \in {c[1] : c \in some} /\ jobs'[j] = [st |-> "done", fence |-> jobs[j].fence]
    <3>1. PICK c \in some : j = c[1]
      BY <2>1
    <3> QED  BY <2>1, <3>1, <1>3, <1>2
  <2>2. CASE jobs'[j] = jobs[j]
    BY <2>2
  <2> QED  BY <1>4, <2>1, <2>2
<1>7. /\ runOnce[w] = "completing" /\ batch'[w] = <<>> /\ \A v \in Queuers \ {w} : batch'[v] =
           batch[v]
      /\ \A v \in Queuers : runOnce'[v] = IF v = w THEN "running" ELSE runOnce[v]
      /\ UNCHANGED <<claims, hs, succeeded, handled, requests, refused>>
  BY DEF QueueTypeOK, Complete
<1> QED  BY <1>2, <1>3, <1>5, <1>6, <1>7 DEF CompleteDoes, CompleteCounts

\* ReturnRun: the channel was closed and everything taken from it is completed.
ReturnRunDoes(w) ==
    /\ runOnce[w] = "running" /\ succeeded[w] = <<>> /\ batch[w] = <<>>
    /\ \A j \in QueueJobs : hs[w][j] \in {"none", "end"}
    /\ runOnce'[w] \in {"idle", "stopped"} /\ \A v \in Queuers \ {w} : runOnce'[v] = runOnce[v]
    /\ UNCHANGED <<jobs, claims, hs, succeeded, batch, counts, handled, requests, refused>>

\* That is the effect of ReturnRun.
LEMMA ReturnRunEffect ==
    ASSUME QueueTypeOK, NEW w \in Queuers, ReturnRun(w)
    PROVE  ReturnRunDoes(w)
  BY DEF ReturnRunDoes, QueueTypeOK, ReturnRun, Closed

\* A handler starts.
StartHandlerDoes(w, j) ==
    /\ hs[w][j] = "new" /\ runOnce[w] \in {"running", "completing"}
    /\ \A v \in Queuers, k \in QueueJobs : hs'[v][k] = IF v = w /\ k = j THEN "run" ELSE hs[v][k]
    /\ UNCHANGED <<jobs, runOnce, claims, succeeded, batch, counts, handled, requests, refused>>

\* That is the effect of StartHandler.
LEMMA StartHandlerEffect ==
    ASSUME QueueTypeOK, NEW w \in Queuers, NEW j \in QueueJobs, StartHandler(w, j)
    PROVE  StartHandlerDoes(w, j)
  BY DEF StartHandlerDoes, QueueTypeOK, StartHandler, Running

\* An error: the policy answers it, or the run records it.
HandlerFailsDoes(w, j) ==
    /\ hs[w][j] = "run" /\ hs'[w][j] \in {"end", "policy"}
    /\ \A v \in Queuers, k \in QueueJobs : v # w \/ k # j => hs'[v][k] = hs[v][k]
    /\ UNCHANGED <<jobs, runOnce, claims, succeeded, batch, counts, handled, requests, refused>>

\* That is the effect of HandlerFails.
LEMMA HandlerFailsEffect ==
    ASSUME QueueTypeOK, NEW w \in Queuers, NEW j \in QueueJobs, HandlerFails(w, j)
    PROVE  HandlerFailsDoes(w, j)
<1>1. \E x \in {"end", "policy"} : hs' = [hs EXCEPT ![w][j] = x]
  BY DEF HandlerFails
<1> QED  BY <1>1 DEF HandlerFailsDoes, QueueTypeOK, HandlerFails

\* A success: it is sent to the channel, where it was not yet.
HandlerSucceedsDoes(w, j) ==
    /\ hs[w][j] = "run" /\ ClaimOf(w, j) \in Claims /\ ClaimOf(w, j) \notin handled
    /\ claims[w][j] # 0
    /\ \A v \in Queuers, k \in QueueJobs : hs'[v][k] = IF v = w /\ k = j THEN "end" ELSE hs[v][k]
    /\ Items(succeeded'[w]) = Items(succeeded[w]) \cup {ClaimOf(w, j)}
    /\ Distinct(succeeded'[w]) /\ \A v \in Queuers \ {w} : succeeded'[v] = succeeded[v]
    /\ handled' = handled \cup {ClaimOf(w, j)}
    /\ UNCHANGED <<jobs, runOnce, claims, batch, counts, requests, refused>>

\* That is the effect of HandlerSucceeds.
LEMMA HandlerSucceedsEffect ==
    ASSUME QueueTypeOK, HandlersOfClaims, SuccessesApart, SuccessesOfRun,
           NEW w \in Queuers, NEW j \in QueueJobs, HandlerSucceeds(w, j)
    PROVE  HandlerSucceedsDoes(w, j)
<1>1. /\ hs[w][j] = "run" /\ succeeded' = [succeeded EXCEPT ![w] = Append(succeeded[w], ClaimOf(w,
           j))]
      /\ handled' = handled \cup {ClaimOf(w, j)} /\ UNCHANGED <<jobs, runOnce, claims, batch,
           counts, requests, refused>>
      /\ succeeded[w] \in Seq(Claims)
      /\ \A v \in Queuers, k \in QueueJobs : hs'[v][k] = IF v = w /\ k = j THEN "end" ELSE hs[v][k]
  BY DEF QueueTypeOK, HandlerSucceeds
<1>2. claims[w][j] # 0 /\ ClaimOf(w, j) \notin handled /\ claims[w][j] \in 0..MaxClaims
  BY <1>1 DEF QueueTypeOK, HandlersOfClaims
<1>3. ClaimOf(w, j) \in Claims
  BY <1>2, QueueConstants DEF ClaimOf, Claims
<1>4. ClaimOf(w, j) \notin Items(succeeded[w]) /\ Distinct(succeeded[w])
  BY <1>2 DEF SuccessesOfRun, SuccessesApart
<1>5. Append(succeeded[w], ClaimOf(w, j)) \in Seq(Claims)
  BY <1>1, <1>3
<1>6. /\ Items(Append(succeeded[w], ClaimOf(w, j))) = Items(succeeded[w]) \cup {ClaimOf(w, j)}
      /\ Distinct(Append(succeeded[w], ClaimOf(w, j)))
  BY <1>1, <1>3, <1>4, ItemsAppend
<1>7. /\ succeeded'[w] = Append(succeeded[w], ClaimOf(w, j))
      /\ \A v \in Queuers \ {w} : succeeded'[v] = succeeded[v]
      /\ succeeded' \in [Queuers -> Seq(Claims)]
  BY <1>1, <1>5 DEF QueueTypeOK
<1> QED  BY <1>1, <1>2, <1>3, <1>6, <1>7 DEF HandlerSucceedsDoes

\* Retry or Fail: the job is due or failed, if its claim is current.
ApplyPolicyCounts(w) ==
    /\ \A v \in Queuers \ {w} : counts'[v] = counts[v]
    /\ counts'[w].completed = counts[w].completed
    /\ counts'[w].retried + counts'[w].failed <= counts[w].retried + counts[w].failed + 1
    /\ counts' \in [Queuers -> [completed : Nat, retried : Nat, failed : Nat]]
ApplyPolicyDoes(w, j) ==
    /\ hs[w][j] = "policy"
    /\ \A v \in Queuers, k \in QueueJobs : hs'[v][k] = IF v = w /\ k = j THEN "end" ELSE hs[v][k]
    /\ \A k \in QueueJobs :
         /\ jobs'[k].fence = jobs[k].fence
         /\ \/ jobs'[k].st = jobs[k].st
            \/ jobs[k].st = "claimed" /\ jobs'[k].st \in {"due", "failed"}
    /\ ApplyPolicyCounts(w)
    /\ UNCHANGED <<runOnce, claims, succeeded, batch, handled, requests, refused>>

\* That is the effect of ApplyPolicy.
LEMMA ApplyPolicyEffect ==
    ASSUME QueueTypeOK, NEW w \in Queuers, NEW j \in QueueJobs, ApplyPolicy(w, j)
    PROVE  ApplyPolicyDoes(w, j)
<1>1. /\ hs[w][j] = "policy" /\ hs' = [hs EXCEPT ![w][j] = "end"]
      /\ UNCHANGED <<runOnce, claims, succeeded, batch, handled, requests, refused>>
  BY DEF ApplyPolicy
<1>2. \A v \in Queuers, k \in QueueJobs : hs'[v][k] = IF v = w /\ k = j THEN "end" ELSE hs[v][k]
  BY <1>1 DEF QueueTypeOK
<1>3. \/ jobs' = jobs
      \/ \E to \in {"due", "failed"} : CurrentClaim(ClaimOf(w, j)) /\ jobs' = Become({j}, to)
  BY DEF ApplyPolicy
<1>4. ASSUME NEW k \in QueueJobs
      PROVE  /\ jobs'[k].fence = jobs[k].fence
             /\ \/ jobs'[k].st = jobs[k].st
                \/ jobs[k].st = "claimed" /\ jobs'[k].st \in {"due", "failed"}
  BY <1>3 DEF Become, CurrentClaim, ClaimOf
<1>5. \/ UNCHANGED counts
      \/ \E n \in [completed : Nat, retried : Nat, failed : Nat] :
           /\ counts' = [counts EXCEPT ![w] = n] /\ n.completed = counts[w].completed
           /\ n.retried + n.failed = counts[w].retried + counts[w].failed + 1
  <2>1. counts[w] \in [completed : Nat, retried : Nat, failed : Nat]
    BY DEF QueueTypeOK
  <2> DEFINE a == Counts(counts[w].completed, counts[w].retried + 1, counts[w].failed)
             b == Counts(counts[w].completed, counts[w].retried, counts[w].failed + 1)
  <2>2. UNCHANGED counts \/ counts' = [counts EXCEPT ![w] = a] \/ counts' = [counts EXCEPT ![w] = b]
    BY DEF ApplyPolicy
  <2>3. /\ a \in [completed : Nat, retried : Nat, failed : Nat] /\ a.completed = counts[w].completed
        /\ a.retried + a.failed = counts[w].retried + counts[w].failed + 1
    BY <2>1 DEF Counts
  <2>4. /\ b \in [completed : Nat, retried : Nat, failed : Nat] /\ b.completed = counts[w].completed
        /\ b.retried + b.failed = counts[w].retried + counts[w].failed + 1
    BY <2>1 DEF Counts
  <2> HIDE DEF a, b
  <2> QED  BY <2>2, <2>3, <2>4
<1>6. /\ \A v \in Queuers \ {w} : counts'[v] = counts[v]
      /\ counts'[w].completed = counts[w].completed
      /\ counts'[w].retried + counts'[w].failed <= counts[w].retried + counts[w].failed + 1
      /\ counts' \in [Queuers -> [completed : Nat, retried : Nat, failed : Nat]]
  <2>1. counts \in [Queuers -> [completed : Nat, retried : Nat, failed : Nat]]
    BY DEF QueueTypeOK
  <2>2. CASE UNCHANGED counts
    BY <2>1, <2>2
  <2>3. ASSUME NEW n \in [completed : Nat, retried : Nat, failed : Nat],
               counts' = [counts EXCEPT ![w] = n], n.completed = counts[w].completed,
               n.retried + n.failed = counts[w].retried + counts[w].failed + 1
        PROVE  <1>6!:
    BY <2>1, <2>3
  <2> QED  BY <1>5, <2>2, <2>3
<1> QED  BY <1>1, <1>2, <1>4, <1>6 DEF ApplyPolicyDoes, ApplyPolicyCounts

\* A lease runs out.
LeaseExpiresDoes(j) ==
    /\ jobs[j].st = "claimed"
    /\ \A k \in QueueJobs : /\ jobs'[k].fence = jobs[k].fence
                            /\ jobs'[k].st = IF k = j THEN "due" ELSE jobs[k].st
    /\ UNCHANGED <<runOnce, claims, hs, succeeded, batch, counts, handled, requests, refused>>

\* That is the effect of LeaseExpires.
LEMMA LeaseExpiresEffect ==
    ASSUME QueueTypeOK, NEW j \in QueueJobs, LeaseExpires(j)
    PROVE  LeaseExpiresDoes(j)
  BY DEF LeaseExpiresDoes, QueueTypeOK, LeaseExpires, Become

\* A worker that is idle and whose context has ended stops.
LoopEndsDoes(w) ==
    /\ runOnce[w] = "idle"
    /\ \A v \in Queuers : runOnce'[v] = IF v = w THEN "stopped" ELSE runOnce[v]
    /\ UNCHANGED <<jobs, claims, hs, succeeded, batch, counts, handled, requests, refused>>

\* That is the effect of LoopEnds.
LEMMA LoopEndsEffect ==
    ASSUME QueueTypeOK, NEW w \in Queuers, LoopEnds(w)
    PROVE  LoopEndsDoes(w)
  BY DEF LoopEndsDoes, QueueTypeOK, LoopEnds

\* Stop changes none of what the invariant is about, and no more does stuttering.
QuietStep ==
    UNCHANGED <<jobs, runOnce, claims, hs, succeeded, batch, counts, handled, requests, refused>>

\* What a step does.
QueueEffect ==
    \/ \E j \in QueueJobs : LeaseExpiresDoes(j)
    \/ \E w \in Queuers : \/ ClaimDueDoes(w) \/ ClaimDueFailsDoes(w) \/ CollectDoes(w) \/
                               SendBatchDoes(w)
                          \/ RefuseBatchDoes(w) \/ CompleteDoes(w) \/ ReturnRunDoes(w)
                          \/ LoopEndsDoes(w)
    \/ \E w \in Queuers, j \in QueueJobs :
         \/ StartHandlerDoes(w, j) \/ HandlerSucceedsDoes(w, j) \/ HandlerFailsDoes(w, j)
         \/ ApplyPolicyDoes(w, j)
    \/ QuietStep

\* Every step does one of these.
LEMMA NextEffect ==
    ASSUME QueueTypeOK, HandlersOfClaims, SuccessesOfRun, SuccessesApart, [QueueNext]_queueVars
    PROVE  QueueEffect
<1>1. ASSUME NEW j \in QueueJobs, LeaseExpires(j)
      PROVE  QueueEffect
  BY <1>1, LeaseExpiresEffect DEF QueueEffect
<1>2. ASSUME NEW w \in Queuers, ClaimDue(w)
      PROVE  QueueEffect
  BY <1>2, ClaimDueEffect DEF QueueEffect
<1>3. ASSUME NEW w \in Queuers, ClaimDueFails(w)
      PROVE  QueueEffect
  BY <1>3, ClaimDueFailsEffect DEF QueueEffect
<1>4. ASSUME NEW w \in Queuers, Collect(w)
      PROVE  QueueEffect
  BY <1>4, CollectEffect DEF QueueEffect
<1>5. ASSUME NEW w \in Queuers, SendBatch(w)
      PROVE  QueueEffect
  BY <1>5, SendBatchEffect DEF QueueEffect
<1>6. ASSUME NEW w \in Queuers, Complete(w)
      PROVE  QueueEffect
  BY <1>6, CompleteEffect DEF QueueEffect
<1>7. ASSUME NEW w \in Queuers, ReturnRun(w)
      PROVE  QueueEffect
  BY <1>7, ReturnRunEffect DEF QueueEffect
<1>8. ASSUME NEW w \in Queuers, LoopEnds(w)
      PROVE  QueueEffect
  BY <1>8, LoopEndsEffect DEF QueueEffect
<1>9. ASSUME NEW w \in Queuers, NEW j \in QueueJobs, StartHandler(w, j)
      PROVE  QueueEffect
  BY <1>9, StartHandlerEffect DEF QueueEffect
<1>10. ASSUME NEW w \in Queuers, NEW j \in QueueJobs, HandlerSucceeds(w, j)
      PROVE  QueueEffect
  BY <1>10, HandlerSucceedsEffect DEF QueueEffect
<1>11. ASSUME NEW w \in Queuers, NEW j \in QueueJobs, HandlerFails(w, j)
      PROVE  QueueEffect
  BY <1>11, HandlerFailsEffect DEF QueueEffect
<1>12. ASSUME NEW w \in Queuers, NEW j \in QueueJobs, ApplyPolicy(w, j)
      PROVE  QueueEffect
  BY <1>12, ApplyPolicyEffect DEF QueueEffect
<1>13. ASSUME (\E w \in Queuers : StopQueue(w)) \/ UNCHANGED queueVars
       PROVE  QueueEffect
  BY <1>13 DEF StopQueue, queueVars, QuietStep, QueueEffect
<1>14. ASSUME NEW w \in Queuers, RefuseBatch(w)
       PROVE  QueueEffect
  BY <1>14, RefuseBatchEffect DEF QueueEffect
<1> QED  BY <1>1, <1>2, <1>3, <1>4, <1>5, <1>6, <1>7, <1>8, <1>9, <1>10, <1>11, <1>12, <1>13,
              <1>14 DEF QueueNext, QueueStep

-----------------------------------------------------------------------------
(* One lemma for each part of the invariant.                                  *)

\* The facts about types that the steps below use.
LEMMA QueueFacts ==
    ASSUME QueueTypeOK
    PROVE  /\ \A j \in QueueJobs : jobs[j].fence \in Nat /\ jobs[j].fence <= MaxClaims
           /\ \A w \in Queuers, j \in QueueJobs : claims[w][j] \in Nat /\ claims[w][j] <= MaxClaims
           /\ \A w \in Queuers, j \in QueueJobs : claims[w][j] # 0 => ClaimOf(w, j) \in Claims
           /\ \A c \in Claims : c[1] \in QueueJobs /\ c[2] \in 1..MaxClaims /\ c = <<c[1], c[2]>>
           /\ \A c \in Claims : requests[c] \in Nat
           /\ handled \subseteq Claims
  BY QueueConstants DEF QueueTypeOK, Claims, ClaimOf

\* Tokens grow, and a new one has never been used.
LEMMA TokensStep ==
    ASSUME QueueTypeOK, TokensIssued, ClaimsApart, HandlersOfClaims, SuccessesOfRun,
             SuccessesApart, QueueEffect
    PROVE  TokensIssued'
<1> USE QueueConstants, QueueFacts, ItemsEmpty
<1>1. ASSUME NEW j \in QueueJobs, LeaseExpiresDoes(j)
      PROVE  TokensIssued'
  BY <1>1 DEF LeaseExpiresDoes, Claims, TokensIssued, ClaimOf
<1>2. ASSUME NEW w \in Queuers, ClaimDueDoes(w)
      PROVE  TokensIssued'
  BY <1>2 DEF ClaimDueDoes, Claims, TokensIssued, ClaimOf
<1>3. ASSUME NEW w \in Queuers, ClaimDueFailsDoes(w)
      PROVE  TokensIssued'
  BY <1>3 DEF ClaimDueFailsDoes, Claims, TokensIssued, ClaimOf
<1>4. ASSUME NEW w \in Queuers, CollectDoes(w)
      PROVE  TokensIssued'
  BY <1>4 DEF CollectDoes, Claims, TokensIssued, ClaimOf
<1>5. ASSUME NEW w \in Queuers, SendBatchDoes(w)
      PROVE  TokensIssued'
  <2>1. Items(batch[w]) \subseteq handled
    BY DEF SuccessesOfRun
  <2> QED  BY <1>5, <2>1 DEF SendBatchDoes, Claims, TokensIssued
<1>6. ASSUME NEW w \in Queuers, CompleteDoes(w)
      PROVE  TokensIssued'
  <2>1. (\A k \in QueueJobs : jobs'[k].fence = jobs[k].fence) /\ UNCHANGED <<claims, handled,
          requests>>
    BY <1>6 DEF CompleteDoes
  <2> QED  BY <2>1 DEF TokensIssued
<1>7. ASSUME NEW w \in Queuers, ReturnRunDoes(w)
      PROVE  TokensIssued'
  BY <1>7 DEF ReturnRunDoes, Claims, TokensIssued, ClaimOf
<1>8. ASSUME NEW w \in Queuers, LoopEndsDoes(w)
      PROVE  TokensIssued'
  BY <1>8 DEF LoopEndsDoes, Claims, TokensIssued, ClaimOf
<1>9. ASSUME NEW w \in Queuers, NEW j \in QueueJobs, StartHandlerDoes(w, j)
      PROVE  TokensIssued'
  BY <1>9 DEF StartHandlerDoes, Claims, TokensIssued, ClaimOf
<1>10. ASSUME NEW w \in Queuers, NEW j \in QueueJobs, HandlerSucceedsDoes(w, j)
      PROVE  TokensIssued'
  BY <1>10 DEF HandlerSucceedsDoes, Claims, TokensIssued, ClaimOf
<1>11. ASSUME NEW w \in Queuers, NEW j \in QueueJobs, HandlerFailsDoes(w, j)
      PROVE  TokensIssued'
  BY <1>11 DEF HandlerFailsDoes, Claims, TokensIssued, ClaimOf
<1>12. ASSUME NEW w \in Queuers, NEW j \in QueueJobs, ApplyPolicyDoes(w, j)
      PROVE  TokensIssued'
  BY <1>12 DEF ApplyPolicyDoes, Claims, TokensIssued, ClaimOf
<1>13. CASE QuietStep
  BY <1>13 DEF QuietStep, Claims, TokensIssued, ClaimOf
<1>14. ASSUME NEW w \in Queuers, RefuseBatchDoes(w)
       PROVE  TokensIssued'
  BY <1>14 DEF RefuseBatchDoes, Claims, TokensIssued, ClaimOf
<1> QED  BY <1>1, <1>2, <1>3, <1>4, <1>5, <1>6, <1>7, <1>8, <1>9, <1>10, <1>11, <1>12, <1>13,
              <1>14 DEF QueueEffect

\* A new claim is nobody else's.
LEMMA ClaimsApartStep ==
    ASSUME QueueTypeOK, TokensIssued, ClaimsApart, HandlersOfClaims, SuccessesOfRun,
             SuccessesApart, QueueEffect
    PROVE  ClaimsApart'
<1> USE QueueConstants, QueueFacts, ItemsEmpty
<1>1. ASSUME NEW j \in QueueJobs, LeaseExpiresDoes(j)
      PROVE  ClaimsApart'
  BY <1>1 DEF LeaseExpiresDoes, ClaimsApart, TokensIssued
<1>2. ASSUME NEW w \in Queuers, ClaimDueDoes(w)
      PROVE  ClaimsApart'
  <2>1. PICK js \in SUBSET QueueJobs : ClaimDueDoes(w)!(js)
    BY <1>2 DEF ClaimDueDoes
  <2>2. \A k \in QueueJobs : claims'[w][k] = 0 \/ claims'[w][k] = jobs[k].fence + 1
    BY <2>1
  <2>3. \A v \in Queuers \ {w} : claims'[v] = claims[v]
    BY <2>1
  <2>4. \A v \in Queuers, k \in QueueJobs : claims[v][k] <= jobs[k].fence
    BY DEF TokensIssued
  <2>5. ASSUME NEW v \in Queuers \ {w}, NEW k \in QueueJobs, claims'[v][k] = claims'[w][k]
        PROVE  claims'[v][k] = 0
    BY <2>2, <2>3, <2>4, <2>5
  <2>6. ASSUME NEW u \in Queuers \ {w}, NEW v \in Queuers \ {w}, NEW k \in QueueJobs,
               claims'[u][k] = claims'[v][k], claims'[u][k] # 0
        PROVE  u = v
    BY <2>3, <2>6 DEF ClaimsApart
  <2> HIDE QueueFacts
  <2> QED  BY <2>5, <2>6 DEF ClaimsApart
<1>3. ASSUME NEW w \in Queuers, ClaimDueFailsDoes(w)
      PROVE  ClaimsApart'
  BY <1>3 DEF ClaimDueFailsDoes, ClaimsApart, TokensIssued
<1>4. ASSUME NEW w \in Queuers, CollectDoes(w)
      PROVE  ClaimsApart'
  BY <1>4 DEF CollectDoes, ClaimsApart, TokensIssued
<1>5. ASSUME NEW w \in Queuers, SendBatchDoes(w)
      PROVE  ClaimsApart'
  BY <1>5 DEF SendBatchDoes, ClaimsApart, TokensIssued
<1>6. ASSUME NEW w \in Queuers, CompleteDoes(w)
      PROVE  ClaimsApart'
  BY <1>6 DEF CompleteDoes, ClaimsApart, TokensIssued
<1>7. ASSUME NEW w \in Queuers, ReturnRunDoes(w)
      PROVE  ClaimsApart'
  BY <1>7 DEF ReturnRunDoes, ClaimsApart, TokensIssued
<1>8. ASSUME NEW w \in Queuers, LoopEndsDoes(w)
      PROVE  ClaimsApart'
  BY <1>8 DEF LoopEndsDoes, ClaimsApart, TokensIssued
<1>9. ASSUME NEW w \in Queuers, NEW j \in QueueJobs, StartHandlerDoes(w, j)
      PROVE  ClaimsApart'
  BY <1>9 DEF StartHandlerDoes, ClaimsApart, TokensIssued
<1>10. ASSUME NEW w \in Queuers, NEW j \in QueueJobs, HandlerSucceedsDoes(w, j)
      PROVE  ClaimsApart'
  BY <1>10 DEF HandlerSucceedsDoes, ClaimsApart, TokensIssued
<1>11. ASSUME NEW w \in Queuers, NEW j \in QueueJobs, HandlerFailsDoes(w, j)
      PROVE  ClaimsApart'
  BY <1>11 DEF HandlerFailsDoes, ClaimsApart, TokensIssued
<1>12. ASSUME NEW w \in Queuers, NEW j \in QueueJobs, ApplyPolicyDoes(w, j)
      PROVE  ClaimsApart'
  BY <1>12 DEF ApplyPolicyDoes, ClaimsApart, TokensIssued
<1>13. CASE QuietStep
  BY <1>13 DEF QuietStep, ClaimsApart, TokensIssued
<1>14. ASSUME NEW w \in Queuers, RefuseBatchDoes(w)
       PROVE  ClaimsApart'
  BY <1>14 DEF RefuseBatchDoes, ClaimsApart, TokensIssued
<1> QED  BY <1>1, <1>2, <1>3, <1>4, <1>5, <1>6, <1>7, <1>8, <1>9, <1>10, <1>11, <1>12, <1>13,
              <1>14 DEF QueueEffect

\* A handler belongs to a claim.
LEMMA HandlersStep ==
    ASSUME QueueTypeOK, TokensIssued, ClaimsApart, HandlersOfClaims, SuccessesOfRun,
             SuccessesApart, QueueEffect
    PROVE  HandlersOfClaims'
<1> USE QueueConstants, QueueFacts, ItemsEmpty
<1>1. ASSUME NEW j \in QueueJobs, LeaseExpiresDoes(j)
      PROVE  HandlersOfClaims'
  BY <1>1 DEF LeaseExpiresDoes, Claims, HandlersOfClaims, ClaimOf, ClaimsApart, TokensIssued
<1>2. ASSUME NEW w \in Queuers, ClaimDueDoes(w)
      PROVE  HandlersOfClaims'
  BY <1>2, SMTT(30) DEF ClaimDueDoes, Claims, HandlersOfClaims, ClaimOf, ClaimsApart, TokensIssued
<1>3. ASSUME NEW w \in Queuers, ClaimDueFailsDoes(w)
      PROVE  HandlersOfClaims'
  BY <1>3 DEF ClaimDueFailsDoes, Claims, HandlersOfClaims, ClaimOf, ClaimsApart, TokensIssued
<1>4. ASSUME NEW w \in Queuers, CollectDoes(w)
      PROVE  HandlersOfClaims'
  BY <1>4 DEF CollectDoes, Claims, HandlersOfClaims, ClaimOf, ClaimsApart, TokensIssued
<1>5. ASSUME NEW w \in Queuers, SendBatchDoes(w)
      PROVE  HandlersOfClaims'
  BY <1>5 DEF SendBatchDoes, Claims, HandlersOfClaims, ClaimOf, ClaimsApart, TokensIssued
<1>6. ASSUME NEW w \in Queuers, CompleteDoes(w)
      PROVE  HandlersOfClaims'
  BY <1>6 DEF CompleteDoes, Claims, HandlersOfClaims, ClaimOf, ClaimsApart, TokensIssued
<1>7. ASSUME NEW w \in Queuers, ReturnRunDoes(w)
      PROVE  HandlersOfClaims'
  BY <1>7 DEF ReturnRunDoes, Claims, HandlersOfClaims, ClaimOf, ClaimsApart, TokensIssued
<1>8. ASSUME NEW w \in Queuers, LoopEndsDoes(w)
      PROVE  HandlersOfClaims'
  BY <1>8 DEF LoopEndsDoes, Claims, HandlersOfClaims, ClaimOf, ClaimsApart, TokensIssued
<1>9. ASSUME NEW w \in Queuers, NEW j \in QueueJobs, StartHandlerDoes(w, j)
      PROVE  HandlersOfClaims'
  BY <1>9 DEF StartHandlerDoes, Claims, HandlersOfClaims, ClaimOf, ClaimsApart, TokensIssued
<1>10. ASSUME NEW w \in Queuers, NEW j \in QueueJobs, HandlerSucceedsDoes(w, j)
      PROVE  HandlersOfClaims'
  <2> SUFFICES ASSUME NEW v \in Queuers, NEW k \in QueueJobs
               PROVE  /\ hs'[v][k] = "none" <=> claims[v][k] = 0
                      /\ claims[v][k] # 0 /\ ClaimOf(v, k) \in handled' => hs'[v][k] = "end"
    BY <1>10 DEF HandlerSucceedsDoes, HandlersOfClaims, ClaimOf
  <2>1. claims[v][k] # 0 /\ ClaimOf(v, k) = ClaimOf(w, j) => v = w /\ k = j
    BY DEF ClaimOf, ClaimsApart
  <2>2. CASE v = w /\ k = j
    BY <1>10, <2>2 DEF HandlerSucceedsDoes
  <2>3. CASE v # w \/ k # j
    <3>1. hs'[v][k] = hs[v][k] /\ (claims[v][k] # 0 /\ ClaimOf(v, k) \in handled' => ClaimOf(v,
            k) \in handled)
      BY <1>10, <2>1, <2>3 DEF HandlerSucceedsDoes
    <3> QED  BY <3>1 DEF HandlersOfClaims
  <2> QED  BY <2>2, <2>3
<1>11. ASSUME NEW w \in Queuers, NEW j \in QueueJobs, HandlerFailsDoes(w, j)
      PROVE  HandlersOfClaims'
  BY <1>11 DEF HandlerFailsDoes, Claims, HandlersOfClaims, ClaimOf, ClaimsApart, TokensIssued
<1>12. ASSUME NEW w \in Queuers, NEW j \in QueueJobs, ApplyPolicyDoes(w, j)
      PROVE  HandlersOfClaims'
  BY <1>12 DEF ApplyPolicyDoes, Claims, HandlersOfClaims, ClaimOf, ClaimsApart, TokensIssued
<1>13. CASE QuietStep
  BY <1>13 DEF QuietStep, Claims, HandlersOfClaims, ClaimOf, ClaimsApart, TokensIssued
<1>14. ASSUME NEW w \in Queuers, RefuseBatchDoes(w)
       PROVE  HandlersOfClaims'
  BY <1>14 DEF RefuseBatchDoes, Claims, HandlersOfClaims, ClaimOf, ClaimsApart, TokensIssued
<1> QED  BY <1>1, <1>2, <1>3, <1>4, <1>5, <1>6, <1>7, <1>8, <1>9, <1>10, <1>11, <1>12, <1>13,
              <1>14 DEF QueueEffect

\* The channel and the batch hold successes of the run.
LEMMA OfRunStep ==
    ASSUME QueueTypeOK, TokensIssued, ClaimsApart, HandlersOfClaims, SuccessesOfRun,
             SuccessesApart, QueueEffect
    PROVE  SuccessesOfRun'
<1> USE QueueConstants, QueueFacts, ItemsEmpty
<1>1. ASSUME NEW j \in QueueJobs, LeaseExpiresDoes(j)
      PROVE  SuccessesOfRun'
  BY <1>1 DEF LeaseExpiresDoes, ClaimOf, SuccessesOfRun
<1>2. ASSUME NEW w \in Queuers, ClaimDueDoes(w)
      PROVE  SuccessesOfRun'
  BY <1>2 DEF ClaimDueDoes, ClaimOf, SuccessesOfRun
<1>3. ASSUME NEW w \in Queuers, ClaimDueFailsDoes(w)
      PROVE  SuccessesOfRun'
  BY <1>3 DEF ClaimDueFailsDoes, ClaimOf, SuccessesOfRun
<1>4. ASSUME NEW w \in Queuers, CollectDoes(w)
      PROVE  SuccessesOfRun'
  BY <1>4 DEF CollectDoes, ClaimOf, SuccessesOfRun
<1>5. ASSUME NEW w \in Queuers, SendBatchDoes(w)
      PROVE  SuccessesOfRun'
  BY <1>5 DEF SendBatchDoes, ClaimOf, SuccessesOfRun
<1>6. ASSUME NEW w \in Queuers, CompleteDoes(w)
      PROVE  SuccessesOfRun'
  BY <1>6 DEF CompleteDoes, ClaimOf, SuccessesOfRun
<1>7. ASSUME NEW w \in Queuers, ReturnRunDoes(w)
      PROVE  SuccessesOfRun'
  BY <1>7 DEF ReturnRunDoes, ClaimOf, SuccessesOfRun
<1>8. ASSUME NEW w \in Queuers, LoopEndsDoes(w)
      PROVE  SuccessesOfRun'
  BY <1>8 DEF LoopEndsDoes, ClaimOf, SuccessesOfRun
<1>9. ASSUME NEW w \in Queuers, NEW j \in QueueJobs, StartHandlerDoes(w, j)
      PROVE  SuccessesOfRun'
  BY <1>9 DEF StartHandlerDoes, ClaimOf, SuccessesOfRun
<1>10. ASSUME NEW w \in Queuers, NEW j \in QueueJobs, HandlerSucceedsDoes(w, j)
      PROVE  SuccessesOfRun'
  <2> SUFFICES ASSUME NEW v \in Queuers
               PROVE  /\ \A c \in Items(succeeded'[v]) \cup Items(batch[v]) : c \in handled' /\
                           c[2] = claims[v][c[1]]
                      /\ runOnce[v] \in {"idle", "stopped"} =>
                           succeeded'[v] = <<>> /\ batch[v] = <<>> /\ \A k \in QueueJobs :
                             hs'[v][k] \in {"none", "end"}
    BY <1>10 DEF HandlerSucceedsDoes, SuccessesOfRun
  <2>1. CASE v # w
    <3>1. /\ succeeded'[v] = succeeded[v] /\ handled \subseteq handled'
          /\ \A k \in QueueJobs : hs'[v][k] = hs[v][k]
      BY <1>10, <2>1 DEF HandlerSucceedsDoes
    <3> QED  BY <3>1 DEF SuccessesOfRun
  <2>2. CASE v = w
    <3>1. runOnce[w] \notin {"idle", "stopped"}
      BY <1>10 DEF HandlerSucceedsDoes, SuccessesOfRun
    <3>2. ClaimOf(w, j)[2] = claims[w][ClaimOf(w, j)[1]]
      BY DEF ClaimOf
    <3> QED  BY <1>10, <2>2, <3>1, <3>2 DEF HandlerSucceedsDoes, SuccessesOfRun
  <2> QED  BY <2>1, <2>2
<1>11. ASSUME NEW w \in Queuers, NEW j \in QueueJobs, HandlerFailsDoes(w, j)
      PROVE  SuccessesOfRun'
  BY <1>11 DEF HandlerFailsDoes, ClaimOf, SuccessesOfRun
<1>12. ASSUME NEW w \in Queuers, NEW j \in QueueJobs, ApplyPolicyDoes(w, j)
      PROVE  SuccessesOfRun'
  BY <1>12 DEF ApplyPolicyDoes, ClaimOf, SuccessesOfRun
<1>13. CASE QuietStep
  BY <1>13 DEF QuietStep, ClaimOf, SuccessesOfRun
<1>14. ASSUME NEW w \in Queuers, RefuseBatchDoes(w)
       PROVE  SuccessesOfRun'
  BY <1>14 DEF RefuseBatchDoes, ClaimOf, SuccessesOfRun
<1> QED  BY <1>1, <1>2, <1>3, <1>4, <1>5, <1>6, <1>7, <1>8, <1>9, <1>10, <1>11, <1>12, <1>13,
              <1>14 DEF QueueEffect

\* Each success is in one place.
LEMMA SuccessesApartStep ==
    ASSUME QueueTypeOK, TokensIssued, ClaimsApart, HandlersOfClaims, SuccessesOfRun,
             SuccessesApart, QueueEffect
    PROVE  SuccessesApart'
<1> USE QueueConstants, QueueFacts, ItemsEmpty
<1>1. ASSUME NEW j \in QueueJobs, LeaseExpiresDoes(j)
      PROVE  SuccessesApart'
  BY <1>1 DEF LeaseExpiresDoes, SuccessesOfRun, SuccessesApart
<1>2. ASSUME NEW w \in Queuers, ClaimDueDoes(w)
      PROVE  SuccessesApart'
  BY <1>2 DEF ClaimDueDoes, SuccessesOfRun, SuccessesApart
<1>3. ASSUME NEW w \in Queuers, ClaimDueFailsDoes(w)
      PROVE  SuccessesApart'
  BY <1>3 DEF ClaimDueFailsDoes, SuccessesOfRun, SuccessesApart
<1>4. ASSUME NEW w \in Queuers, CollectDoes(w)
      PROVE  SuccessesApart'
  BY <1>4 DEF CollectDoes, SuccessesOfRun, SuccessesApart
<1>5. ASSUME NEW w \in Queuers, SendBatchDoes(w)
      PROVE  SuccessesApart'
  BY <1>5 DEF SendBatchDoes, SuccessesOfRun, SuccessesApart
<1>6. ASSUME NEW w \in Queuers, CompleteDoes(w)
      PROVE  SuccessesApart'
  <2>1. batch'[w] = <<>> /\ succeeded' = succeeded /\ \A v \in Queuers \ {w} : batch'[v] = batch[v]
    BY <1>6 DEF CompleteDoes
  <2> QED  BY <2>1 DEF SuccessesApart
<1>7. ASSUME NEW w \in Queuers, ReturnRunDoes(w)
      PROVE  SuccessesApart'
  BY <1>7 DEF ReturnRunDoes, SuccessesOfRun, SuccessesApart
<1>8. ASSUME NEW w \in Queuers, LoopEndsDoes(w)
      PROVE  SuccessesApart'
  BY <1>8 DEF LoopEndsDoes, SuccessesOfRun, SuccessesApart
<1>9. ASSUME NEW w \in Queuers, NEW j \in QueueJobs, StartHandlerDoes(w, j)
      PROVE  SuccessesApart'
  BY <1>9 DEF StartHandlerDoes, SuccessesOfRun, SuccessesApart
<1>10. ASSUME NEW w \in Queuers, NEW j \in QueueJobs, HandlerSucceedsDoes(w, j)
      PROVE  SuccessesApart'
  <2>1. ClaimOf(w, j) \notin Items(batch[w])
    BY <1>10 DEF HandlerSucceedsDoes, SuccessesOfRun
  <2>2. /\ Items(succeeded'[w]) = Items(succeeded[w]) \cup {ClaimOf(w, j)} /\
             Distinct(succeeded'[w])
        /\ batch' = batch /\ \A v \in Queuers \ {w} : succeeded'[v] = succeeded[v]
    BY <1>10 DEF HandlerSucceedsDoes
  <2> QED  BY <2>1, <2>2 DEF SuccessesApart
<1>11. ASSUME NEW w \in Queuers, NEW j \in QueueJobs, HandlerFailsDoes(w, j)
      PROVE  SuccessesApart'
  BY <1>11 DEF HandlerFailsDoes, SuccessesOfRun, SuccessesApart
<1>12. ASSUME NEW w \in Queuers, NEW j \in QueueJobs, ApplyPolicyDoes(w, j)
      PROVE  SuccessesApart'
  BY <1>12 DEF ApplyPolicyDoes, SuccessesOfRun, SuccessesApart
<1>13. CASE QuietStep
  BY <1>13 DEF QuietStep, SuccessesOfRun, SuccessesApart
<1>14. ASSUME NEW w \in Queuers, RefuseBatchDoes(w)
       PROVE  SuccessesApart'
  BY <1>14 DEF RefuseBatchDoes, SuccessesOfRun, SuccessesApart
<1> QED  BY <1>1, <1>2, <1>3, <1>4, <1>5, <1>6, <1>7, <1>8, <1>9, <1>10, <1>11, <1>12, <1>13,
              <1>14 DEF QueueEffect

\* A job is completed by a claim that was handled.
LEMMA DoneStep ==
    ASSUME QueueTypeOK, TokensIssued, ClaimsApart, HandlersOfClaims, SuccessesOfRun,
             SuccessesApart, DoneMeansHandled, QueueEffect
    PROVE  DoneMeansHandled'
<1> USE QueueConstants, QueueFacts, ItemsEmpty
<1>1. ASSUME NEW j \in QueueJobs, LeaseExpiresDoes(j)
      PROVE  DoneMeansHandled'
  BY <1>1 DEF LeaseExpiresDoes, SuccessesOfRun, DoneMeansHandled
<1>2. ASSUME NEW w \in Queuers, ClaimDueDoes(w)
      PROVE  DoneMeansHandled'
  BY <1>2 DEF ClaimDueDoes, SuccessesOfRun, DoneMeansHandled
<1>3. ASSUME NEW w \in Queuers, ClaimDueFailsDoes(w)
      PROVE  DoneMeansHandled'
  BY <1>3 DEF ClaimDueFailsDoes, SuccessesOfRun, DoneMeansHandled
<1>4. ASSUME NEW w \in Queuers, CollectDoes(w)
      PROVE  DoneMeansHandled'
  BY <1>4 DEF CollectDoes, SuccessesOfRun, DoneMeansHandled
<1>5. ASSUME NEW w \in Queuers, SendBatchDoes(w)
      PROVE  DoneMeansHandled'
  BY <1>5 DEF SendBatchDoes, SuccessesOfRun, DoneMeansHandled
<1>6. ASSUME NEW w \in Queuers, CompleteDoes(w)
      PROVE  DoneMeansHandled'
  BY <1>6 DEF CompleteDoes, SuccessesOfRun, DoneMeansHandled
<1>7. ASSUME NEW w \in Queuers, ReturnRunDoes(w)
      PROVE  DoneMeansHandled'
  BY <1>7 DEF ReturnRunDoes, SuccessesOfRun, DoneMeansHandled
<1>8. ASSUME NEW w \in Queuers, LoopEndsDoes(w)
      PROVE  DoneMeansHandled'
  BY <1>8 DEF LoopEndsDoes, SuccessesOfRun, DoneMeansHandled
<1>9. ASSUME NEW w \in Queuers, NEW j \in QueueJobs, StartHandlerDoes(w, j)
      PROVE  DoneMeansHandled'
  BY <1>9 DEF StartHandlerDoes, SuccessesOfRun, DoneMeansHandled
<1>10. ASSUME NEW w \in Queuers, NEW j \in QueueJobs, HandlerSucceedsDoes(w, j)
      PROVE  DoneMeansHandled'
  BY <1>10 DEF HandlerSucceedsDoes, SuccessesOfRun, DoneMeansHandled
<1>11. ASSUME NEW w \in Queuers, NEW j \in QueueJobs, HandlerFailsDoes(w, j)
      PROVE  DoneMeansHandled'
  BY <1>11 DEF HandlerFailsDoes, SuccessesOfRun, DoneMeansHandled
<1>12. ASSUME NEW w \in Queuers, NEW j \in QueueJobs, ApplyPolicyDoes(w, j)
      PROVE  DoneMeansHandled'
  BY <1>12 DEF ApplyPolicyDoes, SuccessesOfRun, DoneMeansHandled
<1>13. CASE QuietStep
  BY <1>13 DEF QuietStep, SuccessesOfRun, DoneMeansHandled
<1>14. ASSUME NEW w \in Queuers, RefuseBatchDoes(w)
       PROVE  DoneMeansHandled'
  BY <1>14 DEF RefuseBatchDoes, SuccessesOfRun, DoneMeansHandled
<1> QED  BY <1>1, <1>2, <1>3, <1>4, <1>5, <1>6, <1>7, <1>8, <1>9, <1>10, <1>11, <1>12, <1>13,
              <1>14 DEF QueueEffect

\* A request is made for each success that no longer waits.
LEMMA RequestsStep ==
    ASSUME QueueTypeOK, TokensIssued, ClaimsApart, HandlersOfClaims, SuccessesOfRun,
             SuccessesApart, RequestsCounted, RefusedReported, QueueEffect
    PROVE  RequestsCounted'
<1> USE QueueConstants, QueueFacts, ItemsEmpty
<1>1. ASSUME NEW j \in QueueJobs, LeaseExpiresDoes(j)
      PROVE  RequestsCounted'
  BY <1>1 DEF LeaseExpiresDoes, RequestsCounted, Waits, ClaimOf, Mine
<1>2. ASSUME NEW w \in Queuers, ClaimDueDoes(w)
      PROVE  RequestsCounted'
  <2>1. PICK js \in SUBSET QueueJobs : ClaimDueDoes(w)!(js)
    BY <1>2 DEF ClaimDueDoes
  <2> SUFFICES ASSUME NEW v \in Queuers, NEW k \in QueueJobs, claims'[v][k] # 0
               PROVE  requests[<<k, claims'[v][k]>>] =
                        IF <<k, claims'[v][k]>> \in handled \ refused
                             /\ ~ Waits(v, <<k, claims[v][k]>>)' THEN 1 ELSE 0
    <3>1. UNCHANGED <<handled, requests, refused>>
      BY <2>1
    <3> QED  BY <3>1 DEF RequestsCounted, ClaimOf, Mine
  <2>2. CASE v # w
    <3>1. claims'[v] = claims[v] /\ runOnce'[v] = runOnce[v] /\ UNCHANGED <<succeeded, batch>>
      BY <2>1, <2>2
    <3>2. Waits(v, <<k, claims[v][k]>>)' = Waits(v, <<k, claims[v][k]>>)
      BY <3>1 DEF Waits
    <3> QED  BY <3>1, <3>2 DEF RequestsCounted, ClaimOf, Mine
  <2>3. CASE v = w
    <3>1. k \in js /\ claims'[v][k] = jobs[k].fence + 1 /\ claims'[v][k] \in 1..MaxClaims
      BY <2>1, <2>3
    <3> QED  BY <3>1 DEF TokensIssued
  <2> QED  BY <2>2, <2>3
<1>3. ASSUME NEW w \in Queuers, ClaimDueFailsDoes(w)
      PROVE  RequestsCounted'
  BY <1>3 DEF ClaimDueFailsDoes, RequestsCounted, Waits, ClaimOf, Mine
<1>4. ASSUME NEW w \in Queuers, CollectDoes(w)
      PROVE  RequestsCounted'
  BY <1>4 DEF CollectDoes, RequestsCounted, Waits, ClaimOf, Mine
<1>5. ASSUME NEW w \in Queuers, SendBatchDoes(w)
      PROVE  RequestsCounted'
  <2> SUFFICES ASSUME NEW v \in Queuers, NEW k \in Mine(v)
               PROVE  requests'[ClaimOf(v, k)] =
                        IF ClaimOf(v, k) \in handled \ refused /\ ~ Waits(v, ClaimOf(v,
                          k))' THEN 1 ELSE 0
    BY <1>5 DEF SendBatchDoes, RequestsCounted, ClaimOf, Mine
  <2>1. ClaimOf(v, k) \in Claims /\ k \in QueueJobs
    BY DEF Mine
  <2>2. requests[ClaimOf(v, k)] = IF ClaimOf(v, k) \in handled \ refused /\ ~ Waits(v, ClaimOf(v,
          k)) THEN 1 ELSE 0
    BY DEF RequestsCounted
  <2>3. CASE v # w
    <3>1. ClaimOf(v, k) \notin Items(batch[w])
      BY <2>3 DEF SuccessesOfRun, ClaimOf, ClaimsApart, Mine
    <3>2. Waits(v, ClaimOf(v, k))' <=> Waits(v, ClaimOf(v, k))
      BY <1>5, <2>3 DEF SendBatchDoes, Waits, ClaimOf
    <3> QED  BY <1>5, <2>1, <2>2, <3>1, <3>2 DEF SendBatchDoes
  <2>4. CASE v = w
    <3>1. Waits(v, ClaimOf(v, k)) <=> ClaimOf(v, k) \in Items(succeeded[v]) \cup Items(batch[v])
      BY <1>5, <2>4 DEF SendBatchDoes, Waits
    <3>2. Waits(v, ClaimOf(v, k))' <=> ClaimOf(v, k) \in Items(succeeded[v])
      BY <1>5, <2>4 DEF SendBatchDoes, Waits, ClaimOf
    <3>3. ClaimOf(v, k) \in Items(batch[v]) =>
            ClaimOf(v, k) \in handled \ refused /\ ClaimOf(v, k) \notin Items(succeeded[v])
      BY DEF SuccessesOfRun, SuccessesApart, RefusedReported, RefusedOf
    <3> QED  BY <1>5, <2>1, <2>2, <2>4, <3>1, <3>2, <3>3 DEF SendBatchDoes
  <2> QED  BY <2>3, <2>4
<1>6. ASSUME NEW w \in Queuers, CompleteDoes(w)
      PROVE  RequestsCounted'
  BY <1>6 DEF CompleteDoes, RequestsCounted, Waits, ClaimOf, Mine
<1>7. ASSUME NEW w \in Queuers, ReturnRunDoes(w)
      PROVE  RequestsCounted'
  BY <1>7 DEF ReturnRunDoes, RequestsCounted, Waits, ClaimOf, Mine
<1>8. ASSUME NEW w \in Queuers, LoopEndsDoes(w)
      PROVE  RequestsCounted'
  BY <1>8 DEF LoopEndsDoes, RequestsCounted, Waits, ClaimOf, Mine
<1>9. ASSUME NEW w \in Queuers, NEW j \in QueueJobs, StartHandlerDoes(w, j)
      PROVE  RequestsCounted'
  BY <1>9 DEF StartHandlerDoes, RequestsCounted, Waits, ClaimOf, Mine
<1>10. ASSUME NEW w \in Queuers, NEW j \in QueueJobs, HandlerSucceedsDoes(w, j)
      PROVE  RequestsCounted'
  <2> SUFFICES ASSUME NEW v \in Queuers, NEW k \in Mine(v)
               PROVE  requests[ClaimOf(v, k)] =
                        IF ClaimOf(v, k) \in handled' \ refused /\ ~ Waits(v, ClaimOf(v,
                          k))' THEN 1 ELSE 0
    BY <1>10 DEF HandlerSucceedsDoes, RequestsCounted, ClaimOf, Mine
  <2>1. requests[ClaimOf(v, k)] = IF ClaimOf(v, k) \in handled \ refused /\ ~ Waits(v, ClaimOf(v,
          k)) THEN 1 ELSE 0
    BY DEF RequestsCounted
  <2>2. ClaimOf(v, k) = ClaimOf(w, j) => v = w /\ k = j
    BY DEF ClaimOf, ClaimsApart, Mine
  <2>4. ClaimOf(w, j) \notin refused
    BY <1>10 DEF HandlerSucceedsDoes, RefusedReported
  <2>3. Waits(v, ClaimOf(v, k))' <=> Waits(v, ClaimOf(v, k)) \/ (v = w /\ k = j)
    BY <1>10, <2>2 DEF HandlerSucceedsDoes, Waits, ClaimOf
  <2> QED  BY <1>10, <2>1, <2>2, <2>3, <2>4 DEF HandlerSucceedsDoes
<1>11. ASSUME NEW w \in Queuers, NEW j \in QueueJobs, HandlerFailsDoes(w, j)
      PROVE  RequestsCounted'
  BY <1>11 DEF HandlerFailsDoes, RequestsCounted, Waits, ClaimOf, Mine
<1>12. ASSUME NEW w \in Queuers, NEW j \in QueueJobs, ApplyPolicyDoes(w, j)
      PROVE  RequestsCounted'
  BY <1>12 DEF ApplyPolicyDoes, RequestsCounted, Waits, ClaimOf, Mine
<1>13. CASE QuietStep
  BY <1>13 DEF QuietStep, RequestsCounted, Waits, ClaimOf, Mine
<1>14. ASSUME NEW w \in Queuers, RefuseBatchDoes(w)
       PROVE  RequestsCounted'
  <2> SUFFICES ASSUME NEW v \in Queuers, NEW k \in Mine(v)
               PROVE  requests[ClaimOf(v, k)] =
                        IF ClaimOf(v, k) \in handled \ refused' /\ ~ Waits(v, ClaimOf(v, k))'
                        THEN 1 ELSE 0
    BY <1>14 DEF RefuseBatchDoes, RequestsCounted, ClaimOf, Mine
  <2>1. requests[ClaimOf(v, k)] =
          IF ClaimOf(v, k) \in handled \ refused /\ ~ Waits(v, ClaimOf(v, k)) THEN 1 ELSE 0
    BY DEF RequestsCounted
  <2>2. CASE v # w
    <3>1. ClaimOf(v, k) \notin Items(batch[w])
      BY <2>2 DEF SuccessesOfRun, ClaimOf, ClaimsApart, Mine
    <3>2. Waits(v, ClaimOf(v, k))' <=> Waits(v, ClaimOf(v, k))
      BY <1>14, <2>2 DEF RefuseBatchDoes, Waits, ClaimOf
    <3> QED  BY <1>14, <2>1, <3>1, <3>2 DEF RefuseBatchDoes
  <2>3. CASE v = w
    <3>1. Waits(v, ClaimOf(v, k)) <=> ClaimOf(v, k) \in Items(succeeded[v]) \cup Items(batch[v])
      BY <1>14, <2>3 DEF RefuseBatchDoes, Waits
    <3>2. Waits(v, ClaimOf(v, k))' <=> ClaimOf(v, k) \in Items(succeeded[v])
      BY <1>14, <2>3 DEF RefuseBatchDoes, Waits, ClaimOf
    <3> QED  BY <1>14, <2>1, <2>3, <3>1, <3>2 DEF RefuseBatchDoes
  <2> QED  BY <2>2, <2>3
<1> QED  BY <1>1, <1>2, <1>3, <1>4, <1>5, <1>6, <1>7, <1>8, <1>9, <1>10, <1>11, <1>12, <1>13,
              <1>14 DEF QueueEffect

\* A step that refuses nothing, claims nothing and forgets no error leaves that as it is.
LEMMA RefusedKept ==
    ASSUME RefusedReported, UNCHANGED <<keyless, claims, refused>>, handled \subseteq handled',
           \A v \in Queuers : /\ err[v] => err'[v]
                              /\ Items(succeeded'[v]) \cup Items(batch'[v]) \subseteq
                                   Items(succeeded[v]) \cup Items(batch[v])
                                     \cup (handled' \ handled)
    PROVE  RefusedReported'
  BY DEF RefusedReported, RefusedOf, Mine, ClaimOf

\* Only a success that waited in a batch is refused, and the run knows it.
LEMMA RefusedStep ==
    ASSUME QueueTypeOK, TokensIssued, ClaimsApart, HandlersOfClaims, SuccessesOfRun,
             SuccessesApart, RefusedReported, [QueueNext]_queueVars
    PROVE  RefusedReported'
<1> USE ItemsEmpty
<1>1. ASSUME NEW j \in QueueJobs, LeaseExpires(j)
      PROVE  RefusedReported'
  BY <1>1, RefusedKept DEF LeaseExpires, given
<1>2. ASSUME NEW w \in Queuers, ClaimDue(w)
      PROVE  RefusedReported'
  <2>1. ClaimDueDoes(w)
    BY <1>2, ClaimDueEffect
  <2>2. PICK js \in SUBSET QueueJobs : ClaimDueDoes(w)!(js)
    BY <2>1 DEF ClaimDueDoes
  <2>3. /\ UNCHANGED <<keyless, refused, handled, succeeded, batch>>
        /\ \A v \in Queuers \ {w} : err'[v] = err[v] /\ claims'[v] = claims[v]
    BY <1>2, <2>2 DEF ClaimDue, given, QueueTypeOK
  <2>4. ASSUME NEW v \in Queuers \ {w}
        PROVE  RefusedOf(v)'
    BY <2>3 DEF RefusedReported, RefusedOf, Mine, ClaimOf
  <2>5. RefusedOf(w)'
    <3>1. ASSUME NEW j \in QueueJobs, claims'[w][j] # 0
          PROVE  <<j, claims'[w][j]>> \notin handled
      <4>1. claims'[w][j] = jobs[j].fence + 1 /\ jobs[j].fence < MaxClaims
        BY <2>2, <3>1
      <4>2. claims'[w][j] \in 1..MaxClaims /\ claims'[w][j] > jobs[j].fence
        BY <4>1, QueueFacts, QueueConstants
      <4> QED  BY <4>2 DEF TokensIssued
    <3>2. \A j \in Mine(w)' : ClaimOf(w, j)' \notin refused'
      BY <2>3, <3>1 DEF RefusedReported, Mine, ClaimOf
    <3> QED  BY <2>3, <3>2 DEF RefusedReported, RefusedOf, Mine, ClaimOf
  <2> QED  BY <2>3, <2>4, <2>5 DEF RefusedReported
<1>3. ASSUME NEW w \in Queuers, ClaimDueFails(w)
      PROVE  RefusedReported'
  BY <1>3, RefusedKept DEF ClaimDueFails, given
<1>4. ASSUME NEW w \in Queuers, Collect(w)
      PROVE  RefusedReported'
  <2>1. CollectDoes(w)
    BY <1>4, CollectEffect
  <2>2. UNCHANGED <<keyless, claims, refused, handled, err>>
    BY <1>4 DEF Collect, given
  <2>3. \A v \in Queuers : Items(succeeded'[v]) \cup Items(batch'[v]) \subseteq
                              Items(succeeded[v]) \cup Items(batch[v])
    BY <2>1 DEF CollectDoes
  <2> QED  BY <2>2, <2>3, RefusedKept
<1>5. ASSUME NEW w \in Queuers, SendBatch(w)
      PROVE  RefusedReported'
  BY <1>5, RefusedKept DEF SendBatch, given
<1>6. ASSUME NEW w \in Queuers, Complete(w)
      PROVE  RefusedReported'
  <2>1. UNCHANGED <<keyless, claims, refused, handled, succeeded>>
    BY <1>6 DEF Complete, given
  <2>2. \A v \in Queuers : (err[v] => err'[v]) /\ Items(batch'[v]) \subseteq Items(batch[v])
    BY <1>6 DEF Complete, QueueTypeOK
  <2> QED  BY <2>1, <2>2, RefusedKept
<1>7. ASSUME NEW w \in Queuers, ReturnRun(w)
      PROVE  RefusedReported'
  BY <1>7, RefusedKept DEF ReturnRun, given
<1>8. ASSUME NEW w \in Queuers, LoopEnds(w) \/ StopQueue(w)
      PROVE  RefusedReported'
  BY <1>8, RefusedKept DEF LoopEnds, StopQueue, given
<1>9. ASSUME NEW w \in Queuers, NEW j \in QueueJobs, StartHandler(w, j)
      PROVE  RefusedReported'
  BY <1>9, RefusedKept DEF StartHandler, given
<1>10. ASSUME NEW w \in Queuers, NEW j \in QueueJobs, HandlerSucceeds(w, j)
       PROVE  RefusedReported'
  <2>1. HandlerSucceedsDoes(w, j)
    BY <1>10, HandlerSucceedsEffect
  <2>2. UNCHANGED <<keyless, claims, refused, err, batch>>
    BY <1>10 DEF HandlerSucceeds, given
  <2>3. /\ handled \subseteq handled'
        /\ \A v \in Queuers : Items(succeeded'[v]) \subseteq
                                Items(succeeded[v]) \cup (handled' \ handled)
    BY <2>1 DEF HandlerSucceedsDoes
  <2> QED  BY <2>2, <2>3, RefusedKept
<1>11. ASSUME NEW w \in Queuers, NEW j \in QueueJobs, HandlerFails(w, j)
       PROVE  RefusedReported'
  <2>1. UNCHANGED <<keyless, claims, refused, handled, succeeded, batch>>
    BY <1>11 DEF HandlerFails, given
  <2>2. \A v \in Queuers : err[v] => err'[v]
    BY <1>11 DEF HandlerFails, QueueTypeOK
  <2> QED  BY <2>1, <2>2, RefusedKept
<1>12. ASSUME NEW w \in Queuers, NEW j \in QueueJobs, ApplyPolicy(w, j)
       PROVE  RefusedReported'
  <2>1. UNCHANGED <<keyless, claims, refused, handled, succeeded, batch>>
    BY <1>12 DEF ApplyPolicy, given
  <2>2. \A v \in Queuers : err[v] => err'[v]
    BY <1>12 DEF ApplyPolicy, QueueTypeOK
  <2> QED  BY <2>1, <2>2, RefusedKept
<1>13. CASE UNCHANGED queueVars
  BY <1>13, RefusedKept DEF queueVars, given
<1>14. ASSUME NEW w \in Queuers, RefuseBatch(w)
       PROVE  RefusedReported'
  <2>1. RefuseBatchDoes(w)
    BY <1>14, RefuseBatchEffect
  <2>2. /\ UNCHANGED <<keyless, claims, handled, succeeded>> /\ err'[w] = TRUE
        /\ \A v \in Queuers \ {w} : err'[v] = err[v]
    BY <1>14 DEF RefuseBatch, given, QueueTypeOK
  <2>3. Items(batch[w]) \subseteq handled /\ Items(batch[w]) \subseteq Claims
    BY DEF SuccessesOfRun, QueueTypeOK, Items
  <2>4. Mine(w) \cap keyless # {}
    <3>1. PICK c \in Items(batch[w]) : c[1] \in keyless
      BY <1>14 DEF RefuseBatch, Sendable
    <3>2. c[2] = claims[w][c[1]] /\ c[1] \in QueueJobs /\ c[2] # 0
      BY <2>3, QueueFacts, QueueConstants DEF SuccessesOfRun
    <3> QED  BY <3>1, <3>2 DEF Mine
  <2>5. RefusedOf(w)'
    <3>1. \A c \in Items(succeeded'[w]) \cup Items(batch'[w]) : c \notin refused'
      BY <2>1 DEF RefuseBatchDoes, SuccessesApart, RefusedReported, RefusedOf
    <3> QED  BY <2>2, <2>4, <3>1 DEF RefusedOf, Mine
  <2>6. ASSUME NEW v \in Queuers \ {w}
        PROVE  RefusedOf(v)'
    <3>1. \A c \in Items(succeeded[v]) \cup Items(batch[v]) : c \notin Items(batch[w])
      <4> SUFFICES ASSUME NEW c \in Items(succeeded[v]) \cup Items(batch[v]),
                          c \in Items(batch[w])
                   PROVE  FALSE
        OBVIOUS
      <4>1. c[1] \in QueueJobs /\ c[2] # 0
        BY <2>3, QueueFacts, QueueConstants
      <4> QED  BY <4>1 DEF SuccessesOfRun, ClaimsApart
    <3>2. \A j \in Mine(v) : ClaimOf(v, j) \notin Items(batch[w])
      BY DEF SuccessesOfRun, ClaimOf, ClaimsApart, Mine
    <3> QED  BY <2>1, <2>2, <3>1, <3>2 DEF RefuseBatchDoes, RefusedReported, RefusedOf, Mine,
                  ClaimOf
  <2> QED  BY <2>1, <2>2, <2>3, <2>5, <2>6 DEF RefuseBatchDoes, RefusedReported
<1> QED  BY <1>1, <1>2, <1>3, <1>4, <1>5, <1>6, <1>7, <1>8, <1>9, <1>10, <1>11, <1>12, <1>13,
              <1>14 DEF QueueNext, QueueStep

-----------------------------------------------------------------------------
(* The counts.                                                                *)

\* The sets that are counted are finite.
LEMMA CountedFinite ==
    ASSUME QueueTypeOK, NEW w \in Queuers
    PROVE  /\ IsFiniteSet(Mine(w)) /\ IsFiniteSet(DoneOf(w)) /\ IsFiniteSet(AnsweredOf(w))
           /\ Cardinality(Mine(w)) \in Nat /\ Cardinality(DoneOf(w)) \in Nat
           /\ Cardinality(AnsweredOf(w)) \in Nat
<1>1. IsFiniteSet(QueueJobs)
  BY QueueConstants
<1>2. Mine(w) \subseteq QueueJobs /\ DoneOf(w) \subseteq QueueJobs /\
        AnsweredOf(w) \subseteq QueueJobs
  BY DEF Mine, DoneOf, AnsweredOf
<1>3. IsFiniteSet(Mine(w)) /\ IsFiniteSet(DoneOf(w)) /\ IsFiniteSet(AnsweredOf(w))
  BY <1>1, <1>2, FS_Subset
<1> QED  BY <1>3, FS_CardinalityType

\* The counts of a worker stay true while its sets only grow.
LEMMA CountedKept ==
    ASSUME QueueTypeOK, QueueTypeOK', NEW v \in Queuers, CountedOf(v), counts'[v] = counts[v],
           DoneOf(v) \subseteq DoneOf(v)', AnsweredOf(v) \subseteq AnsweredOf(v)'
    PROVE  CountedOf(v)'
<1>1. IsFiniteSet(QueueJobs)
  BY QueueConstants
<1>2. DoneOf(v)' \subseteq QueueJobs /\ AnsweredOf(v)' \subseteq QueueJobs
  BY DEF Mine, DoneOf, AnsweredOf
<1>3. IsFiniteSet(DoneOf(v)') /\ IsFiniteSet(AnsweredOf(v)')
  BY <1>1, <1>2, FS_Subset
<1>4. /\ Cardinality(DoneOf(v)) \in Nat /\ Cardinality(AnsweredOf(v)) \in Nat
      /\ Cardinality(DoneOf(v)') \in Nat /\ Cardinality(AnsweredOf(v)') \in Nat
  BY <1>3, CountedFinite, FS_CardinalityType
<1>5. /\ Cardinality(DoneOf(v)) <= Cardinality(DoneOf(v)')
      /\ Cardinality(AnsweredOf(v)) <= Cardinality(AnsweredOf(v)')
  BY <1>3, FS_Subset
<1>6. counts[v].completed \in Nat /\ counts[v].retried \in Nat /\ counts[v].failed \in Nat
  BY DEF QueueTypeOK
<1> QED  BY <1>4, <1>5, <1>6 DEF CountedOf

\* A sequence of claims of different jobs has as many jobs as claims.
LEMMA JobsOfBatch ==
    ASSUME QueueTypeOK, SuccessesOfRun, SuccessesApart, NEW w \in Queuers
    PROVE  LET js == {c[1] : c \in Items(batch[w])}
           IN IsFiniteSet(js) /\ Cardinality(js) = Len(batch[w]) /\ Len(batch[w]) \in Nat
<1> DEFINE s == batch[w]
           js == {c[1] : c \in Items(s)}
           f == [n \in 1..Len(s) |-> s[n][1]]
<1>1. s \in Seq(Claims) /\ DOMAIN s = 1..Len(s) /\ Len(s) \in Nat
  BY DEF QueueTypeOK
<1>2. ASSUME NEW m \in 1..Len(s), NEW n \in 1..Len(s), s[m][1] = s[n][1]
      PROVE  m = n
  <2>1. s[m] \in Items(s) /\ s[n] \in Items(s)
    BY <1>1 DEF Items
  <2>2. s[m][2] = s[n][2]
    BY <2>1, <1>2 DEF SuccessesOfRun
  <2>3. s[m] = s[n]
    <3>1. s[m] \in Claims /\ s[n] \in Claims
      BY <1>1
    <3> HIDE DEF s
    <3> QED  BY <1>2, <2>2, <3>1 DEF Claims
  <2> QED  BY <1>1, <2>3 DEF SuccessesApart, Distinct
<1>3. f \in [1..Len(s) -> js] /\ \A j \in js : \E n \in 1..Len(s) : f[n] = j
  BY <1>1 DEF Items
<1>4. \A m, n \in 1..Len(s) : f[m] = f[n] => m = n
  BY <1>2
<1> HIDE DEF f, js, s
<1>5. ExistsBijection(1..Len(s), js)
  <2>1. f \in Bijection(1..Len(s), js)
    BY <1>3, <1>4, Fun_IsBij
  <2> QED  BY <2>1, Fun_ExistsBij
<1>6. IsFiniteSet(1..Len(s)) /\ Cardinality(1..Len(s)) = Len(s)
  BY <1>1, FS_Interval
<1>7. IsFiniteSet(js) /\ Cardinality(js) = Len(s)
  BY <1>5, <1>6, FS_Bijection
<1> QED  BY <1>1, <1>7 DEF js, s

\* The counts stay true.
LEMMA CountedStep ==
    ASSUME QueueTypeOK, TokensIssued, ClaimsApart, HandlersOfClaims, SuccessesOfRun,
             SuccessesApart, QueueTypeOK', Counted, QueueEffect
    PROVE  Counted'
<1>1. ASSUME NEW j \in QueueJobs, LeaseExpiresDoes(j)
      PROVE  Counted'
  <2> SUFFICES ASSUME NEW v \in Queuers PROVE CountedOf(v)'
    BY DEF Counted
  <2>1. counts'[v] = counts[v] /\ DoneOf(v) \subseteq DoneOf(v)' /\
          AnsweredOf(v) \subseteq AnsweredOf(v)'
    BY <1>1 DEF LeaseExpiresDoes, DoneOf, AnsweredOf, Mine, ClaimOf
  <2> QED  BY <2>1, CountedKept DEF Counted
<1>2. ASSUME NEW w \in Queuers, ClaimDueDoes(w)
      PROVE  Counted'
  <2> SUFFICES ASSUME NEW v \in Queuers PROVE CountedOf(v)'
    BY DEF Counted
  <2>1. CASE v # w
    <3>1. counts'[v] = counts[v] /\ DoneOf(v) \subseteq DoneOf(v)' /\
            AnsweredOf(v) \subseteq AnsweredOf(v)'
      BY <1>2, <2>1 DEF ClaimDueDoes, DoneOf, AnsweredOf, Mine, ClaimOf
    <3> QED  BY <3>1, CountedKept DEF Counted
  <2>2. CASE v = w
    <3>1. counts'[v] = Counts(0, 0, 0)
      BY <1>2, <2>2 DEF ClaimDueDoes, NoCounts
    <3>2. Cardinality(DoneOf(v)') \in Nat /\ Cardinality(AnsweredOf(v)') \in Nat
      <4>1. DoneOf(v)' \subseteq QueueJobs /\ AnsweredOf(v)' \subseteq QueueJobs
        BY DEF Mine, DoneOf, AnsweredOf
      <4> QED  BY <4>1, QueueConstants, FS_Subset, FS_CardinalityType
    <3> QED  BY <3>1, <3>2 DEF CountedOf, Counts
  <2> QED  BY <2>1, <2>2
<1>3. ASSUME NEW w \in Queuers, ClaimDueFailsDoes(w)
      PROVE  Counted'
  <2> SUFFICES ASSUME NEW v \in Queuers PROVE CountedOf(v)'
    BY DEF Counted
  <2>1. counts'[v] = counts[v] /\ DoneOf(v) \subseteq DoneOf(v)' /\
          AnsweredOf(v) \subseteq AnsweredOf(v)'
    BY <1>3 DEF ClaimDueFailsDoes, DoneOf, AnsweredOf, Mine, ClaimOf
  <2> QED  BY <2>1, CountedKept DEF Counted
<1>4. ASSUME NEW w \in Queuers, CollectDoes(w)
      PROVE  Counted'
  <2> SUFFICES ASSUME NEW v \in Queuers PROVE CountedOf(v)'
    BY DEF Counted
  <2>1. counts'[v] = counts[v] /\ DoneOf(v) \subseteq DoneOf(v)' /\
          AnsweredOf(v) \subseteq AnsweredOf(v)'
    BY <1>4 DEF CollectDoes, DoneOf, AnsweredOf, Mine, ClaimOf
  <2> QED  BY <2>1, CountedKept DEF Counted
<1>5. ASSUME NEW w \in Queuers, SendBatchDoes(w)
      PROVE  Counted'
  <2> SUFFICES ASSUME NEW v \in Queuers PROVE CountedOf(v)'
    BY DEF Counted
  <2>1. counts'[v] = counts[v] /\ DoneOf(v) \subseteq DoneOf(v)' /\
          AnsweredOf(v) \subseteq AnsweredOf(v)'
    BY <1>5 DEF SendBatchDoes, DoneOf, AnsweredOf, Mine, ClaimOf
  <2> QED  BY <2>1, CountedKept DEF Counted
<1>6. ASSUME NEW w \in Queuers, CompleteDoes(w)
      PROVE  Counted'
  <2> SUFFICES ASSUME NEW v \in Queuers PROVE CountedOf(v)'
    BY DEF Counted
  <2>1. CASE v # w
    <3>1. counts'[v] = counts[v] /\ DoneOf(v) \subseteq DoneOf(v)' /\
            AnsweredOf(v) \subseteq AnsweredOf(v)'
      <4>1. counts'[v] = counts[v]
        <5>1. counts' = counts \/ \E x : counts' = [counts EXCEPT ![w] = x]
          BY <1>6 DEF CompleteDoes, CompleteCounts
        <5> QED  BY <2>1, <5>1 DEF QueueTypeOK
      <4>2. DoneOf(v) \subseteq DoneOf(v)' /\ AnsweredOf(v) \subseteq AnsweredOf(v)'
        BY <1>6 DEF CompleteDoes, DoneOf, AnsweredOf, Mine, ClaimOf
      <4> QED  BY <4>1, <4>2
    <3> QED  BY <3>1, CountedKept DEF Counted
  <2>2. CASE v = w /\ UNCHANGED counts
    <3>1. counts'[v] = counts[v] /\ DoneOf(v) \subseteq DoneOf(v)' /\
            AnsweredOf(v) \subseteq AnsweredOf(v)'
      BY <1>6, <2>2 DEF CompleteDoes, DoneOf, AnsweredOf, Mine, ClaimOf
    <3> QED  BY <3>1, CountedKept DEF Counted
  <2>3. CASE v = w /\ counts' # counts
    <3> DEFINE js == {c[1] : c \in Items(batch[w])}
    <3>1. /\ \A c \in Items(batch[w]) : jobs[c[1]].st = "claimed" /\ jobs[c[1]].fence = c[2] /\
               jobs'[c[1]].st = "done"
          /\ counts' = [counts EXCEPT ![w] = Counts(counts[w].completed + Len(batch[w]),
                                                    counts[w].retried, counts[w].failed)]
      BY <1>6, <2>3 DEF CompleteDoes, CompleteCounts
    <3>2. IsFiniteSet(js) /\ Cardinality(js) = Len(batch[w]) /\ Len(batch[w]) \in Nat
      BY JobsOfBatch
    <3>3. DoneOf(w) \cap js = {}
      BY <3>1 DEF DoneOf
    <3>4. ASSUME NEW c \in Items(batch[w])
          PROVE  c[1] \in DoneOf(w)'
      <4>1. c \in Claims /\ c[2] = claims[w][c[1]] /\ c[1] \in QueueJobs /\ c[2] # 0
        BY QueueFacts DEF SuccessesOfRun
      <4>2. jobs'[c[1]].st = "done" /\ jobs'[c[1]].fence = c[2] /\ claims' = claims
        <5>1. (\A k \in QueueJobs : jobs'[k].fence = jobs[k].fence) /\ claims' = claims
          BY <1>6 DEF CompleteDoes
        <5> QED  BY <3>1, <4>1, <5>1
      <4> QED  BY <4>1, <4>2 DEF DoneOf, Mine
    <3>5. DoneOf(w) \subseteq DoneOf(w)' /\ AnsweredOf(w) \subseteq AnsweredOf(w)'
      BY <1>6 DEF CompleteDoes, DoneOf, AnsweredOf, Mine, ClaimOf
    <3>6. IsFiniteSet(DoneOf(w)') /\ IsFiniteSet(AnsweredOf(w)')
      <4>1. DoneOf(w)' \subseteq QueueJobs /\ AnsweredOf(w)' \subseteq QueueJobs
        BY DEF Mine, DoneOf, AnsweredOf
      <4> QED  BY <4>1, QueueConstants, FS_Subset
    <3>7. /\ DoneOf(w) \cup js \subseteq DoneOf(w)' /\ IsFiniteSet(DoneOf(w))
          /\ Cardinality(DoneOf(w)) \in Nat /\ Cardinality(AnsweredOf(w)) \in Nat
      BY <3>4, <3>5, CountedFinite
    <3> HIDE DEF js
    <3>8. Cardinality(DoneOf(w) \cup js) = Cardinality(DoneOf(w)) + Len(batch[w])
      <4>1. /\ Cardinality(DoneOf(w) \cup js) =
                 Cardinality(DoneOf(w)) + Cardinality(js) - Cardinality(DoneOf(w) \cap js)
        BY <3>2, <3>7, FS_Union, Zenon
      <4>2. Cardinality(DoneOf(w) \cap js) = 0
        BY <3>3, FS_EmptySet
      <4> QED  BY <3>2, <3>7, <4>1, <4>2
    <3>9. /\ Cardinality(DoneOf(w) \cup js) <= Cardinality(DoneOf(w)') /\
               Cardinality(DoneOf(w)') \in Nat
          /\ Cardinality(AnsweredOf(w)) <= Cardinality(AnsweredOf(w)') /\
               Cardinality(AnsweredOf(w)') \in Nat
      BY <3>5, <3>6, <3>7, FS_Subset, FS_CardinalityType
    <3>10. /\ counts'[w].completed = counts[w].completed + Len(batch[w])
           /\ counts'[w].retried = counts[w].retried /\ counts'[w].failed = counts[w].failed
           /\ counts[w].completed \in Nat /\ counts[w].retried \in Nat /\ counts[w].failed \in Nat
      BY <3>1 DEF QueueTypeOK, Counts
    <3>11. CountedOf(w)
      BY DEF Counted
    <3>12. /\ counts[w].completed <= Cardinality(DoneOf(w))
           /\ counts[w].retried + counts[w].failed <= Cardinality(AnsweredOf(w))
      BY <3>11 DEF CountedOf
    <3>13. /\ counts'[w].completed <= Cardinality(DoneOf(w)')
           /\ counts'[w].retried + counts'[w].failed <= Cardinality(AnsweredOf(w)')
      <4>1. counts'[w].completed <= Cardinality(DoneOf(w)')
        BY <3>2, <3>7, <3>8, <3>9, <3>10, <3>12
      <4>2. counts'[w].retried + counts'[w].failed <= Cardinality(AnsweredOf(w)')
        BY <3>7, <3>9, <3>10, <3>12
      <4> QED  BY <4>1, <4>2
    <3> QED  BY <2>3, <3>13 DEF CountedOf
  <2> QED  BY <2>1, <2>2, <2>3
<1>7. ASSUME NEW w \in Queuers, ReturnRunDoes(w)
      PROVE  Counted'
  <2> SUFFICES ASSUME NEW v \in Queuers PROVE CountedOf(v)'
    BY DEF Counted
  <2>1. counts'[v] = counts[v] /\ DoneOf(v) \subseteq DoneOf(v)' /\
          AnsweredOf(v) \subseteq AnsweredOf(v)'
    BY <1>7 DEF ReturnRunDoes, DoneOf, AnsweredOf, Mine, ClaimOf
  <2> QED  BY <2>1, CountedKept DEF Counted
<1>8. ASSUME NEW w \in Queuers, LoopEndsDoes(w)
      PROVE  Counted'
  <2> SUFFICES ASSUME NEW v \in Queuers PROVE CountedOf(v)'
    BY DEF Counted
  <2>1. counts'[v] = counts[v] /\ DoneOf(v) \subseteq DoneOf(v)' /\
          AnsweredOf(v) \subseteq AnsweredOf(v)'
    BY <1>8 DEF LoopEndsDoes, DoneOf, AnsweredOf, Mine, ClaimOf
  <2> QED  BY <2>1, CountedKept DEF Counted
<1>9. ASSUME NEW w \in Queuers, NEW j \in QueueJobs, StartHandlerDoes(w, j)
      PROVE  Counted'
  <2> SUFFICES ASSUME NEW v \in Queuers PROVE CountedOf(v)'
    BY DEF Counted
  <2>1. counts'[v] = counts[v] /\ DoneOf(v) \subseteq DoneOf(v)' /\
          AnsweredOf(v) \subseteq AnsweredOf(v)'
    BY <1>9 DEF StartHandlerDoes, DoneOf, AnsweredOf, Mine, ClaimOf
  <2> QED  BY <2>1, CountedKept DEF Counted
<1>10. ASSUME NEW w \in Queuers, NEW j \in QueueJobs, HandlerSucceedsDoes(w, j)
      PROVE  Counted'
  <2> SUFFICES ASSUME NEW v \in Queuers PROVE CountedOf(v)'
    BY DEF Counted
  <2>1. counts'[v] = counts[v] /\ DoneOf(v) \subseteq DoneOf(v)'
    BY <1>10 DEF HandlerSucceedsDoes, DoneOf, Mine
  <2>2. ASSUME NEW k \in AnsweredOf(v)
        PROVE  k \in AnsweredOf(v)'
    <3>1. ClaimOf(v, k) # ClaimOf(w, j)
      BY <1>10 DEF HandlerSucceedsDoes, AnsweredOf, ClaimOf, ClaimsApart, Mine
    <3> QED  BY <1>10, <3>1 DEF HandlerSucceedsDoes, AnsweredOf, Mine, ClaimOf
  <2> QED  BY <2>1, <2>2, CountedKept DEF Counted
<1>11. ASSUME NEW w \in Queuers, NEW j \in QueueJobs, HandlerFailsDoes(w, j)
      PROVE  Counted'
  <2> SUFFICES ASSUME NEW v \in Queuers PROVE CountedOf(v)'
    BY DEF Counted
  <2>1. counts'[v] = counts[v] /\ DoneOf(v) \subseteq DoneOf(v)' /\
          AnsweredOf(v) \subseteq AnsweredOf(v)'
    BY <1>11 DEF HandlerFailsDoes, DoneOf, AnsweredOf, Mine, ClaimOf
  <2> QED  BY <2>1, CountedKept DEF Counted
<1>12. ASSUME NEW w \in Queuers, NEW j \in QueueJobs, ApplyPolicyDoes(w, j)
      PROVE  Counted'
  <2> SUFFICES ASSUME NEW v \in Queuers PROVE CountedOf(v)'
    BY DEF Counted
  <2>1. CASE v # w
    <3>1. counts'[v] = counts[v] /\ DoneOf(v) \subseteq DoneOf(v)' /\
            AnsweredOf(v) \subseteq AnsweredOf(v)'
      BY <1>12, <2>1 DEF ApplyPolicyDoes, DoneOf, AnsweredOf, Mine, ClaimOf, ApplyPolicyCounts
    <3> QED  BY <3>1, CountedKept DEF Counted
  <2>2. CASE v = w
    <3>1. DoneOf(w) \subseteq DoneOf(w)'
      BY <1>12 DEF ApplyPolicyDoes, DoneOf, Mine
    <3>2. /\ j \notin AnsweredOf(w) /\ hs[w][j] = "policy" /\ claims[w][j] # 0 /\ ClaimOf(w,
               j) \notin handled
      BY <1>12 DEF ApplyPolicyDoes, AnsweredOf, HandlersOfClaims
    <3>3. AnsweredOf(w) \cup {j} \subseteq AnsweredOf(w)'
      BY <1>12, <3>2 DEF ApplyPolicyDoes, AnsweredOf, Mine, ClaimOf
    <3>4. IsFiniteSet(DoneOf(w)') /\ IsFiniteSet(AnsweredOf(w)')
      <4>1. DoneOf(w)' \subseteq QueueJobs /\ AnsweredOf(w)' \subseteq QueueJobs
        BY DEF Mine, DoneOf, AnsweredOf
      <4> QED  BY <4>1, QueueConstants, FS_Subset
    <3>5. /\ Cardinality(DoneOf(w)) \in Nat /\ Cardinality(AnsweredOf(w)) \in Nat
          /\ Cardinality(AnsweredOf(w) \cup {j}) = Cardinality(AnsweredOf(w)) + 1
      BY <3>2, CountedFinite, FS_AddElement
    <3>6. /\ Cardinality(DoneOf(w)) <= Cardinality(DoneOf(w)') /\ Cardinality(DoneOf(w)') \in Nat
          /\ Cardinality(AnsweredOf(w) \cup {j}) <= Cardinality(AnsweredOf(w)')
          /\ Cardinality(AnsweredOf(w)') \in Nat
      BY <3>1, <3>3, <3>4, FS_Subset, FS_CardinalityType
    <3>7. /\ counts'[w].completed = counts[w].completed
          /\ counts'[w].retried + counts'[w].failed <= counts[w].retried + counts[w].failed + 1
      BY <1>12 DEF ApplyPolicyDoes, ApplyPolicyCounts
    <3>8. /\ counts[w].completed \in Nat /\ counts[w].retried \in Nat /\ counts[w].failed \in Nat
          /\ counts'[w].completed \in Nat /\ counts'[w].retried \in Nat /\ counts'[w].failed \in Nat
      BY DEF QueueTypeOK
    <3>9. CountedOf(w)
      BY DEF Counted
    <3> QED  BY <2>2, <3>5, <3>6, <3>7, <3>8, <3>9 DEF CountedOf
  <2> QED  BY <2>1, <2>2
<1>13. CASE QuietStep
  BY <1>13 DEF QuietStep, Counted, CountedOf, DoneOf, AnsweredOf, Mine, ClaimOf
<1>14. ASSUME NEW w \in Queuers, RefuseBatchDoes(w)
       PROVE  Counted'
  BY <1>14 DEF RefuseBatchDoes, Counted, CountedOf, DoneOf, AnsweredOf, Mine, ClaimOf
<1> QED  BY <1>1, <1>2, <1>3, <1>4, <1>5, <1>6, <1>7, <1>8, <1>9, <1>10, <1>11, <1>12, <1>13,
              <1>14 DEF QueueEffect

-----------------------------------------------------------------------------
(* The invariant.                                                             *)

\* Every step keeps the types; a token that a handler's claim has is one of 1..MaxClaims.
LEMMA QueueTypeStep ==
    ASSUME QueueTypeOK, HandlersOfClaims, SuccessesOfRun, SuccessesApart, [QueueNext]_queueVars
    PROVE  QueueTypeOK'
<1> USE QueueConstants DEF given
<1>1. ASSUME NEW j \in QueueJobs, LeaseExpires(j)
      PROVE  QueueTypeOK'
  BY <1>1 DEF LeaseExpires, Become, QueueTypeOK
<1>2. ASSUME NEW w \in Queuers, ClaimDue(w)
      PROVE  QueueTypeOK'
  <2>1. PICK js \in SUBSET QueueJobs :
          /\ \A j \in js : jobs[j].st = "due" /\ jobs[j].fence < MaxClaims
          /\ TakeDue(js)
          /\ claims' = [claims EXCEPT ![w] =
               [j \in QueueJobs |-> IF j \in js THEN jobs[j].fence + 1 ELSE 0]]
          /\ hs' = [hs EXCEPT ![w] = [j \in QueueJobs |-> IF j \in js THEN "new" ELSE "none"]]
    BY <1>2 DEF ClaimDue, DueBatches
  <2>2. jobs' \in [QueueJobs -> [st : {"due", "claimed", "done", "failed"}, fence : 0..MaxClaims]]
    BY <2>1 DEF TakeDue, QueueTypeOK
  <2>3. claims' \in [Queuers -> [QueueJobs -> 0..MaxClaims]]
    BY <2>1 DEF QueueTypeOK
  <2>4. hs' \in [Queuers -> [QueueJobs -> {"none", "new", "run", "policy", "end"}]]
    BY <2>1 DEF QueueTypeOK
  <2>5. counts' \in [Queuers -> [completed : Nat, retried : Nat, failed : Nat]]
    BY <1>2 DEF ClaimDue, NoCounts, Counts, QueueTypeOK
  <2>6. /\ runOnce' \in [Queuers -> {"idle", "running", "completing", "stopped"}]
        /\ err' \in [Queuers -> BOOLEAN] /\ UNCHANGED <<policy, keyless, succeeded, batch, handled,
             requests, ended, refused>>
    BY <1>2 DEF ClaimDue, QueueTypeOK, given
  <2> QED  BY <2>2, <2>3, <2>4, <2>5, <2>6 DEF QueueTypeOK
<1>3. ASSUME NEW w \in Queuers, ClaimDueFails(w)
      PROVE  QueueTypeOK'
  <2>1. PICK js \in SUBSET QueueJobs :
          TakeDue(js) /\ \A j \in js : jobs[j].st = "due" /\ jobs[j].fence < MaxClaims
    BY <1>3 DEF ClaimDueFails, DueBatches
  <2>2. jobs' \in [QueueJobs -> [st : {"due", "claimed", "done", "failed"}, fence : 0..MaxClaims]]
    BY <2>1 DEF TakeDue, QueueTypeOK
  <2> QED  BY <1>3, <2>2 DEF ClaimDueFails, QueueTypeOK
<1>4. ASSUME NEW w \in Queuers, Collect(w)
      PROVE  QueueTypeOK'
  <2>1. succeeded[w] \in Seq(Claims) /\ batch[w] \in Seq(Claims) /\ succeeded[w] # <<>>
    BY <1>4 DEF Collect, QueueTypeOK
  <2>2. Tail(succeeded[w]) \in Seq(Claims) /\ Append(batch[w], Head(succeeded[w])) \in Seq(Claims)
    BY <2>1
  <2> QED  BY <1>4, <2>2 DEF Collect, QueueTypeOK
<1>5. ASSUME NEW w \in Queuers, SendBatch(w)
      PROVE  QueueTypeOK'
  <2>1. \A c \in Claims : requests'[c] \in Nat
    <3>1. SendBatchDoes(w)
      BY <1>5, SendBatchEffect
    <3>2. \A c \in Claims : requests[c] \in Nat
      BY DEF QueueTypeOK
    <3> QED  BY <3>1, <3>2 DEF SendBatchDoes
  <2>2. requests' \in [Claims -> Nat]
    BY <1>5, <2>1 DEF SendBatch
  <2> QED  BY <1>5, <2>2 DEF SendBatch, QueueTypeOK
<1>6. ASSUME NEW w \in Queuers, Complete(w)
      PROVE  QueueTypeOK'
  <2>1. \A S : Become(S, "done") \in [QueueJobs -> [st : {"due", "claimed", "done", "failed"},
          fence : 0..MaxClaims]]
    BY DEF Become, QueueTypeOK
  <2>2. jobs' \in [QueueJobs -> [st : {"due", "claimed", "done", "failed"}, fence : 0..MaxClaims]]
    BY <1>6, <2>1 DEF Complete
  <2>3. Counts(counts[w].completed + Len(batch[w]), counts[w].retried, counts[w].failed)
          \in [completed : Nat, retried : Nat, failed : Nat]
    BY DEF Counts, QueueTypeOK
  <2>4. counts' \in [Queuers -> [completed : Nat, retried : Nat, failed : Nat]]
    BY <1>6, <2>3 DEF Complete, QueueTypeOK
  <2>5. err' \in [Queuers -> BOOLEAN]
    BY <1>6 DEF Complete, QueueTypeOK
  <2>6. /\ batch' \in [Queuers -> Seq(Claims)] /\ UNCHANGED <<policy, keyless, claims, hs,
             succeeded,
             handled, requests, ended, refused>>
        /\ runOnce' \in [Queuers -> {"idle", "running", "completing", "stopped"}]
    BY <1>6 DEF Complete, QueueTypeOK
  <2> QED  BY <2>2, <2>4, <2>5, <2>6 DEF QueueTypeOK
<1>7. ASSUME NEW w \in Queuers, ReturnRun(w)
      PROVE  QueueTypeOK'
  BY <1>7 DEF ReturnRun, QueueTypeOK
<1>8. ASSUME NEW w \in Queuers, LoopEnds(w) \/ StopQueue(w)
      PROVE  QueueTypeOK'
  BY <1>8 DEF LoopEnds, StopQueue, QueueTypeOK
<1>9. ASSUME NEW w \in Queuers, NEW j \in QueueJobs, StartHandler(w, j)
      PROVE  QueueTypeOK'
  BY <1>9 DEF StartHandler, QueueTypeOK
<1>10. ASSUME NEW w \in Queuers, NEW j \in QueueJobs, HandlerSucceeds(w, j)
      PROVE  QueueTypeOK'
  <2>1. HandlerSucceedsDoes(w, j)
    BY <1>10, HandlerSucceedsEffect
  <2>2. Append(succeeded[w], ClaimOf(w, j)) \in Seq(Claims)
    BY <2>1 DEF HandlerSucceedsDoes, QueueTypeOK
  <2>3. handled' \subseteq Claims
    BY <2>1 DEF HandlerSucceedsDoes, QueueTypeOK
  <2> QED  BY <1>10, <2>2, <2>3 DEF HandlerSucceeds, QueueTypeOK
<1>11. ASSUME NEW w \in Queuers, NEW j \in QueueJobs, HandlerFails(w, j)
      PROVE  QueueTypeOK'
  <2>1. hs' \in [Queuers -> [QueueJobs -> {"none", "new", "run", "policy", "end"}]]
    <3>1. \E x \in {"end", "policy"} : hs' = [hs EXCEPT ![w][j] = x]
      BY <1>11 DEF HandlerFails
    <3> QED  BY <3>1 DEF QueueTypeOK
  <2>2. err' \in [Queuers -> BOOLEAN]
    BY <1>11 DEF HandlerFails, QueueTypeOK
  <2> QED  BY <1>11, <2>1, <2>2 DEF HandlerFails, QueueTypeOK
<1>12. ASSUME NEW w \in Queuers, NEW j \in QueueJobs, ApplyPolicy(w, j)
      PROVE  QueueTypeOK'
  <2>1. counts' \in [Queuers -> [completed : Nat, retried : Nat, failed : Nat]]
    <3>1. ApplyPolicyDoes(w, j)
      BY <1>12, ApplyPolicyEffect
    <3> QED  BY <3>1 DEF ApplyPolicyDoes, ApplyPolicyCounts
  <2>2. \A to \in {"due", "failed"} :
          Become({j}, to) \in [QueueJobs -> [st : {"due", "claimed", "done", "failed"}, fence :
            0..MaxClaims]]
    BY DEF Become, QueueTypeOK
  <2>3. jobs' \in [QueueJobs -> [st : {"due", "claimed", "done", "failed"}, fence : 0..MaxClaims]]
    <3>1. jobs' = jobs \/ \E to \in {"due", "failed"} : jobs' = Become({j}, to)
      BY <1>12 DEF ApplyPolicy
    <3> QED  BY <2>2, <3>1 DEF QueueTypeOK
  <2>4. err' \in [Queuers -> BOOLEAN]
    BY <1>12 DEF ApplyPolicy, QueueTypeOK
  <2>5. hs' \in [Queuers -> [QueueJobs -> {"none", "new", "run", "policy", "end"}]]
    BY <1>12 DEF ApplyPolicy, QueueTypeOK
  <2> QED  BY <1>12, <2>1, <2>3, <2>4, <2>5 DEF ApplyPolicy, QueueTypeOK
<1>13. CASE UNCHANGED queueVars
  BY <1>13 DEF queueVars, QueueTypeOK
<1>14. ASSUME NEW w \in Queuers, RefuseBatch(w)
       PROVE  QueueTypeOK'
  <2>1. Items(batch[w]) \subseteq Claims
    BY DEF QueueTypeOK, Items
  <2> QED  BY <1>14, <2>1 DEF RefuseBatch, QueueTypeOK
<1> QED  BY <1>1, <1>2, <1>3, <1>4, <1>5, <1>6, <1>7, <1>8, <1>9, <1>10, <1>11, <1>12, <1>13,
              <1>14 DEF QueueNext, QueueStep

\* Nothing is claimed, handled or counted at first.
LEMMA QueueInitHolds ==
    ASSUME QueueInit
    PROVE  QueueInvariant
<1> USE QueueConstants DEF QueueInit
<1>1. QueueTypeOK
  BY DEF QueueTypeOK, NoCounts, Counts
<1>2. TokensIssued /\ ClaimsApart /\ HandlersOfClaims /\ RequestsCounted /\ DoneMeansHandled
  BY DEF TokensIssued, ClaimsApart, HandlersOfClaims, RequestsCounted, Mine, DoneMeansHandled,
       ClaimOf, Claims
<1>3. SuccessesOfRun /\ SuccessesApart /\ RefusedReported
  BY ItemsEmpty DEF SuccessesOfRun, SuccessesApart, RefusedReported, RefusedOf
<1>4. Counted
  <2> SUFFICES ASSUME NEW w \in Queuers PROVE CountedOf(w)
    BY DEF Counted
  <2>1. counts[w] = Counts(0, 0, 0)
    BY DEF NoCounts
  <2> QED  BY <2>1, <1>1, CountedFinite DEF CountedOf, Counts
<1> QED  BY <1>1, <1>2, <1>3, <1>4 DEF QueueInvariant

\* Every step keeps the invariant.
LEMMA QueueInvariantStep ==
    ASSUME QueueInvariant, [QueueNext]_queueVars
    PROVE  QueueInvariant'
<1>1. /\ QueueTypeOK /\ TokensIssued /\ ClaimsApart /\ HandlersOfClaims /\ SuccessesOfRun
      /\ SuccessesApart /\ RequestsCounted /\ RefusedReported /\ DoneMeansHandled /\ Counted
  BY DEF QueueInvariant
<1>2. QueueEffect
  BY <1>1, NextEffect
<1>3. QueueTypeOK'
  BY <1>1, QueueTypeStep
<1>4. TokensIssued' /\ ClaimsApart' /\ HandlersOfClaims'
  BY <1>1, <1>2, TokensStep, ClaimsApartStep, HandlersStep
<1>5. SuccessesOfRun' /\ SuccessesApart'
  BY <1>1, <1>2, OfRunStep, SuccessesApartStep
<1>6. RequestsCounted' /\ RefusedReported' /\ DoneMeansHandled' /\ Counted'
  BY <1>1, <1>2, <1>3, RequestsStep, RefusedStep, DoneStep, CountedStep
<1> QED  BY <1>3, <1>4, <1>5, <1>6 DEF QueueInvariant

\* What the invariant says of a run that has returned, and of its counts: the jobs
\* counted as completed and those answered by the error policy are not the same.
LEMMA QueueInvariantMeans ==
    ASSUME QueueInvariant
    PROVE  SuccessesCompleted
<1>1. /\ QueueTypeOK /\ SuccessesOfRun /\ RequestsCounted /\ RefusedReported
      /\ DoneMeansHandled /\ Counted
  BY DEF QueueInvariant
<1>2. SuccessesCompletedOnce
  <2> SUFFICES ASSUME NEW w \in Queuers, runOnce[w] \in {"idle", "stopped"}
               PROVE  /\ \A j \in QueueJobs : hs[w][j] \in {"none", "end"}
                      /\ \A j \in Mine(w) :
                           /\ requests[ClaimOf(w, j)] =
                                IF ClaimOf(w, j) \in handled \ refused THEN 1 ELSE 0
                           /\ ClaimOf(w, j) \in refused => err[w] /\ Mine(w) \cap keyless # {}
    BY DEF SuccessesCompletedOnce
  <2>1. /\ Items(succeeded[w]) = {} /\ Items(batch[w]) = {}
        /\ \A j \in QueueJobs : hs[w][j] \in {"none", "end"}
    BY <1>1, ItemsEmpty DEF SuccessesOfRun
  <2> QED  BY <1>1, <2>1 DEF RequestsCounted, Waits, RefusedReported, RefusedOf
<1>3. CountsTrue
  <2> SUFFICES ASSUME NEW w \in Queuers
               PROVE  /\ counts[w].completed + counts[w].retried + counts[w].failed
                           <= Cardinality(Mine(w))
                      /\ counts[w].completed <= Cardinality(DoneOf(w))
    BY DEF CountsTrue, DoneOf
  <2>1. /\ counts[w].completed <= Cardinality(DoneOf(w))
        /\ counts[w].retried + counts[w].failed <= Cardinality(AnsweredOf(w))
    BY <1>1 DEF Counted, CountedOf
  <2>2. DoneOf(w) \cap AnsweredOf(w) = {} /\ DoneOf(w) \cup AnsweredOf(w) \subseteq Mine(w)
    BY <1>1 DEF DoneOf, AnsweredOf, Mine, DoneMeansHandled, ClaimOf
  <2>3. /\ IsFiniteSet(Mine(w)) /\ IsFiniteSet(DoneOf(w)) /\ IsFiniteSet(AnsweredOf(w))
        /\ Cardinality(Mine(w)) \in Nat /\ Cardinality(DoneOf(w)) \in Nat
        /\ Cardinality(AnsweredOf(w)) \in Nat
    BY <1>1, CountedFinite
  <2>4. Cardinality(DoneOf(w) \cup AnsweredOf(w)) <= Cardinality(Mine(w))
    BY <2>2, <2>3, FS_Subset
  <2>5. Cardinality(DoneOf(w) \cup AnsweredOf(w)) =
          Cardinality(DoneOf(w)) + Cardinality(AnsweredOf(w))
            - Cardinality(DoneOf(w) \cap AnsweredOf(w))
    BY <2>3, FS_Union, Zenon
  <2>6. Cardinality(DoneOf(w) \cap AnsweredOf(w)) = 0
    BY <2>2, FS_EmptySet
  <2>7. counts[w].completed \in Nat /\ counts[w].retried \in Nat /\ counts[w].failed \in Nat
    BY <1>1 DEF QueueTypeOK
  <2> QED  BY <2>1, <2>3, <2>4, <2>5, <2>6, <2>7
<1> QED  BY <1>1, <1>2, <1>3 DEF SuccessesCompleted

\* The invariant of the queue workers, and with it their types.
THEOREM QueueCorrect == QueueSpec => []QueueInvariant
<1>1. QueueInit => QueueInvariant
  BY QueueInitHolds
<1>2. QueueInvariant /\ [QueueNext]_queueVars => QueueInvariant'
  BY QueueInvariantStep
<1> QED  BY <1>1, <1>2, PTL DEF QueueSpec

\* SuccessesCompleted: a run of RunOnce that has returned has requested the completion
\* of each of its successes once (queue.go:226), unless the client refused the batch
\* for a job without partition key, which the run then reports (queue.go:228); a job is
\* completed only by the claim whose handler has succeeded (queue.go:175), and the
\* counts are what the server has done, whatever leases run out and whichever answers
\* are lost.
THEOREM QueueSuccessesCompleted == QueueSpec => []SuccessesCompleted
<1>1. QueueInvariant => SuccessesCompleted
  BY QueueInvariantMeans
<1> QED  BY <1>1, QueueCorrect, PTL

=============================================================================
