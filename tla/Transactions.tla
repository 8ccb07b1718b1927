---------------------------- MODULE Transactions ----------------------------
(* Connection-affine sessions: transaction.go, transaction_policy_v080.go,    *)
(* topology_transaction_session.go, Command, Pipeline and Close of client.go  *)
(* and client_pipeline.go, and nativeCommandSession of native_request.go.     *)
(*                                                                            *)
(* A client keeps at most one legacy WATCH/MULTI session and hands out        *)
(* explicit Transactions.  A session owns the executor's gate and is pinned   *)
(* to the connection that was current when it was acquired; Abort closes that *)
(* connection, Release keeps it for whoever comes next.  legacyGate (here an  *)
(* abstract reader-writer lock, see SessionGate) separates the calls that     *)
(* change the legacy session from the ones that use it; Watch and Multi also  *)
(* hold legacyMu while they wait for the gate and for the server.             *)
(*                                                                            *)
(* The server is external: it keeps WATCH and MULTI per connection and may    *)
(* refuse any command.  Requests travel in order on a connection that may be  *)
(* lost at any time, and a caller may give up on a request under way.         *)
EXTENDS Integers, Sequences, FiniteSets

CONSTANTS
    Callers,        \* goroutines that share the client
    Txs,            \* explicit transactions that may be started
    MaxSessions,    \* bound on the sessions acquired
    MaxConns,       \* bound on the connections made
    MaxWire,        \* bound on the requests under way on a connection
    MaxQueue        \* bound on the commands queued in a MULTI

ASSUME TransactionConstants ==
    /\ IsFiniteSet(Callers) /\ IsFiniteSet(Txs)
    /\ "none" \notin Callers /\ "none" \notin Txs
    /\ MaxSessions \in Nat /\ MaxConns \in Nat /\ MaxWire \in Nat /\ MaxQueue \in Nat

VARIABLES
    \* Client
    gateW, gateR,   \* legacyGate: its writer or "none", its readers
    legacyMu,       \* who holds it across a step, or "none"
    legacy,         \* the session, or 0
    legacyMulti,
    txState, txSess, txMu,   \* the Transactions: closed or not, the session, opMu
    \* NativeExecutor
    gate,           \* the session that holds sessionGate, or 0
    readers,        \* the callers that hold it for one request
    cur,            \* the connection, or 0
    execClosed,
    conns,          \* connections made so far
    sconn,          \* the connection each acquired session is pinned to
    finished,       \* sessions aborted or released
    \* the calls
    pc, op, sess, reply,
    \* the server's side of the connection, and what is on its way to it
    server, wire,
    \* what callers were told: commands QUEUED in each session
    acked

client == <<gateW, gateR, legacyMu, legacy, legacyMulti>>
executor == <<gate, readers, cur, execClosed, conns, sconn, finished>>
calls == <<pc, op, sess, reply>>
remote == <<server, wire>>
transactions == <<txState, txSess, txMu>>
vars == <<client, transactions, executor, calls, remote, acked>>

Sessions == 1..MaxSessions
Conns == 1..MaxConns

\* The kinds of commands a caller may send inside a session: one that MULTI
\* takes, one that the 0.8 server rejects there, and one of another slot.
CommandKinds == {"set", "blpop", "foreign"}

LegacyStart == {"watch", "multi", "begin"}
LegacyEnd == {"unwatch", "exec", "discard"}
PlainNames == {"command", "pipeline"}
TxNames == {"tcommand", "texec", "tdiscard"}

\* A call: its method, the kind of its command and its Transaction, if any.
Ops == [name : LegacyStart \cup LegacyEnd \cup PlainNames \cup TxNames \cup {"close", "none"},
        kind : CommandKinds \cup {"none"}, tx : Txs \cup {"none"}]
Op(name) == [name |-> name, kind |-> "none", tx |-> "none"]
NoOp == Op("none")
Plain == [name : PlainNames, kind : CommandKinds, tx : {"none"}]
TxOps == [name : {"tcommand"}, kind : CommandKinds, tx : Txs]
            \cup [name : {"texec", "tdiscard"}, kind : {"none"}, tx : Txs]

\* What a call is answered: items are the results of EXEC, each the session its
\* command was sent on.
Replies == [kind : {"none", "err", "odd", "ok", "value", "queued", "nil", "array"},
            items : Seq(0..MaxSessions)]
Reply(kind) == [kind |-> kind, items |-> <<>>]
NoReply == Reply("none")
Failed == Reply("err")

Clean == [watch |-> FALSE, multi |-> FALSE, bad |-> FALSE, queue |-> <<>>]

\* What the server reads: the command, the session it was sent on (0 for a
\* plain one) and the caller that waits for the answer, if any still does.
Messages == [name : {"watch", "multi", "unwatch", "exec", "discard", "set", "blpop", "foreign"},
             sess : 0..MaxSessions, by : Callers \cup {"none"}]

ClientTypes ==
    /\ gateW \in Callers \cup {"none"} /\ gateR \subseteq Callers
    /\ legacyMu \in Callers \cup {"none"}
    /\ legacy \in 0..MaxSessions /\ legacyMulti \in BOOLEAN
    /\ txState \in [Txs -> {"none", "open", "closing", "closed"}]
    /\ txSess \in [Txs -> 0..MaxSessions] /\ txMu \in [Txs -> Callers \cup {"none"}]

ExecutorTypes ==
    /\ gate \in 0..MaxSessions /\ readers \subseteq Callers
    /\ cur \in 0..MaxConns /\ conns \in 0..MaxConns /\ execClosed \in BOOLEAN
    /\ sconn \in Seq(Conns) /\ Len(sconn) <= MaxSessions /\ finished \subseteq DOMAIN sconn

CallTypes ==
    /\ pc \in [Callers -> {"idle", "acquire", "plain", "send", "wait", "closing"}]
    /\ op \in [Callers -> Ops] /\ sess \in [Callers -> 0..MaxSessions]

ReplyTypes == reply \in [Callers -> Replies]

WireTypes == wire \in Seq(Messages)

ServerTypes ==
    server \in [watch : BOOLEAN, multi : BOOLEAN, bad : BOOLEAN, queue : Seq(0..MaxSessions)]

AckTypes == acked \in [Sessions -> Nat]

TypeOK ==
    /\ ClientTypes /\ ExecutorTypes /\ CallTypes /\ ReplyTypes /\ WireTypes /\ ServerTypes
    /\ AckTypes

Init ==
    /\ gateW = "none" /\ gateR = {} /\ legacyMu = "none"
    /\ legacy = 0 /\ legacyMulti = FALSE
    /\ txState = [x \in Txs |-> "none"] /\ txSess = [x \in Txs |-> 0]
    /\ txMu = [x \in Txs |-> "none"]
    /\ gate = 0 /\ readers = {} /\ cur = 0 /\ execClosed = FALSE
    /\ conns = 0 /\ sconn = <<>> /\ finished = {}
    /\ pc = [c \in Callers |-> "idle"] /\ op = [c \in Callers |-> NoOp]
    /\ sess = [c \in Callers |-> 0] /\ reply = [c \in Callers |-> NoReply]
    /\ server = Clean /\ wire = <<>>
    /\ acked = [s \in Sessions |-> 0]

-----------------------------------------------------------------------------
(* Steps that several calls share.                                            *)

\* The deferred unlocks: legacyGate, legacyMu, the Transaction's opMu and, for
\* a plain command, sessionGate.
Return(c) ==
    /\ pc' = [pc EXCEPT ![c] = "idle"] /\ op' = [op EXCEPT ![c] = NoOp]
    /\ sess' = [sess EXCEPT ![c] = 0]
    /\ gateW' = IF gateW = c THEN "none" ELSE gateW
    /\ gateR' = gateR \ {c}
    /\ legacyMu' = IF legacyMu = c THEN "none" ELSE legacyMu

\* setLegacySessionLocked
SetLegacy(s) == legacy' = s /\ legacyMulti' = FALSE

\* The replies once c has read its own and the callers in failed get the error
\* of their connection.
Settle(c, failed) ==
    reply' = [d \in Callers |-> IF d = c THEN NoReply
                                ELSE IF d \in failed THEN Failed ELSE reply[d]]

\* closeConnAndFailPendingIfCurrent: whoever waits on it gets the error.  What
\* the server makes of the requests on their way changes nothing for the client.
CloseConn(c, k) ==
    IF k = cur /\ cur # 0
    THEN /\ cur' = 0 /\ server' = Clean /\ wire' = <<>>
         /\ Settle(c, {wire[i].by : i \in DOMAIN wire})
    ELSE UNCHANGED <<cur, remote>> /\ Settle(c, {})

\* Abort and Release of nativeCommandSession act once, and both free the gate.
\* Only Abort gives up the connection.
Finish(s) == finished' = finished \cup {s} /\ gate' = IF s \in finished THEN gate ELSE 0
Abort(c, s) ==
    /\ Finish(s)
    /\ CloseConn(c, IF s \in finished THEN 0 ELSE sconn[s])
Release(c, s) == Finish(s) /\ UNCHANGED <<cur, remote>> /\ Settle(c, {})
Keep(c) == UNCHANGED <<finished, gate, cur, remote>> /\ Settle(c, {})

\* The connection a request goes out on: the current one or a new one.
Connect == \/ cur # 0 /\ UNCHANGED <<cur, conns>>
           \/ cur = 0 /\ conns < MaxConns /\ conns' = conns + 1 /\ cur' = conns + 1

-----------------------------------------------------------------------------
(* The calls of the client.                                                   *)

\* A goroutine enters a method.  One that finds its context done, gives up on a
\* lock, or returns an error because of what it finds under it, has changed
\* nothing: that is no step.
Enter(c, o, step) ==
    /\ pc[c] = "idle"
    /\ pc' = [pc EXCEPT ![c] = step] /\ op' = [op EXCEPT ![c] = o]

\* legacyGate.lock, and then legacyMu.
Writer(c) == gateW = "none" /\ gateR = {} /\ gateW' = c /\ legacyMu = "none"

Watch(c) ==
    /\ Writer(c) /\ legacy = 0
    /\ Enter(c, Op("watch"), "acquire")
    /\ legacyMu' = c
    /\ UNCHANGED <<gateR, legacy, legacyMulti, sess, reply, transactions, executor, remote, acked>>

Multi(c) ==
    /\ Writer(c) /\ ~legacyMulti
    /\ Enter(c, Op("multi"), IF legacy = 0 THEN "acquire" ELSE "send")
    /\ legacyMu' = c
    /\ sess' = [sess EXCEPT ![c] = legacy]
    /\ UNCHANGED <<gateR, legacy, legacyMulti, reply, transactions, executor, remote, acked>>

\* Unwatch, Exec and Discard take the session out of the client first.
TakeLegacy(c) ==
    /\ Writer(c) /\ legacy # 0
    /\ \E name \in LegacyEnd :
         legacyMulti = (name # "unwatch") /\ Enter(c, Op(name), "send")
    /\ sess' = [sess EXCEPT ![c] = legacy] /\ SetLegacy(0)
    /\ UNCHANGED <<gateR, legacyMu, reply, transactions, executor, remote, acked>>

\* transactionForKeys takes over a WATCH session, or acquires one.
BeginTransaction(c, x) ==
    /\ Writer(c) /\ ~legacyMulti
    /\ txState[x] = "none"
    /\ Enter(c, [name |-> "begin", kind |-> "none", tx |-> x], IF legacy = 0 THEN "acquire" ELSE "send")
    /\ sess' = [sess EXCEPT ![c] = legacy] /\ SetLegacy(0)
    /\ UNCHANGED <<gateR, legacyMu, reply, transactions, executor, remote, acked>>

\* Command and Pipeline.  In MULTI, Command refuses what the server would
\* reject; Pipeline sends it.
UseClient(c, o) ==
    /\ gateW = "none"
    /\ ~ (legacyMulti /\ o.name = "command" /\ o.kind = "blpop")
    /\ Enter(c, o, IF legacy = 0 THEN "plain" ELSE "send")
    /\ gateR' = gateR \cup {c}
    /\ sess' = [sess EXCEPT ![c] = legacy]
    /\ UNCHANGED <<gateW, legacyMu, legacy, legacyMulti, reply, transactions, executor, remote, acked>>

\* Command, Exec and Discard of a Transaction: opMu, then the closed check.
UseTransaction(c, o) ==
    /\ txMu[o.tx] = "none" /\ txState[o.tx] = "open"
    /\ o.name = "tcommand" => o.kind # "blpop"
    /\ Enter(c, o, "send")
    /\ txMu' = [txMu EXCEPT ![o.tx] = c]
    /\ sess' = [sess EXCEPT ![c] = txSess[o.tx]]
    /\ UNCHANGED <<txState, txSess, client, reply, executor, remote, acked>>

\* Client.Close waits for legacyMu only, and not for legacyGate: it aborts the
\* legacy session and then closes the executor.
Close(c) ==
    /\ legacyMu = "none" /\ ~execClosed
    /\ Enter(c, Op("close"), "closing")
    /\ IF legacy # 0 THEN Abort(c, legacy) ELSE Keep(c)
    /\ SetLegacy(0)
    /\ UNCHANGED <<gateW, gateR, legacyMu, sess, transactions, readers, execClosed, conns, sconn, acked>>

CloseExecutor(c) ==
    /\ pc[c] = "closing"
    /\ execClosed' = TRUE /\ CloseConn(c, cur)
    /\ pc' = [pc EXCEPT ![c] = "idle"] /\ op' = [op EXCEPT ![c] = NoOp]
    /\ UNCHANGED <<sess, client, transactions, gate, readers, conns, sconn, finished, acked>>

-----------------------------------------------------------------------------
(* The executor.                                                              *)

\* acquireCommandSession: the gate, then a connection; Multi stores the session
\* in the client before it sends MULTI.
Acquire(c) ==
    /\ pc[c] = "acquire" /\ gate = 0 /\ readers = {} /\ ~execClosed
    /\ Len(sconn) < MaxSessions
    /\ Connect
    /\ LET s == Len(sconn) + 1 IN
         /\ sconn' = Append(sconn, cur') /\ gate' = s
         /\ sess' = [sess EXCEPT ![c] = s]
         /\ IF op[c].name = "multi" THEN SetLegacy(s) ELSE UNCHANGED <<legacy, legacyMulti>>
    /\ pc' = [pc EXCEPT ![c] = "send"]
    /\ UNCHANGED <<gateW, gateR, legacyMu, transactions, readers, execClosed, finished, op, reply,
                   remote, acked>>

\* The context ends, the executor is closed or no connection is made.
AcquireFails(c) ==
    /\ pc[c] \in {"acquire", "plain"}
    /\ Return(c)
    /\ UNCHANGED <<reply, legacy, legacyMulti, transactions, executor, remote, acked>>

\* A plain command shares the gate with other plain commands.
AcquirePlain(c) ==
    /\ pc[c] = "plain" /\ gate = 0 /\ ~execClosed
    /\ readers' = readers \cup {c}
    /\ Connect
    /\ pc' = [pc EXCEPT ![c] = "send"]
    /\ UNCHANGED <<client, transactions, gate, execClosed, sconn, finished, op, sess, reply, remote, acked>>

\* The text of a request of op o.
Text(o) == IF o.name = "begin" THEN "multi"
           ELSE IF o.name = "texec" THEN "exec"
           ELSE IF o.name = "tdiscard" THEN "discard"
           ELSE IF o.name \in PlainNames \cup {"tcommand"} THEN o.kind
           ELSE o.name

\* Mutant: a session sends on whatever connection is current.
UsableOnCurrent(c) == cur # 0 /\ Text(op[c]) # "foreign"

\* nativeCommandSession.Do fails on a finished session and never reconnects:
\* the request goes to the session's own connection.  topologyCommandSession
\* refuses a command of another slot before that.
Usable(c) ==
    \/ sess[c] = 0 /\ cur # 0
    \/ /\ sess[c] # 0 /\ sess[c] \notin finished /\ cur = sconn[sess[c]]
       /\ Text(op[c]) # "foreign"

\* Do holds the session's mutex from here to the answer.
Send(c) ==
    /\ pc[c] = "send" /\ Usable(c)
    /\ sess[c] # 0 => \A d \in Callers : ~ (pc[d] = "wait" /\ sess[d] = sess[c])
    /\ Len(wire) < MaxWire
    /\ wire' = Append(wire, [name |-> Text(op[c]), sess |-> sess[c], by |-> c])
    /\ pc' = [pc EXCEPT ![c] = "wait"] /\ reply' = [reply EXCEPT ![c] = NoReply]
    /\ UNCHANGED <<op, sess, client, transactions, executor, server, acked>>

\* A command of another slot that is refused locally leaves a Transaction open.
RefusedLocally(c) == sess[c] # 0 /\ Text(op[c]) = "foreign"

CannotSend(c) ==
    /\ pc[c] = "send" /\ ~ Usable(c)
    /\ pc' = [pc EXCEPT ![c] = "wait"] /\ reply' = [reply EXCEPT ![c] = Failed]
    /\ UNCHANGED <<op, sess, client, transactions, executor, remote, acked>>

\* The caller's context ends; the request stays on its way, and nobody waits for
\* the answer any more.
GiveUpWaiting(c) ==
    /\ pc[c] = "wait" /\ reply[c] = NoReply
    /\ reply' = [reply EXCEPT ![c] = Failed]
    /\ wire' = [i \in DOMAIN wire |->
                    [name |-> wire[i].name, sess |-> wire[i].sess,
                     by |-> IF wire[i].by = c THEN "none" ELSE wire[i].by]]
    /\ UNCHANGED <<pc, op, sess, client, transactions, executor, server, acked>>

-----------------------------------------------------------------------------
(* The server: external.                                                      *)

\* Whether the connection's state allows the command.
Allowed(v, m) ==
    IF m.name \in {"watch", "unwatch", "multi"} THEN ~ v.multi
    ELSE IF m.name \in {"exec", "discard"} THEN v.multi
    ELSE m.name = "set" \/ ~ v.multi

\* What the command does to it: one that MULTI does not take spoils the transaction.
Effect(v, m) ==
    IF ~ Allowed(v, m)
    THEN [watch |-> v.watch, multi |-> v.multi, queue |-> v.queue,
          bad |-> v.bad \/ m.name \in CommandKinds]
    ELSE IF m.name \in {"exec", "discard"} THEN Clean
    ELSE IF m.name \in CommandKinds
    THEN [watch |-> v.watch, multi |-> v.multi, bad |-> v.bad,
          queue |-> IF v.multi THEN Append(v.queue, m.sess) ELSE v.queue]
    ELSE [watch |-> IF m.name = "watch" THEN TRUE ELSE IF m.name = "unwatch" THEN FALSE ELSE v.watch,
          multi |-> m.name = "multi", bad |-> FALSE, queue |-> <<>>]

\* And its answer; EXEC fails after a command that MULTI did not take.
Answer(v, m) ==
    IF ~ Allowed(v, m) \/ (m.name = "exec" /\ v.bad) THEN Failed
    ELSE IF m.name = "exec" THEN [kind |-> "array", items |-> v.queue]
    ELSE IF m.name = "set" /\ v.multi THEN Reply("queued")
    ELSE IF m.name \in CommandKinds THEN Reply("value")
    ELSE Reply("ok")

\* The answers a command may get when it takes effect: its own, nil for an EXEC
\* after a watched key was changed, or something the client does not expect.
Answers(v, m) ==
    {Answer(v, m), Reply("odd")}
        \cup (IF m.name = "exec" /\ v.multi /\ v.watch THEN {Reply("nil")} ELSE {})

Deliver(m, r) == reply' = IF m.by = "none" THEN reply ELSE [reply EXCEPT ![m.by] = r]

\* It reads the next request; it may also refuse it.
Serve ==
    /\ wire # <<>>
    /\ LET m == Head(wire) IN
         /\ m.name = "set" /\ server.multi => Len(server.queue) < MaxQueue
         /\ \/ server' = Effect(server, m) /\ \E r \in Answers(server, m) : Deliver(m, r)
            \/ server' = server /\ Deliver(m, Failed)
    /\ wire' = Tail(wire)
    /\ UNCHANGED <<pc, op, sess, client, transactions, executor, acked>>

\* The connection breaks.
Lose ==
    /\ cur # 0
    /\ CloseConn("none", cur)
    /\ UNCHANGED <<pc, op, sess, client, transactions, gate, readers, execClosed, conns, sconn, finished,
                   acked>>

-----------------------------------------------------------------------------
(* What a call does with the answer.                                          *)

Answered(c, name) == pc[c] = "wait" /\ op[c].name = name /\ reply[c] # NoReply
Accepted(c) == reply[c].kind \in IF Text(op[c]) = "exec" THEN {"array", "nil"} ELSE {"ok"}

\* Mutant: a WATCH that failed leaves the session it took to nobody.
WatchEndsKeeps(c) ==
    /\ Answered(c, "watch")
    /\ \/ Accepted(c) /\ SetLegacy(sess[c]) /\ Keep(c)
       \/ ~ Accepted(c) /\ Keep(c) /\ UNCHANGED <<legacy, legacyMulti>>
    /\ Return(c)
    /\ UNCHANGED <<transactions, readers, execClosed, conns, sconn, acked>>

WatchEnds(c) ==
    /\ Answered(c, "watch")
    /\ \/ Accepted(c) /\ SetLegacy(sess[c]) /\ Keep(c)
       \/ ~ Accepted(c) /\ Abort(c, sess[c]) /\ UNCHANGED <<legacy, legacyMulti>>
    /\ Return(c)
    /\ UNCHANGED <<transactions, readers, execClosed, conns, sconn, acked>>

MultiEnds(c) ==
    /\ Answered(c, "multi")
    /\ \/ Accepted(c) /\ legacyMulti' = TRUE /\ UNCHANGED legacy /\ Keep(c)
       \/ ~ Accepted(c) /\ Abort(c, sess[c]) /\ SetLegacy(0)
    /\ Return(c)
    /\ UNCHANGED <<transactions, readers, execClosed, conns, sconn, acked>>

\* Mutant: EXEC and DISCARD hand the connection back whatever became of them.
LegacyEndsReleases(c) ==
    /\ \E name \in LegacyEnd : Answered(c, name)
    /\ Release(c, sess[c])
    /\ Return(c)
    /\ UNCHANGED <<legacy, legacyMulti, transactions, readers, execClosed, conns, sconn, acked>>

\* finishCommandSession
LegacyEnds(c) ==
    /\ \E name \in LegacyEnd : Answered(c, name)
    /\ IF Accepted(c) THEN Release(c, sess[c]) ELSE Abort(c, sess[c])
    /\ Return(c)
    /\ UNCHANGED <<legacy, legacyMulti, transactions, readers, execClosed, conns, sconn, acked>>

\* The answer of Command and Pipeline goes to the caller as it is; a Pipeline
\* on a session may have one more command to send.
CommandEnds(c) ==
    /\ \E name \in {"command", "pipeline"} : Answered(c, name)
    /\ acked' = IF sess[c] # 0 /\ reply[c].kind = "queued"
                THEN [acked EXCEPT ![sess[c]] = @ + 1] ELSE acked
    /\ \/ /\ Return(c)
          /\ readers' = readers \ {c}
       \/ /\ op[c].name = "pipeline" /\ sess[c] # 0 /\ reply[c] # Failed
          /\ pc' = [pc EXCEPT ![c] = "send"]
          /\ UNCHANGED <<op, sess, gateW, gateR, legacyMu, readers>>
    /\ Keep(c)
    /\ UNCHANGED <<legacy, legacyMulti, transactions, execClosed, conns, sconn>>

\* The Transaction is given out, with the goroutine that watches its context.
TransactionBegins(c) ==
    /\ Answered(c, "begin")
    /\ \/ /\ Accepted(c)
          /\ txState' = [txState EXCEPT ![op[c].tx] = "open"]
          /\ txSess' = [txSess EXCEPT ![op[c].tx] = sess[c]]
          /\ Keep(c)
       \/ ~ Accepted(c) /\ Abort(c, sess[c]) /\ UNCHANGED <<txState, txSess>>
    /\ Return(c)
    /\ UNCHANGED <<legacy, legacyMulti, txMu, readers, execClosed, conns, sconn, acked>>

\* The context of the Transaction ends: markClosed, and then Abort.
ContextEnds(x) ==
    /\ txState[x] = "open"
    /\ txState' = [txState EXCEPT ![x] = "closing"]
    /\ UNCHANGED <<txSess, txMu, client, executor, calls, remote, acked>>

ContextAborts(x) ==
    /\ txState[x] = "closing"
    /\ txState' = [txState EXCEPT ![x] = "closed"]
    /\ Abort("none", txSess[x])
    /\ UNCHANGED <<txSess, txMu, client, readers, execClosed, conns, sconn, pc, op, sess, acked>>

\* t.abort and t.release do nothing once the Transaction is marked closed.
CloseTx(c, accepted) ==
    LET x == op[c].tx IN
    /\ txMu' = [txMu EXCEPT ![x] = "none"]
    /\ IF txState[x] = "open"
       THEN /\ txState' = [txState EXCEPT ![x] = "closed"]
            /\ IF accepted THEN Release(c, txSess[x]) ELSE Abort(c, txSess[x])
       ELSE UNCHANGED txState /\ Keep(c)

\* QUEUED is reported only if the Transaction is still open.
TransactionCommandEnds(c) ==
    /\ Answered(c, "tcommand")
    /\ IF reply[c].kind = "queued" \/ RefusedLocally(c)
       THEN /\ txMu' = [txMu EXCEPT ![op[c].tx] = "none"]
            /\ acked' = IF reply[c].kind = "queued" /\ txState[op[c].tx] = "open"
                        THEN [acked EXCEPT ![sess[c]] = @ + 1] ELSE acked
            /\ Keep(c) /\ UNCHANGED txState
       ELSE CloseTx(c, FALSE) /\ UNCHANGED acked
    /\ Return(c)
    /\ UNCHANGED <<legacy, legacyMulti, txSess, readers, execClosed, conns, sconn>>

TransactionEnds(c) ==
    /\ Answered(c, "texec") \/ Answered(c, "tdiscard")
    /\ CloseTx(c, Accepted(c))
    /\ Return(c)
    /\ UNCHANGED <<legacy, legacyMulti, txSess, readers, execClosed, conns, sconn, acked>>

Next ==
    \/ \E c \in Callers :
        \/ Watch(c) \/ Multi(c) \/ TakeLegacy(c) \/ Close(c) \/ CloseExecutor(c)
        \/ \E x \in Txs : BeginTransaction(c, x)
        \/ \E o \in Plain : UseClient(c, o)
        \/ \E o \in TxOps : UseTransaction(c, o)
        \/ Acquire(c) \/ AcquireFails(c) \/ AcquirePlain(c)
        \/ Send(c) \/ CannotSend(c) \/ GiveUpWaiting(c)
        \/ WatchEnds(c) \/ MultiEnds(c) \/ LegacyEnds(c) \/ CommandEnds(c)
        \/ TransactionBegins(c) \/ TransactionCommandEnds(c) \/ TransactionEnds(c)
    \/ \E x \in Txs : ContextEnds(x) \/ ContextAborts(x)
    \/ Serve \/ Lose

Spec == Init /\ [][Next]_vars

-----------------------------------------------------------------------------
(* Properties.                                                                *)

\* Whenever no session holds the executor's gate, the connection that plain
\* commands will use has no WATCH and no MULTI on it, and none on its way:
\* whatever way a session ended (transaction.go:242, native_request.go:418),
\* its state did not outlive it.  And what a MULTI has queued was sent on the
\* one session that holds the gate.
SessionStateContained ==
    /\ gate = 0 /\ cur # 0 =>
        /\ ~ server.watch /\ ~ server.multi
        /\ \A i \in DOMAIN wire : wire[i].name \in CommandKinds
    /\ \A c \in Callers : sess[c] = 0 => reply[c].kind # "queued"
    /\ cur # 0 /\ server.multi => \A i \in DOMAIN server.queue :
                                            server.queue[i] = gate

\* The gate is never left held: the session that holds it is the client's
\* legacy session, belongs to a Transaction that is not closed, or is in the
\* hands of a call under way, and only one of them (transaction.go:123 takes it
\* out of the client before EXEC is sent; Close runs at any time).
SessionHasOneOwner ==
    gate # 0 =>
        Cardinality({c \in Callers : pc[c] \in {"send", "wait"} /\ sess[c] = gate
                                     /\ op[c].name \in LegacyEnd \cup {"watch", "begin"}})
        + Cardinality({x \in Txs : txSess[x] = gate /\ txState[x] \in {"open", "closing"}})
        + (IF legacy = gate THEN 1 ELSE 0) = 1

\* The client and the server agree on a legacy session: while no call changes
\* it and its connection stands, legacyMulti says whether the server is in
\* MULTI, and a session that is not is one that watches.
LegacyMatchesServer ==
    legacy # 0 /\ gateW = "none" /\ cur = sconn[legacy] =>
        /\ legacyMulti = server.multi
        /\ ~ legacyMulti => server.watch

\* An EXEC that succeeds has executed every command that somebody was told is
\* QUEUED in that session: sessions never move to another connection.
AcknowledgedIsExecuted ==
    \A c \in Callers :
        pc[c] = "wait" /\ reply[c].kind = "array" => acked[sess[c]] <= Len(reply[c].items)

\* What the client believes of its legacy session is what the server keeps, and what
\* callers were told is what EXEC has executed: the two above (transaction.go:123).
ClientAgreesWithServer == LegacyMatchesServer /\ AcknowledgedIsExecuted

=============================================================================
