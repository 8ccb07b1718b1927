------------------------- MODULE TransactionsProofs -------------------------
(* Proofs about the sessions of a client, for any callers, Transactions,       *)
(* sessions and connections.  TxInv is the inductive invariant.  It says who   *)
(* holds the locks, which session each of them speaks on, what is on the wire, *)
(* and what the server and the callers know of each other.                     *)
EXTENDS Transactions, SequenceTheorems, FiniteSetTheorems, TLAPS

Speaking == {"send", "wait"}
Owning == LegacyEnd \cup {"watch", "begin"}
Active(x) == txState[x] \in {"open", "closing"}

\* Who is where: a call has its place, and the locks have the calls that took them.
LocksOK ==
    /\ gateW # "none" => gateR = {}
    /\ \A c \in Callers :
         /\ op[c].name \in LegacyStart \cup LegacyEnd <=> gateW = c
         /\ op[c].name \in PlainNames <=> c \in gateR
         /\ op[c].name \in {"watch", "multi"} <=> legacyMu = c

PlacesOK ==
    \A c \in Callers :
       /\ pc[c] = "idle" <=> op[c].name = "none"
       /\ pc[c] = "closing" <=> op[c].name = "close"
       /\ pc[c] = "acquire" => op[c].name \in LegacyStart /\ legacy = 0
       /\ pc[c] = "plain" => op[c].name \in PlainNames /\ sess[c] = 0
       /\ op[c].name \in PlainNames \cup {"tcommand"} => op[c].kind \in CommandKinds
       /\ op[c].name \in TxNames \cup {"begin"} => op[c].tx \in Txs

ReadersOK ==
    /\ \A c \in Callers :
         c \in readers <=> pc[c] \in Speaking /\ op[c].name \in PlainNames /\ sess[c] = 0
    /\ gate # 0 => readers = {}

\* One session at a time is not finished, the one that holds the gate.
SessionsOK ==
    /\ gate <= Len(sconn)
    /\ \A s \in 1..Len(sconn) : s \in finished <=> s # gate
    /\ \A c \in Callers : sess[c] <= Len(sconn)

\* Who speaks on which session.
SpeakersOK ==
    /\ legacy # 0 => legacy = gate
    /\ \A c \in Callers :
         /\ op[c].name \in Owning => legacy = 0
         /\ pc[c] \in Speaking /\ op[c].name \in Owning => sess[c] = gate /\ gate # 0
         /\ pc[c] \in Speaking /\ op[c].name = "multi" => sess[c] = legacy /\ legacy # 0
         /\ op[c].name \in PlainNames /\ sess[c] # 0 => sess[c] = legacy \/ sess[c] \in finished
         /\ op[c].name \in TxNames =>
               /\ pc[c] \in Speaking /\ txMu[op[c].tx] = c /\ txState[op[c].tx] # "none"
               /\ sess[c] = txSess[op[c].tx] /\ sess[c] # 0
         /\ op[c].name = "begin" => txState[op[c].tx] = "none"

\* A Transaction that is not closed owns its session alone.
TransactionsOK ==
    /\ \A x \in Txs : Active(x) => txSess[x] = gate /\ gate # 0 /\ legacy = 0
    /\ \A x \in Txs : txState[x] = "closed" => txSess[x] \in finished
    /\ \A x, y \in Txs : Active(x) /\ Active(y) => x = y
    /\ \A x \in Txs, c \in Callers : Active(x) => ~ (pc[c] \in Speaking /\ op[c].name \in Owning)

\* The gate has an owner.
OwnerOK ==
    gate # 0 => \/ legacy = gate
                \/ \E x \in Txs : Active(x)
                \/ \E c \in Callers : pc[c] \in Speaking /\ op[c].name \in Owning

\* While a session holds the gate, the connection is its own or is lost; nothing
\* of a lost connection is left.
ConnOK ==
    /\ cur = 0 => Len(wire) = 0 /\ ~ server.watch /\ ~ server.multi
    /\ gate # 0 /\ cur # 0 => cur = sconn[gate]

\* Nobody can send on the session: the call that ends it, or starts its MULTI, is not
\* over, or its Transaction is closing.
Quiet ==
    \/ \E c \in Callers : pc[c] = "wait" /\ gateW = c
    \/ \E x \in Txs : /\ txState[x] = "closing"
                      /\ \A c \in Callers : op[c].name \in TxNames /\ op[c].tx = x => pc[c] = "wait"
    \/ \E c \in Callers : pc[c] = "wait" /\ op[c].name \in {"texec", "tdiscard"} /\ Active(op[c].tx)

\* A message that somebody waits for is the one request of its call.
AwaitedOK ==
    /\ \A i \in 1..Len(wire) : wire[i].by # "none" =>
          /\ pc[wire[i].by] = "wait" /\ reply[wire[i].by] = NoReply
          /\ wire[i].name = Text(op[wire[i].by]) /\ wire[i].sess = sess[wire[i].by]
    /\ \A i, j \in 1..Len(wire) : i # j /\ wire[i].by = wire[j].by => wire[i].by = "none"

\* Messages are of no session or of the one at the gate, and the former are plain.
OrderOK ==
    \A i \in 1..Len(wire) :
       wire[i].sess \in {0, gate} /\ (wire[i].sess = 0 => wire[i].name \in CommandKinds)

\* A message that is not a plain command comes last.
LastOK ==
    \A i \in 1..Len(wire) : wire[i].name \notin CommandKinds => i = Len(wire) /\ Quiet

\* State of the server belongs to the session at the gate, and so does everything
\* that is yet to come.
ServerOK ==
    /\ server.watch \/ server.multi =>
          gate # 0 /\ \A i \in 1..Len(wire) : wire[i].sess = gate
    /\ server.multi => \A i \in 1..Len(server.queue) : server.queue[i] = gate
    /\ server.multi => \A i \in 1..Len(wire) : wire[i].name # "multi"

\* A call that is about to start a session's MULTI, or its WATCH, finds none.
ReadyOK ==
    \A c \in Callers :
       /\ op[c].name = "multi" => ~ legacyMulti
       /\ pc[c] = "send" /\ op[c].name \in {"watch", "multi", "begin"} => ~ server.multi

\* Answers are for calls that wait, and QUEUED is for those on a session.
RepliesOK ==
    \A c \in Callers :
       /\ pc[c] # "wait" => reply[c] = NoReply
       /\ sess[c] = 0 => reply[c].kind # "queued" /\ reply[c].kind # "array"

\* One request at a time is under way on a session.
TurnsOK ==
    \A c, d \in Callers :
       pc[c] = "wait" /\ pc[d] = "wait" /\ sess[c] = sess[d] /\ sess[c] # 0 /\ c # d =>
          reply[c] = Failed \/ reply[d] = Failed

\* What a call knows when its request was accepted.
AcceptedOK ==
    \A c \in Callers :
       pc[c] = "wait" /\ Text(op[c]) \notin CommandKinds /\ Accepted(c) /\ sess[c] = gate =>
          /\ Len(wire) = 0
          /\ cur # 0 => /\ Text(op[c]) = "watch" => server.watch /\ ~ server.multi
                        /\ Text(op[c]) = "multi" => server.multi
          /\ Text(op[c]) \in LegacyEnd => ~ server.watch /\ ~ server.multi

\* What the client knows of its legacy session.
LegacyOK ==
    legacy # 0 /\ gateW = "none" /\ cur # 0 =>
        /\ legacyMulti = server.multi
        /\ ~ legacyMulti => server.watch

\* Sessions that are not acquired yet, or whose MULTI is yet to be served; nothing is
\* queued in them.
NotYet(s) ==
    \/ s > Len(sconn)
    \/ s = legacy /\ ~ legacyMulti
    \/ s = gate /\ \E i \in 1..Len(wire) : wire[i].name = "multi"
    \/ \E c \in Callers : pc[c] \in Speaking /\ op[c].name \in {"watch", "begin"} /\ s = sess[c]
NothingQueued(s) ==
    acked[s] = 0 /\ \A d \in Callers : sess[d] = s => reply[d].kind # "queued"
NotYetOK == \A s \in Sessions : NotYet(s) => NothingQueued(s)

\* In MULTI whatever was acknowledged, or will be, is in the queue.
QueueOK ==
    server.multi =>
        /\ acked[gate] <= Len(server.queue)
        /\ \A d \in Callers :
              sess[d] = gate /\ reply[d].kind = "queued" => acked[gate] < Len(server.queue)

\* And EXEC has executed it.
ExecutedOK ==
    \A c \in Callers : reply[c].kind = "array" => acked[sess[c]] <= Len(reply[c].items)

TxInv ==
    /\ TypeOK /\ LocksOK /\ PlacesOK /\ ReadersOK /\ SessionsOK /\ SpeakersOK /\ TransactionsOK
    /\ OwnerOK /\ ConnOK /\ AwaitedOK /\ OrderOK /\ LastOK /\ ServerOK /\ ReadyOK /\ RepliesOK
    /\ TurnsOK /\ AcceptedOK /\ LegacyOK /\ NotYetOK /\ QueueOK /\ ExecutedOK

-----------------------------------------------------------------------------
(* What the steps do, with Abort, Release and CloseConn worked out.           *)

InWire(d) == \E i \in 1..Len(wire) : wire[i].by = d

\* The connection is gone; whoever waited on it has the error.
Dropped(c) ==
    /\ cur' = 0 /\ Len(wire') = 0 /\ WireTypes' /\ ServerTypes' /\ ~ server'.watch /\ ~ server'.multi
    /\ reply' = [d \in Callers |-> IF d = c THEN NoReply
                                   ELSE IF InWire(d) THEN Failed ELSE reply[d]]
Kept(c) ==
    /\ UNCHANGED <<cur, wire, server>>
    /\ reply' = [d \in Callers |-> IF d = c THEN NoReply ELSE reply[d]]

Drops(c) == gate' = 0 /\ finished' = finished \cup {gate} /\ Dropped(c)
Frees(c) ==
    /\ gate' = 0 /\ finished' = finished \cup {gate} /\ Kept(c)
    /\ Len(wire) = 0 /\ ~ server.watch /\ ~ server.multi
Holds(c) == gate' = gate /\ finished' = finished /\ Kept(c)

Ended(c, names) ==
    /\ pc[c] = "wait" /\ op[c].name \in names /\ reply[c] # NoReply
    /\ Return(c)
    /\ UNCHANGED <<txSess, execClosed, conns, sconn>>

WatchDoes(c) ==
    /\ Ended(c, {"watch"}) /\ sess[c] = gate /\ gate # 0
    /\ \/ /\ Accepted(c) /\ Len(wire) = 0 /\ (cur # 0 => server.watch /\ ~ server.multi)
          /\ legacy' = gate /\ legacyMulti' = FALSE /\ Holds(c)
       \/ ~ Accepted(c) /\ UNCHANGED <<legacy, legacyMulti>> /\ Drops(c)
    /\ UNCHANGED <<txState, txMu, readers, acked>>
MultiDoes(c) ==
    /\ Ended(c, {"multi"}) /\ sess[c] = gate /\ gate # 0 /\ legacy = gate
    /\ \/ /\ Accepted(c) /\ Len(wire) = 0 /\ (cur # 0 => server.multi)
          /\ legacy' = gate /\ legacyMulti' = TRUE /\ Holds(c)
       \/ ~ Accepted(c) /\ legacy' = 0 /\ legacyMulti' = FALSE /\ Drops(c)
    /\ UNCHANGED <<txState, txMu, readers, acked>>
LegacyDoes(c) ==
    /\ Ended(c, LegacyEnd) /\ sess[c] = gate /\ gate # 0
    /\ \/ Accepted(c) /\ Frees(c)
       \/ ~ Accepted(c) /\ Drops(c)
    /\ UNCHANGED <<legacy, legacyMulti, txState, txMu, readers, acked>>
CommandAcks(c) ==
    acked' = IF sess[c] # 0 /\ reply[c].kind = "queued"
             THEN [acked EXCEPT ![sess[c]] = @ + 1] ELSE acked
CommandDoes(c) ==
    /\ Ended(c, PlainNames) /\ Holds(c) /\ CommandAcks(c)
    /\ readers' = readers \ {c}
    /\ UNCHANGED <<legacy, legacyMulti, txState, txMu>>
PipelineDoes(c) ==
    /\ pc[c] = "wait" /\ op[c].name = "pipeline" /\ sess[c] # 0 /\ reply[c] # NoReply
    /\ Holds(c) /\ CommandAcks(c)
    /\ pc' = [pc EXCEPT ![c] = "send"]
    /\ UNCHANGED <<op, sess, client, transactions, readers, execClosed, conns, sconn>>
BeginDoes(c) ==
    /\ pc[c] = "wait" /\ op[c].name = "begin" /\ reply[c] # NoReply /\ Return(c)
    /\ sess[c] = gate /\ gate # 0
    /\ \/ /\ Accepted(c) /\ Len(wire) = 0 /\ Holds(c)
          /\ txState' = [txState EXCEPT ![op[c].tx] = "open"]
          /\ txSess' = [txSess EXCEPT ![op[c].tx] = gate]
       \/ ~ Accepted(c) /\ Drops(c) /\ UNCHANGED <<txState, txSess>>
    /\ UNCHANGED <<legacy, legacyMulti, txMu, readers, execClosed, conns, sconn, acked>>
TransactionCommandDoes(c) ==
    /\ Ended(c, {"tcommand"}) /\ sess[c] = txSess[op[c].tx]
    /\ txMu' = [txMu EXCEPT ![op[c].tx] = "none"]
    /\ \/ /\ UNCHANGED txState /\ Holds(c)
          /\ acked' = IF reply[c].kind = "queued" /\ txState[op[c].tx] = "open"
                      THEN [acked EXCEPT ![sess[c]] = @ + 1] ELSE acked
       \/ /\ txState[op[c].tx] = "open" /\ txState' = [txState EXCEPT ![op[c].tx] = "closed"]
          /\ Drops(c) /\ UNCHANGED acked
    /\ UNCHANGED <<legacy, legacyMulti, readers>>
TransactionDoes(c) ==
    /\ Ended(c, {"texec", "tdiscard"}) /\ sess[c] = txSess[op[c].tx]
    /\ txMu' = [txMu EXCEPT ![op[c].tx] = "none"]
    /\ \/ txState[op[c].tx] # "open" /\ UNCHANGED txState /\ Holds(c)
       \/ /\ txState[op[c].tx] = "open" /\ txState' = [txState EXCEPT ![op[c].tx] = "closed"]
          /\ Accepted(c) /\ Frees(c)
       \/ /\ txState[op[c].tx] = "open" /\ txState' = [txState EXCEPT ![op[c].tx] = "closed"]
          /\ Drops(c)
    /\ UNCHANGED <<legacy, legacyMulti, readers, acked>>
CloseDoes(c) ==
    /\ legacyMu = "none" /\ Enter(c, Op("close"), "closing")
    /\ legacy' = 0 /\ legacyMulti' = FALSE
    /\ (legacy # 0 /\ Drops(c)) \/ (legacy = 0 /\ Holds(c))
    /\ UNCHANGED <<gateW, gateR, legacyMu, sess, transactions, readers, execClosed, conns, sconn,
                   acked>>
CloseExecutorDoes(c) ==
    /\ pc[c] = "closing" /\ execClosed' = TRUE /\ Dropped(c)
    /\ pc' = [pc EXCEPT ![c] = "idle"] /\ op' = [op EXCEPT ![c] = NoOp]
    /\ UNCHANGED <<sess, client, transactions, gate, readers, conns, sconn, finished, acked>>
ContextAbortsDoes(x) ==
    /\ txState[x] = "closing" /\ txState' = [txState EXCEPT ![x] = "closed"] /\ Drops("none")
    /\ UNCHANGED <<txSess, txMu, client, readers, execClosed, conns, sconn, pc, op, sess, acked>>
LoseDoes ==
    /\ Dropped("none")
    /\ UNCHANGED <<pc, op, sess, client, transactions, gate, readers, execClosed, conns, sconn,
                   finished, acked>>

\* A request is sent on no session while the gate is free, or on the session at the gate.
SendDoes(c) ==
    /\ pc[c] = "send" /\ cur # 0
    /\ \/ sess[c] = 0 /\ gate = 0 /\ op[c].name \in PlainNames /\ Text(op[c]) \in CommandKinds
       \/ /\ sess[c] = gate /\ gate # 0
          /\ \A d \in Callers : ~ (pc[d] = "wait" /\ sess[d] = gate)
    /\ Len(wire') = Len(wire) + 1 /\ WireTypes'
    /\ \A i \in 1..Len(wire) : wire'[i] = wire[i]
    /\ wire'[Len(wire) + 1] = [name |-> Text(op[c]), sess |-> sess[c], by |-> c]
    /\ pc' = [pc EXCEPT ![c] = "wait"] /\ reply' = [reply EXCEPT ![c] = NoReply]
    /\ UNCHANGED <<op, sess, client, transactions, executor, server, acked>>
GiveUpDoes(c) ==
    /\ pc[c] = "wait" /\ reply[c] = NoReply /\ reply' = [reply EXCEPT ![c] = Failed]
    /\ Len(wire') = Len(wire) /\ WireTypes'
    /\ \A i \in 1..Len(wire) :
          /\ wire'[i].name = wire[i].name /\ wire'[i].sess = wire[i].sess
          /\ wire'[i].by = IF wire[i].by = c THEN "none" ELSE wire[i].by
    /\ UNCHANGED <<pc, op, sess, client, transactions, executor, server, acked>>
\* The server takes the first request; r is what it answers.
ServeDoes(r) ==
    /\ Len(wire) > 0 /\ Len(wire') = Len(wire) - 1 /\ WireTypes' /\ ServerTypes'
    /\ \A i \in 1..Len(wire') : wire'[i] = wire[i + 1]
    /\ \/ server' = Effect(server, wire[1]) /\ r \in Answers(server, wire[1])
       \/ server' = server /\ r = Failed
    /\ Deliver(wire[1], r)
    /\ UNCHANGED <<pc, op, sess, client, transactions, executor, acked>>
\* CloseConn of the current connection.
LEMMA CloseConnDrops ==
    ASSUME TypeOK, ConnOK, NEW c, CloseConn(c, cur)
    PROVE  Dropped(c)
  <1>0. Len(wire) \in Nat /\ DOMAIN wire = 1..Len(wire)
    BY DEF TypeOK, WireTypes
  <1>1. CASE cur # 0
    <2>1. cur' = 0 /\ server' = Clean /\ wire' = <<>> /\ Settle(c, {wire[i].by : i \in DOMAIN wire})
      BY <1>1 DEF CloseConn
    <2>2. reply' = [d \in Callers |-> IF d = c THEN NoReply ELSE IF InWire(d) THEN Failed ELSE reply[d]]
      BY <1>0, <2>1 DEF Settle, InWire
    <2>3. ServerTypes' /\ ~ server'.watch /\ ~ server'.multi
      BY <2>1 DEF ServerTypes, Clean
    <2>4. Len(wire') = 0 /\ WireTypes'
      BY <2>1 DEF WireTypes
    <2> QED BY <2>1, <2>2, <2>3, <2>4 DEF Dropped
  <1>2. CASE cur = 0
    <2>1. UNCHANGED <<cur, server, wire>> /\ Settle(c, {})
      BY <1>2 DEF CloseConn, remote
    <2>2. Len(wire) = 0 /\ ~ server.watch /\ ~ server.multi
      BY <1>2 DEF ConnOK
    <2>4. reply' = [d \in Callers |-> IF d = c THEN NoReply ELSE IF InWire(d) THEN Failed ELSE reply[d]]
      BY <1>0, <2>1, <2>2 DEF Settle, InWire
    <2>5. ServerTypes' /\ WireTypes'
      BY <2>1 DEF TypeOK, ServerTypes, WireTypes
    <2> QED BY <1>2, <2>1, <2>2, <2>4, <2>5 DEF Dropped
  <1> QED BY <1>1, <1>2

\* Abort of the session at the gate.
LEMMA AbortDrops ==
    ASSUME TypeOK, ConnOK, SessionsOK, gate # 0, NEW c, Abort(c, gate)
    PROVE  Drops(c)
  <1>1. gate \in 1..Len(sconn) /\ gate \notin finished
    BY DEF TypeOK, ExecutorTypes, SessionsOK
  <1>2. CloseConn(c, sconn[gate]) /\ gate' = 0 /\ finished' = finished \cup {gate}
    BY <1>1 DEF Abort, Finish
  <1>3. CASE cur # 0
    <2>1. cur = sconn[gate]
      BY <1>3 DEF ConnOK
    <2>2. CloseConn(c, cur)
      BY <1>2, <2>1
    <2> QED BY <1>2, <2>2, CloseConnDrops DEF Drops
  <1>4. CASE cur = 0
    <2>1. CloseConn(c, cur)
      BY <1>2, <1>4 DEF CloseConn
    <2> QED BY <1>2, <2>1, CloseConnDrops DEF Drops
  <1> QED BY <1>3, <1>4

\* Release of it, of a connection that has nothing left of the session.
LEMMA ReleaseFrees ==
    ASSUME TypeOK, SessionsOK, gate # 0, NEW c, Release(c, gate),
           Len(wire) = 0, ~ server.watch, ~ server.multi
    PROVE  Frees(c)
  <1>1. gate \notin finished
    BY DEF TypeOK, ExecutorTypes, SessionsOK
  <1> QED BY <1>1 DEF Release, Finish, Settle, Frees, Kept, remote

\* A call that keeps its session leaves the gate and the connection alone.
LEMMA KeepHolds ==
    ASSUME NEW c, Keep(c)
    PROVE  Holds(c)
  BY DEF Keep, Settle, Holds, Kept, remote

\* A call that speaks on a session of its own: the one at the gate.
LEMMA OwnSession ==
    ASSUME TypeOK, SpeakersOK, NEW c \in Callers, pc[c] = "wait", op[c].name \in Owning \cup {"multi"}
    PROVE  sess[c] = gate /\ gate # 0 /\ (op[c].name = "multi" => legacy = gate)
  BY DEF SpeakersOK, Speaking

\* The Transaction of a call.
LEMMA OwnTransaction ==
    ASSUME TypeOK, PlacesOK, SpeakersOK, TransactionsOK, NEW c \in Callers, op[c].name \in TxNames
    PROVE  /\ op[c].tx \in Txs /\ sess[c] = txSess[op[c].tx]
           /\ Active(op[c].tx) => sess[c] = gate /\ gate # 0
  BY DEF PlacesOK, SpeakersOK, TransactionsOK

\* What an accepted request of the session at the gate tells its call.
LEMMA AcceptedMeans ==
    ASSUME AcceptedOK, NEW c \in Callers, pc[c] = "wait", Accepted(c), sess[c] = gate,
           op[c].name \in LegacyStart \cup LegacyEnd \cup {"texec", "tdiscard"}
    PROVE  /\ Len(wire) = 0
           /\ op[c].name = "watch" /\ cur # 0 => server.watch /\ ~ server.multi
           /\ op[c].name \in {"multi", "begin"} /\ cur # 0 => server.multi
           /\ op[c].name \in LegacyEnd \cup {"texec", "tdiscard"} => ~ server.watch /\ ~ server.multi
  <1>1. /\ Text(op[c]) \notin CommandKinds
        /\ op[c].name = "watch" => Text(op[c]) = "watch"
        /\ op[c].name \in {"multi", "begin"} => Text(op[c]) = "multi"
        /\ op[c].name \in LegacyEnd \cup {"texec", "tdiscard"} => Text(op[c]) \in LegacyEnd
    BY DEF Text, LegacyStart, LegacyEnd, PlainNames, CommandKinds
  <1> QED BY <1>1 DEF AcceptedOK

\* WATCH over: the session is the client's, or it is aborted.
LEMMA WatchEffect ==
    ASSUME TypeOK, SessionsOK, SpeakersOK, ConnOK, AcceptedOK, NEW c \in Callers, WatchEnds(c)
    PROVE  WatchDoes(c)
  <1>1. pc[c] = "wait" /\ op[c].name = "watch" /\ reply[c] # NoReply /\ Return(c)
    BY DEF WatchEnds, Answered
  <1>2. sess[c] = gate /\ gate # 0
    BY <1>1, OwnSession DEF Owning
  <1>3. CASE Accepted(c) /\ SetLegacy(sess[c]) /\ Keep(c)
    <2>1. Holds(c)
      BY <1>3, KeepHolds
    <2>2. /\ Len(wire) = 0
          /\ op[c].name = "watch" /\ cur # 0 => server.watch /\ ~ server.multi
          /\ op[c].name \in {"multi", "begin"} /\ cur # 0 => server.multi
      BY <1>1, <1>2, <1>3, AcceptedMeans DEF LegacyStart
    <2> QED BY <1>1, <1>2, <1>3, <2>1, <2>2 DEF WatchDoes, WatchEnds, Ended, SetLegacy, transactions
  <1>4. CASE ~ Accepted(c) /\ Abort(c, sess[c]) /\ UNCHANGED <<legacy, legacyMulti>>
    <2>1. Abort(c, gate)
      BY <1>2, <1>4
    <2>2. Drops(c)
      BY <1>2, <2>1, AbortDrops
    <2> QED BY <1>1, <1>2, <1>4, <2>2 DEF WatchDoes, WatchEnds, Ended, transactions
  <1> QED BY <1>3, <1>4 DEF WatchEnds

\* MULTI of the legacy session over.
LEMMA MultiEffect ==
    ASSUME TypeOK, SessionsOK, SpeakersOK, ConnOK, AcceptedOK, NEW c \in Callers, MultiEnds(c)
    PROVE  MultiDoes(c)
  <1>1. pc[c] = "wait" /\ op[c].name = "multi" /\ reply[c] # NoReply /\ Return(c)
    BY DEF MultiEnds, Answered
  <1>2. sess[c] = gate /\ gate # 0 /\ legacy = gate
    BY <1>1, OwnSession DEF Owning
  <1>3. CASE Accepted(c) /\ legacyMulti' = TRUE /\ UNCHANGED legacy /\ Keep(c)
    <2>1. Holds(c)
      BY <1>3, KeepHolds
    <2>2. /\ Len(wire) = 0
          /\ op[c].name = "watch" /\ cur # 0 => server.watch /\ ~ server.multi
          /\ op[c].name \in {"multi", "begin"} /\ cur # 0 => server.multi
      BY <1>1, <1>2, <1>3, AcceptedMeans DEF LegacyStart
    <2> QED BY <1>1, <1>2, <1>3, <2>1, <2>2 DEF MultiDoes, MultiEnds, Ended, transactions
  <1>4. CASE ~ Accepted(c) /\ Abort(c, sess[c]) /\ SetLegacy(0)
    <2>1. Abort(c, gate)
      BY <1>2, <1>4
    <2>2. Drops(c)
      BY <1>2, <2>1, AbortDrops
    <2> QED BY <1>1, <1>2, <1>4, <2>2 DEF MultiDoes, MultiEnds, Ended, SetLegacy, transactions
  <1> QED BY <1>3, <1>4 DEF MultiEnds

\* EXEC, DISCARD or UNWATCH over: the legacy session is released or aborted.
LEMMA LegacyEffect ==
    ASSUME TypeOK, SessionsOK, SpeakersOK, ConnOK, AcceptedOK, NEW c \in Callers, LegacyEnds(c)
    PROVE  LegacyDoes(c)
  <1>1. pc[c] = "wait" /\ op[c].name \in LegacyEnd /\ reply[c] # NoReply /\ Return(c)
    BY DEF LegacyEnds, Answered
  <1>2. sess[c] = gate /\ gate # 0
    BY <1>1, OwnSession DEF Owning
  <1>3. CASE Accepted(c)
    <2>1. Release(c, gate)
      BY <1>2, <1>3 DEF LegacyEnds
    <2>0. Len(wire) = 0 /\ ~ server.watch /\ ~ server.multi
      BY <1>1, <1>2, <1>3, AcceptedMeans
    <2>2. Frees(c)
      BY <1>2, <2>0, <2>1, ReleaseFrees
    <2> QED BY <1>1, <1>2, <1>3, <2>2 DEF LegacyDoes, LegacyEnds, Ended, transactions
  <1>4. CASE ~ Accepted(c)
    <2>1. Abort(c, gate)
      BY <1>2, <1>4 DEF LegacyEnds
    <2>2. Drops(c)
      BY <1>2, <2>1, AbortDrops
    <2> QED BY <1>1, <1>2, <1>4, <2>2 DEF LegacyDoes, LegacyEnds, Ended, transactions
  <1> QED BY <1>3, <1>4

\* A plain command, or a pipeline, over.
LEMMA CommandEffect ==
    ASSUME NEW c \in Callers, CommandEnds(c)
    PROVE  CommandDoes(c) \/ PipelineDoes(c)
  <1>1. pc[c] = "wait" /\ op[c].name \in PlainNames /\ reply[c] # NoReply /\ Keep(c) /\ CommandAcks(c)
    BY DEF CommandEnds, Answered, PlainNames, CommandAcks
  <1>2. Holds(c)
    BY <1>1, KeepHolds
  <1>3. CASE Return(c) /\ readers' = readers \ {c}
    BY <1>1, <1>2, <1>3 DEF CommandDoes, CommandEnds, Ended, transactions
  <1>4. CASE /\ op[c].name = "pipeline" /\ sess[c] # 0 /\ pc' = [pc EXCEPT ![c] = "send"]
             /\ UNCHANGED <<op, sess, gateW, gateR, legacyMu, readers>>
    BY <1>1, <1>2, <1>4 DEF PipelineDoes, CommandEnds, transactions, client
  <1> QED BY <1>3, <1>4 DEF CommandEnds

\* MULTI of a new Transaction over: it is open, or its session is aborted.
LEMMA BeginEffect ==
    ASSUME TypeOK, SessionsOK, SpeakersOK, ConnOK, AcceptedOK, NEW c \in Callers, TransactionBegins(c)
    PROVE  BeginDoes(c)
  <1>1. pc[c] = "wait" /\ op[c].name = "begin" /\ reply[c] # NoReply /\ Return(c)
    BY DEF TransactionBegins, Answered
  <1>2. sess[c] = gate /\ gate # 0
    BY <1>1, OwnSession DEF Owning
  <1>3. CASE /\ Accepted(c) /\ Keep(c)
             /\ txState' = [txState EXCEPT ![op[c].tx] = "open"]
             /\ txSess' = [txSess EXCEPT ![op[c].tx] = sess[c]]
    <2>1. Holds(c)
      BY <1>3, KeepHolds
    <2>2. /\ Len(wire) = 0
          /\ op[c].name = "watch" /\ cur # 0 => server.watch /\ ~ server.multi
          /\ op[c].name \in {"multi", "begin"} /\ cur # 0 => server.multi
      BY <1>1, <1>2, <1>3, AcceptedMeans DEF LegacyStart
    <2> QED BY <1>1, <1>2, <1>3, <2>1, <2>2 DEF BeginDoes, TransactionBegins
  <1>4. CASE ~ Accepted(c) /\ Abort(c, sess[c]) /\ UNCHANGED <<txState, txSess>>
    <2>1. Abort(c, gate)
      BY <1>2, <1>4
    <2>2. Drops(c)
      BY <1>2, <2>1, AbortDrops
    <2> QED BY <1>1, <1>2, <1>4, <2>2 DEF BeginDoes, TransactionBegins
  <1> QED BY <1>3, <1>4 DEF TransactionBegins

\* A command of a Transaction over.
LEMMA TransactionCommandEffect ==
    ASSUME TypeOK, PlacesOK, SessionsOK, SpeakersOK, TransactionsOK, ConnOK,
           NEW c \in Callers, TransactionCommandEnds(c)
    PROVE  TransactionCommandDoes(c)
  <1>1. pc[c] = "wait" /\ op[c].name = "tcommand" /\ reply[c] # NoReply /\ Return(c)
    BY DEF TransactionCommandEnds, Answered
  <1>2. op[c].tx \in Txs /\ sess[c] = txSess[op[c].tx] /\ (Active(op[c].tx) => sess[c] = gate /\ gate # 0)
    BY <1>1, OwnTransaction DEF TxNames
  <1>3. CASE reply[c].kind = "queued" \/ RefusedLocally(c)
    <2>1. Holds(c)
      BY <1>3, KeepHolds DEF TransactionCommandEnds
    <2> QED BY <1>1, <1>2, <1>3, <2>1 DEF TransactionCommandDoes, TransactionCommandEnds, Ended
  <1>4. CASE ~ (reply[c].kind = "queued" \/ RefusedLocally(c)) /\ txState[op[c].tx] # "open"
    <2>1. Holds(c)
      BY <1>4, KeepHolds DEF TransactionCommandEnds, CloseTx
    <2> QED BY <1>1, <1>2, <1>4, <2>1 DEF TransactionCommandDoes, TransactionCommandEnds, Ended,
       CloseTx
  <1>5. CASE ~ (reply[c].kind = "queued" \/ RefusedLocally(c)) /\ txState[op[c].tx] = "open"
    <2>1. txSess[op[c].tx] = gate /\ gate # 0
      BY <1>2, <1>5 DEF Active
    <2>2. Abort(c, txSess[op[c].tx])
      BY <1>5 DEF TransactionCommandEnds, CloseTx
    <2>3. Abort(c, gate)
      BY <2>1, <2>2
    <2>4. Drops(c)
      BY <2>1, <2>3, AbortDrops
    <2> QED BY <1>1, <1>2, <1>5, <2>4 DEF TransactionCommandDoes, TransactionCommandEnds, Ended,
       CloseTx
  <1> QED BY <1>3, <1>4, <1>5

\* EXEC or DISCARD of a Transaction over: its session is released or aborted.
LEMMA TransactionEffect ==
    ASSUME TypeOK, PlacesOK, SessionsOK, SpeakersOK, TransactionsOK, ConnOK, AcceptedOK,
           NEW c \in Callers, TransactionEnds(c)
    PROVE  TransactionDoes(c)
  <1>1. /\ pc[c] = "wait" /\ op[c].name \in {"texec", "tdiscard"} /\ reply[c] # NoReply /\ Return(c)
        /\ CloseTx(c, Accepted(c))
    BY DEF TransactionEnds, Answered
  <1>2. op[c].tx \in Txs /\ sess[c] = txSess[op[c].tx] /\ (Active(op[c].tx) => sess[c] = gate /\ gate # 0)
    BY <1>1, OwnTransaction DEF TxNames
  <1>3. CASE txState[op[c].tx] # "open"
    <2>1. Holds(c)
      BY <1>1, <1>3, KeepHolds DEF CloseTx
    <2> QED BY <1>1, <1>2, <1>3, <2>1 DEF TransactionDoes, TransactionEnds, Ended, CloseTx
  <1>4. CASE txState[op[c].tx] = "open" /\ Accepted(c)
    <2>1. txSess[op[c].tx] = gate /\ gate # 0
      BY <1>2, <1>4 DEF Active
    <2>2. Release(c, txSess[op[c].tx])
      BY <1>1, <1>4 DEF CloseTx
    <2>3. Release(c, gate)
      BY <2>1, <2>2
    <2>0. Len(wire) = 0 /\ ~ server.watch /\ ~ server.multi
      BY <1>1, <1>2, <1>4, <2>1, AcceptedMeans
    <2>4. Frees(c)
      BY <2>0, <2>1, <2>3, ReleaseFrees
    <2> QED BY <1>1, <1>2, <1>4, <2>4 DEF TransactionDoes, TransactionEnds, Ended, CloseTx
  <1>5. CASE txState[op[c].tx] = "open" /\ ~ Accepted(c)
    <2>1. txSess[op[c].tx] = gate /\ gate # 0
      BY <1>2, <1>5 DEF Active
    <2>2. Abort(c, txSess[op[c].tx])
      BY <1>1, <1>5 DEF CloseTx
    <2>3. Abort(c, gate)
      BY <2>1, <2>2
    <2>4. Drops(c)
      BY <2>1, <2>3, AbortDrops
    <2> QED BY <1>1, <1>2, <1>5, <2>4 DEF TransactionDoes, TransactionEnds, Ended, CloseTx
  <1> QED BY <1>3, <1>4, <1>5

\* Client.Close aborts the legacy session.
LEMMA CloseEffect ==
    ASSUME TypeOK, SessionsOK, SpeakersOK, ConnOK, NEW c \in Callers, Close(c)
    PROVE  CloseDoes(c)
  <1>1. CASE legacy # 0
    <2>1. legacy = gate /\ gate # 0
      BY <1>1 DEF SpeakersOK
    <2>2. Abort(c, gate)
      BY <1>1, <2>1 DEF Close
    <2>3. Drops(c)
      BY <2>1, <2>2, AbortDrops
    <2> QED BY <1>1, <2>3 DEF Close, CloseDoes, SetLegacy
  <1>2. CASE legacy = 0
    <2>1. Holds(c)
      BY <1>2, KeepHolds DEF Close
    <2> QED BY <1>2, <2>1 DEF Close, CloseDoes, SetLegacy
  <1> QED BY <1>1, <1>2

\* Close of the executor drops the connection.
LEMMA CloseExecutorEffect ==
    ASSUME TypeOK, ConnOK, NEW c \in Callers, CloseExecutor(c)
    PROVE  CloseExecutorDoes(c)
  <1>1. Dropped(c)
    BY CloseConnDrops DEF CloseExecutor
  <1> QED BY <1>1 DEF CloseExecutor, CloseExecutorDoes

\* The end of a Transaction's context aborts its session.
LEMMA ContextAbortsEffect ==
    ASSUME TypeOK, SessionsOK, TransactionsOK, ConnOK, NEW x \in Txs, ContextAborts(x)
    PROVE  ContextAbortsDoes(x)
  <1>1. txSess[x] = gate /\ gate # 0
    BY DEF ContextAborts, TransactionsOK, Active
  <1>2. Abort("none", txSess[x])
    BY DEF ContextAborts
  <1>3. Abort("none", gate)
    BY <1>1, <1>2
  <1>4. Drops("none")
    BY <1>1, <1>3, AbortDrops
  <1> QED BY <1>4 DEF ContextAborts, ContextAbortsDoes

\* A lost connection fails everybody who waits on it.
LEMMA LoseEffect ==
    ASSUME TypeOK, ConnOK, Lose
    PROVE  LoseDoes
  <1>1. Dropped("none")
    BY CloseConnDrops DEF Lose
  <1> QED BY <1>1 DEF Lose, LoseDoes

\* The text of a request under way.
LEMMA TextOf ==
    ASSUME TypeOK, PlacesOK, NEW c \in Callers, pc[c] \in Speaking
    PROVE  Text(op[c]) \in {"watch", "multi", "unwatch", "exec", "discard", "set", "blpop", "foreign"}
  <1>1. op[c].name \in LegacyStart \cup LegacyEnd \cup PlainNames \cup TxNames
    BY DEF TypeOK, CallTypes, PlacesOK, Ops, Speaking
  <1>2. op[c].name \in PlainNames \cup {"tcommand"} => op[c].kind \in CommandKinds
    BY DEF PlacesOK
  <1> QED BY <1>1, <1>2 DEF Text, LegacyStart, LegacyEnd, PlainNames, TxNames, CommandKinds

\* A request is the last message of the wire.
LEMMA SendEffect ==
    ASSUME TypeOK, PlacesOK, ReadersOK, SessionsOK, SpeakersOK, NEW c \in Callers, Send(c)
    PROVE  SendDoes(c)
  <1> DEFINE m == [name |-> Text(op[c]), sess |-> sess[c], by |-> c]
  <1>1. pc[c] = "send" /\ Usable(c) /\ wire' = Append(wire, m)
    BY DEF Send
  <1>2. m \in Messages
    BY <1>1, TextOf DEF Speaking, Messages, TypeOK, CallTypes
  <1>3. wire \in Seq(Messages)
    BY DEF TypeOK, WireTypes
  <1> HIDE DEF m
  <1>4. /\ Len(wire') = Len(wire) + 1 /\ wire' \in Seq(Messages)
        /\ \A i \in 1..Len(wire) : wire'[i] = wire[i]
        /\ wire'[Len(wire) + 1] = m
    BY <1>1, <1>2, <1>3, AppendProperties
  <1>5. CASE sess[c] = 0
    <2>1. op[c].name \in PlainNames
      BY <1>1, <1>5 DEF SpeakersOK, PlacesOK, TypeOK, CallTypes, Ops, Owning, LegacyStart,
         LegacyEnd, TxNames, Speaking
    <2>2. c \in readers /\ gate = 0
      BY <1>1, <1>5, <2>1 DEF ReadersOK, Speaking
    <2>3. Text(op[c]) \in CommandKinds
      BY <2>1 DEF PlacesOK, Text, PlainNames
    <2>4. cur # 0
      BY <1>1, <1>5 DEF Usable
    <2> QED BY <1>4, <1>5, <2>1, <2>2, <2>3, <2>4 DEF Send, SendDoes, WireTypes, m
  <1>6. CASE sess[c] # 0
    <2>1. sess[c] \in 1..Len(sconn) /\ sess[c] \notin finished /\ cur = sconn[sess[c]]
      BY <1>1, <1>6 DEF Usable, TypeOK, CallTypes, ExecutorTypes, SessionsOK
    <2>2. sess[c] = gate
      BY <2>1 DEF SessionsOK
    <2>3. sconn[sess[c]] \in Conns
      BY <2>1 DEF TypeOK, ExecutorTypes
    <2>4. cur # 0
      BY <2>1, <2>3, TransactionConstants DEF Conns
    <2> QED BY <1>4, <1>6, <2>2, <2>4 DEF Send, SendDoes, WireTypes, m
  <1> QED BY <1>5, <1>6

\* A call that gives up leaves its message to nobody.
LEMMA GiveUpEffect ==
    ASSUME TypeOK, NEW c \in Callers, GiveUpWaiting(c)
    PROVE  GiveUpDoes(c)
  <1> DEFINE g(i) == [name |-> wire[i].name, sess |-> wire[i].sess,
                      by |-> IF wire[i].by = c THEN "none" ELSE wire[i].by]
  <1>1. wire \in Seq(Messages) /\ DOMAIN wire = 1..Len(wire) /\ Len(wire) \in Nat
    BY DEF TypeOK, WireTypes
  <1>2. \A i \in 1..Len(wire) : g(i) \in Messages
    <2> SUFFICES ASSUME NEW i \in 1..Len(wire) PROVE g(i) \in Messages
      OBVIOUS
    <2>1. wire[i] \in Messages
      BY <1>1
    <2> QED BY <2>1 DEF Messages
  <1>3. wire' = [i \in 1..Len(wire) |-> g(i)]
    BY <1>1 DEF GiveUpWaiting
  <1>4. \A i \in 1..Len(wire) : /\ g(i).name = wire[i].name /\ g(i).sess = wire[i].sess
                                /\ g(i).by = IF wire[i].by = c THEN "none" ELSE wire[i].by
    OBVIOUS
  <1> HIDE DEF g
  <1>5. wire' \in Seq(Messages) /\ Len(wire') = Len(wire) /\ \A i \in 1..Len(wire) : wire'[i] = g(i)
    BY <1>1, <1>2, <1>3
  <1> QED BY <1>4, <1>5 DEF GiveUpWaiting, GiveUpDoes, WireTypes

\* The server takes the first message and answers whoever waits for it.
LEMMA ServeEffect ==
    ASSUME TypeOK, Serve
    PROVE  \E r \in Replies : ServeDoes(r)
  <1> DEFINE m == wire[1]
  <1>1. wire \in Seq(Messages) /\ wire # <<>> /\ wire' = Tail(wire)
    BY DEF TypeOK, WireTypes, Serve
  <1>2. /\ Len(wire) > 0 /\ Len(wire') = Len(wire) - 1 /\ wire' \in Seq(Messages)
        /\ \A i \in 1..Len(wire') : wire'[i] = wire[i + 1]
    BY <1>1, HeadTailProperties, EmptySeq, LenProperties
  <1>3. m = Head(wire) /\ m \in Messages
    BY <1>1, <1>2
  <1>4. server \in [watch : BOOLEAN, multi : BOOLEAN, bad : BOOLEAN, queue : Seq(0..MaxSessions)]
    BY DEF TypeOK, ServerTypes
  <1>5. Answers(server, m) \subseteq Replies /\ Failed \in Replies
    <2>1. server.queue \in Seq(0..MaxSessions) /\ <<>> \in Seq(0..MaxSessions)
      BY <1>4
    <2>2. \A k \in {"err", "odd", "ok", "value", "queued", "nil"} : Reply(k) \in Replies
      BY <2>1 DEF Reply, Replies
    <2>3. [kind |-> "array", items |-> server.queue] \in Replies
      BY <2>1 DEF Replies
    <2>4. Answer(server, m) \in Replies
      BY <2>2, <2>3 DEF Answer, Failed
    <2> QED BY <2>2, <2>4 DEF Answers, Failed
  <1> HIDE DEF m
  <1>6. Effect(server, m) \in [watch : BOOLEAN, multi : BOOLEAN, bad : BOOLEAN, queue : Seq(0..MaxSessions)]
    <2>1. m.sess \in 0..MaxSessions
      BY <1>3 DEF Messages
    <2>2. <<>> \in Seq(0..MaxSessions) /\ Append(server.queue, m.sess) \in Seq(0..MaxSessions)
      BY <1>4, <2>1, AppendProperties
    <2> DEFINE q == Append(server.queue, m.sess)
    <2> HIDE DEF q
    <2> QED BY <1>4, <2>2 DEF Effect, Clean, q
  <1>7. PICK r \in Replies : /\ Deliver(m, r)
                             /\ \/ server' = Effect(server, m) /\ r \in Answers(server, m)
                                \/ server' = server /\ r = Failed
    BY <1>3, <1>5, Zenon DEF Serve
  <1>8. ServerTypes' /\ WireTypes'
    BY <1>2, <1>4, <1>6, <1>7 DEF ServerTypes, WireTypes
  <1>9. UNCHANGED <<pc, op, sess, client, transactions, executor, acked>>
    BY DEF Serve
  <1>10. ServeDoes(r)
    BY <1>2, <1>7, <1>8, <1>9, Zenon DEF ServeDoes, m
  <1> QED BY <1>10

\* Every step is one of these.
Enters(c) ==
    \/ Watch(c) \/ Multi(c) \/ TakeLegacy(c)
    \/ \E x \in Txs : BeginTransaction(c, x)
    \/ \E o \in Plain : UseClient(c, o)
    \/ \E o \in TxOps : UseTransaction(c, o)
Acquires(c) == Acquire(c) \/ AcquireFails(c) \/ AcquirePlain(c) \/ CannotSend(c)
Talks(c) == SendDoes(c) \/ GiveUpDoes(c)
SessionDoes(c) == WatchDoes(c) \/ MultiDoes(c) \/ LegacyDoes(c) \/ BeginDoes(c)
PlainDoes(c) == CommandDoes(c) \/ PipelineDoes(c)
TxDoes(c) == TransactionCommandDoes(c) \/ TransactionDoes(c)
Closes(c) == CloseDoes(c) \/ CloseExecutorDoes(c)
Breaks ==
    \/ \E x \in Txs : ContextEnds(x) \/ ContextAbortsDoes(x)
    \/ LoseDoes
    \/ UNCHANGED vars
StepDoes ==
    \/ \E c \in Callers :
         \/ Enters(c) \/ Acquires(c) \/ Talks(c) \/ Closes(c)
         \/ SessionDoes(c) \/ PlainDoes(c) \/ TxDoes(c)
    \/ \E r \in Replies : ServeDoes(r)
    \/ Breaks

\* Every step does one of the above.
LEMMA Steps ==
    ASSUME TypeOK, PlacesOK, ReadersOK, SessionsOK, SpeakersOK, TransactionsOK, ConnOK,
           AcceptedOK, [Next]_vars
    PROVE  StepDoes
  <1>1. CASE UNCHANGED vars
    BY <1>1 DEF StepDoes, Breaks
  <1>2. CASE Next
    BY <1>2, WatchEffect, MultiEffect, LegacyEffect, CommandEffect, BeginEffect,
       TransactionCommandEffect,
       TransactionEffect, CloseEffect, CloseExecutorEffect, ContextAbortsEffect, LoseEffect,
       SendEffect, GiveUpEffect, ServeEffect
       DEF Next, StepDoes, Enters, Acquires, Talks, Closes, SessionDoes, PlainDoes, TxDoes, Breaks
  <1> QED BY <1>1, <1>2

\* Replies that are told apart.
LEMMA ReplyFacts ==
    /\ NoReply \in Replies /\ Failed \in Replies /\ NoReply # Failed
    /\ NoReply.kind = "none" /\ Failed.kind = "err"
  BY DEF NoReply, Failed, Reply, Replies

\* What every leaf below may use of the constants and of the replies.
LEMMA Basics ==
    /\ "none" \notin Callers /\ "none" \notin Txs
    /\ MaxSessions \in Nat /\ MaxConns \in Nat /\ MaxWire \in Nat /\ MaxQueue \in Nat
    /\ NoReply \in Replies /\ Failed \in Replies /\ NoReply # Failed
    /\ NoReply.kind = "none" /\ Failed.kind = "err"
  BY TransactionConstants, ReplyFacts

\* A call under way on no session is a plain one.
LEMMA NoSession ==
    ASSUME TypeOK, PlacesOK, SpeakersOK, NEW c \in Callers, pc[c] \in Speaking, sess[c] = 0
    PROVE  op[c].name \in PlainNames /\ Text(op[c]) \in CommandKinds
  <1>1. op[c].name \in PlainNames
    BY DEF SpeakersOK, PlacesOK, TypeOK, CallTypes, Ops, Owning, LegacyStart, LegacyEnd, TxNames,
       Speaking
  <1> QED BY <1>1 DEF PlacesOK, Text, PlainNames

\* Who speaks on the session at the gate.
LEMMA SpeakerKinds ==
    ASSUME TypeOK, LocksOK, PlacesOK, SessionsOK, SpeakersOK, TransactionsOK,
           NEW c \in Callers, pc[c] \in Speaking, sess[c] = gate, gate # 0
    PROVE  \/ gateW = c /\ \A x \in Txs : ~ Active(x)
           \/ op[c].name \in PlainNames /\ gateW = "none" /\ legacy = gate /\ \A x \in Txs : ~ Active(x)
           \/ op[c].name \in TxNames /\ op[c].tx \in Txs /\ Active(op[c].tx) /\ txMu[op[c].tx] = c /\ legacy = 0
  <1>1. gate \notin finished
    BY DEF SessionsOK, TypeOK, ExecutorTypes
  <1>2. CASE op[c].name \in LegacyStart \cup LegacyEnd
    <2>1. gateW = c
      BY <1>2 DEF LocksOK
    <2>2. \A x \in Txs : ~ Active(x)
      BY <1>2 DEF SpeakersOK, TransactionsOK, Owning, LegacyStart, LegacyEnd
    <2> QED BY <2>1, <2>2
  <1>3. CASE op[c].name \in PlainNames
    <2>1. gateW = "none"
      BY <1>3 DEF LocksOK
    <2>2. legacy = gate
      BY <1>1, <1>3 DEF SpeakersOK
    <2>3. \A x \in Txs : ~ Active(x)
      BY <2>2 DEF TransactionsOK
    <2> QED BY <1>3, <2>1, <2>2, <2>3
  <1>4. CASE op[c].name \in TxNames
    <2>1. op[c].tx \in Txs /\ txMu[op[c].tx] = c /\ txState[op[c].tx] # "none" /\ txSess[op[c].tx] = gate
      BY <1>4 DEF SpeakersOK, PlacesOK
    <2>2. Active(op[c].tx)
      BY <1>1, <2>1 DEF TransactionsOK, Active, TypeOK, ClientTypes
    <2> QED BY <1>4, <2>1, <2>2 DEF TransactionsOK
  <1> QED BY <1>2, <1>3, <1>4 DEF PlacesOK, TypeOK, CallTypes, Ops, Speaking

\* Somebody who may send on the session breaks its silence.
LEMMA NotQuiet ==
    ASSUME TypeOK, LocksOK, PlacesOK, SessionsOK, SpeakersOK, TransactionsOK,
           NEW c \in Callers, pc[c] = "send", sess[c] = gate, gate # 0
    PROVE  ~ Quiet
  <1>0. "none" \notin Callers
    BY TransactionConstants
  <1>1. \/ gateW = c /\ \A x \in Txs : ~ Active(x)
        \/ op[c].name \in PlainNames /\ gateW = "none" /\ legacy = gate /\ \A x \in Txs : ~ Active(x)
        \/ op[c].name \in TxNames /\ op[c].tx \in Txs /\ Active(op[c].tx) /\ txMu[op[c].tx] = c /\ legacy = 0
    BY SpeakerKinds DEF Speaking
  <1>2. ASSUME NEW d \in Callers, pc[d] = "wait", gateW = d PROVE FALSE
    <2>1. op[d].name \in LegacyStart \cup LegacyEnd
      BY <1>2 DEF LocksOK
    <2>2. \/ op[d].name = "multi" /\ legacy # 0
          \/ \A x \in Txs : ~ Active(x)
      BY <1>2, <2>1 DEF SpeakersOK, TransactionsOK, Owning, LegacyStart, LegacyEnd, Speaking
    <2> QED BY <1>0, <1>1, <1>2, <2>2
  <1>3. ASSUME NEW x \in Txs, txState[x] = "closing",
               \A d \in Callers : op[d].name \in TxNames /\ op[d].tx = x => pc[d] = "wait"
        PROVE  FALSE
    <2>1. Active(x)
      BY <1>3 DEF Active
    <2>2. op[c].name \in TxNames /\ op[c].tx = x
      BY <1>1, <2>1 DEF TransactionsOK
    <2> QED BY <1>3, <2>2
  <1>4. ASSUME NEW d \in Callers, pc[d] = "wait", op[d].name \in {"texec", "tdiscard"}, Active(op[d].tx)
        PROVE  FALSE
    <2>1. op[d].tx \in Txs /\ txMu[op[d].tx] = d
      BY <1>4 DEF PlacesOK, SpeakersOK, TxNames
    <2>2. op[c].tx = op[d].tx /\ txMu[op[c].tx] = c
      BY <1>1, <1>4, <2>1 DEF TransactionsOK
    <2> QED BY <1>4, <2>1, <2>2
  <1> QED BY <1>2, <1>3, <1>4 DEF Quiet

\* A message that is not a plain command is of the session at the gate, and last.
LEMMA SpecialMessage ==
    ASSUME TypeOK, OrderOK, LastOK, NEW i \in 1..Len(wire), wire[i].name \notin CommandKinds
    PROVE  wire[i].sess = gate /\ gate # 0 /\ i = Len(wire) /\ Quiet
  <1>1. wire[i].sess \in {0, gate} /\ wire[i].sess # 0
    BY DEF OrderOK
  <1> QED BY <1>1 DEF LastOK

\* Nothing happens but to c: what the others have, and the wire, is as it was.
Elsewhere(c) ==
    /\ wire' = wire
    /\ \A d \in Callers : d # c =>
          pc'[d] = pc[d] /\ op'[d] = op[d] /\ sess'[d] = sess[d] /\ reply'[d] = reply[d]

\* A step of a call that awaits nothing keeps AwaitedOK.
LEMMA AwaitedStays ==
    ASSUME TypeOK, AwaitedOK, NEW c \in Callers, pc[c] # "wait" \/ reply[c] # NoReply,
           Len(wire') = 0 \/ Elsewhere(c)
    PROVE  AwaitedOK'
  <1>1. CASE Len(wire') = 0
    BY <1>1 DEF AwaitedOK
  <1>2. CASE Elsewhere(c)
    <2>1. \A i \in 1..Len(wire) : wire[i] \in Messages
      BY DEF TypeOK, WireTypes
    <2>2. \A i \in 1..Len(wire) : wire[i].by \in Callers \cup {"none"}
      BY <2>1 DEF Messages
    <2>3. \A i \in 1..Len(wire) : wire[i].by # "none" => wire[i].by \in Callers /\ wire[i].by # c
      BY <2>2 DEF AwaitedOK
    <2> QED BY <1>2, <2>3 DEF AwaitedOK, Elsewhere
  <1> QED BY <1>1, <1>2

\* A step of a call that is no part of the silence leaves it.
Uninvolved(c) ==
    /\ wire' = wire /\ txState' = txState
    /\ \A d \in Callers : d # c => pc'[d] = pc[d] /\ op'[d] = op[d]
    /\ gateW \notin {"none", c} => gateW' = gateW
    /\ ~ (pc[c] = "wait" /\ gateW = c)
    /\ ~ (pc[c] = "wait" /\ op[c].name \in {"texec", "tdiscard"} /\ Active(op[c].tx))
    /\ op'[c].name \in TxNames => pc'[c] = "wait"

\* A step that leaves the callers who are to send last alone keeps LastOK.
LEMMA LastStays ==
    ASSUME LastOK, NEW c \in Callers, Len(wire') = 0 \/ Uninvolved(c)
    PROVE  LastOK'
  <1>0. "none" \notin Callers
    BY TransactionConstants
  <1>1. CASE Len(wire') = 0
    BY <1>1 DEF LastOK
  <1>2. CASE Uninvolved(c)
    <2>1. ASSUME \E d \in Callers : pc[d] = "wait" /\ gateW = d PROVE Quiet'
      BY <1>0, <1>2, <2>1 DEF Quiet, Uninvolved
    <2>2. ASSUME \E x \in Txs : /\ txState[x] = "closing"
                              /\ \A d \in Callers : op[d].name \in TxNames /\ op[d].tx = x => pc[d] = "wait"
          PROVE  Quiet'
      BY <1>2, <2>2 DEF Quiet, Uninvolved
    <2>3. ASSUME \E d \in Callers : pc[d] = "wait" /\ op[d].name \in {"texec", "tdiscard"} /\ Active(op[d].tx)
          PROVE  Quiet'
      BY <1>2, <2>3 DEF Quiet, Active, Uninvolved
    <2>4. Quiet => Quiet'
      BY <2>1, <2>2, <2>3 DEF Quiet
    <2> QED BY <1>2, <2>4 DEF LastOK, Uninvolved
  <1> QED BY <1>1, <1>2

\* What the server does with a request, and what it tells by its answer.
Taken(m) == server'.multi /\ server'.queue = Append(server.queue, m.sess)
ServeMeans(m, r) ==
    /\ m.name \in CommandKinds => (server'.watch <=> server.watch) /\ (server'.multi <=> server.multi)
    /\ server'.watch => server.watch \/ m.name = "watch"
    /\ server'.multi =>
          \/ server.multi /\ (server'.queue = server.queue \/ Taken(m))
          \/ ~ server.multi /\ m.name = "multi" /\ server'.queue = <<>>
    /\ r.kind = "queued" => m.name = "set" /\ server.multi /\ Taken(m)
    /\ r.kind = "array" => m.name = "exec" /\ server.multi /\ r.items = server.queue
    /\ r.kind \in {"array", "nil"} => m.name = "exec" /\ ~ server'.watch /\ ~ server'.multi
    /\ r.kind = "ok" =>
          /\ m.name = "watch" => server'.watch /\ ~ server'.multi
          /\ m.name = "multi" => server'.multi
          /\ m.name \in {"unwatch", "discard"} => ~ server'.watch /\ ~ server'.multi

\* What a served message leaves of the server's state.
LEMMA Serving ==
    ASSUME TypeOK, NEW r \in Replies, ServeDoes(r)
    PROVE  ServeMeans(wire[1], r)
  <1> DEFINE m == wire[1]
  <1>0. m \in Messages
    BY DEF TypeOK, WireTypes, ServeDoes
  <1>1. server \in [watch : BOOLEAN, multi : BOOLEAN, bad : BOOLEAN, queue : Seq(0..MaxSessions)]
    BY DEF TypeOK, ServerTypes
  <1>2. CASE server' = server /\ r = Failed
    BY <1>2, ReplyFacts DEF ServeMeans
  <1>3. CASE server' = Effect(server, m) /\ r \in Answers(server, m)
    <2>1. \/ r = Answer(server, m)
          \/ r.kind = "odd"
          \/ m.name = "exec" /\ server.multi /\ r.kind = "nil"
      BY <1>3 DEF Answers, Reply
    <2> SUFFICES ServeMeans(m, r)
      OBVIOUS
    <2> HIDE DEF m
    <2>2. m.name \in {"watch", "multi", "unwatch", "exec", "discard", "set", "blpop", "foreign"}
      BY <1>0 DEF Messages
    <2>3. CASE ~ Allowed(server, m)
      <3>1. /\ server'.watch = server.watch /\ server'.multi = server.multi
            /\ server'.queue = server.queue
        BY <1>3, <2>3 DEF Effect
      <3>2. r.kind \in {"err", "odd"}
        BY <2>1, <2>3, ReplyFacts DEF Answer, Allowed
      <3> QED BY <3>1, <3>2 DEF ServeMeans
    <2>4. CASE Allowed(server, m) /\ m.name \in {"exec", "discard"}
      <3>1. ~ server'.watch /\ ~ server'.multi /\ server.multi
        BY <1>3, <2>4 DEF Effect, Clean, Allowed
      <3>2. /\ r.kind \in {"array", "nil"} => m.name = "exec"
            /\ r.kind = "array" => r.items = server.queue
            /\ r.kind # "queued"
        BY <2>1, <2>4, ReplyFacts DEF Answer, Reply, CommandKinds
      <3> QED BY <2>4, <3>1, <3>2 DEF ServeMeans, CommandKinds
    <2>5. CASE Allowed(server, m) /\ m.name \in CommandKinds
      <3>1. /\ server'.watch = server.watch /\ server'.multi = server.multi
            /\ server'.queue = IF server.multi THEN Append(server.queue, m.sess) ELSE server.queue
        BY <1>3, <2>5 DEF Effect, CommandKinds
      <3>2. /\ r.kind \in {"queued", "value", "odd", "err"}
            /\ r.kind = "queued" => m.name = "set" /\ server.multi
        BY <2>1, <2>5, ReplyFacts DEF Answer, Reply, CommandKinds
      <3> QED BY <2>5, <3>1, <3>2 DEF ServeMeans, Taken, CommandKinds
    <2>6. CASE Allowed(server, m) /\ m.name \in {"watch", "multi", "unwatch"}
      <3>1. /\ server'.watch = (IF m.name = "watch" THEN TRUE
                               ELSE IF m.name = "unwatch" THEN FALSE ELSE server.watch)
            /\ server'.multi = (m.name = "multi") /\ server'.queue = <<>> /\ ~ server.multi
        BY <1>3, <2>6 DEF Effect, Allowed, CommandKinds
      <3>2. r.kind \in {"ok", "odd", "err"}
        BY <2>1, <2>6, ReplyFacts DEF Answer, Reply, CommandKinds
      <3> QED BY <1>1, <2>6, <3>1, <3>2 DEF ServeMeans, CommandKinds
    <2> QED BY <2>2, <2>3, <2>4, <2>5, <2>6 DEF CommandKinds
  <1> QED BY <1>2, <1>3 DEF ServeDoes

\* No request that MULTI would take is under way on a session that is not there yet.
LEMMA NotYetQueueing ==
    ASSUME TxInv, NEW s \in Sessions, NotYet(s), s = gate, server.multi, Len(wire) > 0,
           wire[1].name = "set", wire[1].by # "none"
    PROVE  FALSE
  <1> DEFINE d == wire[1].by
  <1>0. /\ TypeOK /\ ExecutorTypes /\ CallTypes /\ WireTypes /\ ClientTypes /\ ServerTypes
        /\ LocksOK /\ PlacesOK /\ SpeakersOK /\ TransactionsOK /\ SessionsOK
        /\ AwaitedOK /\ ServerOK /\ ReadyOK /\ LegacyOK /\ ConnOK
    BY DEF TxInv, TypeOK
  <1>k. "none" \notin Callers /\ MaxSessions \in Nat
    BY TransactionConstants
  <1>1. Len(wire) \in Nat /\ 1 \in 1..Len(wire) /\ wire[1] \in Messages
    BY <1>0 DEF WireTypes
  <1>2. d \in Callers
    BY <1>1 DEF Messages
  <1>3. pc[d] = "wait" /\ Text(op[d]) = "set" /\ sess[d] = wire[1].sess
    BY <1>0, <1>1 DEF AwaitedOK
  <1>4. sess[d] = gate /\ gate # 0
    BY <1>0, <1>1, <1>3 DEF ServerOK
  <1> HIDE DEF d
  <1>5. \/ gateW = d /\ \A x \in Txs : ~ Active(x)
        \/ op[d].name \in PlainNames /\ gateW = "none" /\ legacy = gate /\ \A x \in Txs : ~ Active(x)
        \/ op[d].name \in TxNames /\ op[d].tx \in Txs /\ Active(op[d].tx) /\ txMu[op[d].tx] = d /\ legacy = 0
    BY <1>0, <1>2, <1>3, <1>4, SpeakerKinds DEF Speaking
  <1>6. op[d].name \notin LegacyStart \cup LegacyEnd
    BY <1>3 DEF Text, LegacyStart, LegacyEnd, PlainNames
  <1>7. gateW # d
    BY <1>0, <1>2, <1>6 DEF LocksOK
  <1>8. CASE s > Len(sconn)
    BY <1>0, <1>8 DEF SessionsOK, ExecutorTypes
  <1>9. CASE s = legacy /\ ~ legacyMulti
    <2>1. gateW = "none" /\ cur # 0 /\ legacy # 0
      BY <1>0, <1>4, <1>5, <1>7, <1>9 DEF ConnOK
    <2> QED BY <1>0, <1>9, <2>1 DEF LegacyOK, ClientTypes, ServerTypes
  <1>10. CASE \E i \in 1..Len(wire) : wire[i].name = "multi"
    BY <1>0, <1>10 DEF ServerOK
  <1>11. CASE \E c \in Callers : pc[c] \in Speaking /\ op[c].name \in {"watch", "begin"} /\ s = sess[c]
    <2>1. PICK c \in Callers : pc[c] \in Speaking /\ op[c].name \in {"watch", "begin"}
      BY <1>11
    <2>2. gateW = c
      BY <1>0, <2>1 DEF LocksOK, LegacyStart
    <2>3. \A x \in Txs : ~ Active(x)
      BY <1>0, <2>1 DEF TransactionsOK, Owning
    <2> QED BY <1>5, <1>7, <1>k, <2>1, <2>2, <2>3
  <1> QED BY <1>8, <1>9, <1>10, <1>11 DEF NotYet

-----------------------------------------------------------------------------
(* The steps keep every part of the invariant.                                *)

\* TypeOK, in its parts: the client's own state.
LEMMA ClientTypesKept ==
    ASSUME TxInv, [Next]_vars
    PROVE  ClientTypes'
  <1>0. /\ ClientTypes /\ ExecutorTypes /\ CallTypes /\ PlacesOK
    BY DEF TxInv, TypeOK
  <1>1. ASSUME NEW c \in Callers, Enters(c) PROVE ClientTypes'
    <2>1. CASE Watch(c)
      BY <1>0, Basics, <2>1 DEF Watch, Writer, Enter, Op, ClientTypes, ExecutorTypes, CallTypes,
         PlacesOK, LegacyStart, LegacyEnd, PlainNames, TxNames, Ops, CommandKinds, Conns,
         transactions, executor, remote
    <2>2. CASE Multi(c)
      BY <1>0, Basics, <2>2 DEF Multi, Writer, Enter, Op, ClientTypes, ExecutorTypes, CallTypes,
         PlacesOK, LegacyStart, LegacyEnd, PlainNames, TxNames, Ops, CommandKinds, Conns,
         transactions, executor, remote
    <2>3. CASE TakeLegacy(c)
      <3>1. 0 \in 0..MaxSessions
        BY Basics
      <3> QED BY <1>0, Basics, <2>3, <3>1 DEF TakeLegacy, Writer, Enter, SetLegacy, ClientTypes,
         ExecutorTypes, CallTypes, client, transactions, executor
    <2>4. ASSUME NEW x \in Txs, BeginTransaction(c, x) PROVE ClientTypes'
      <3>1. 0 \in 0..MaxSessions
        BY Basics
      <3> QED BY <1>0, Basics, <2>4, <3>1 DEF BeginTransaction, Writer, Enter, SetLegacy,
         ClientTypes, ExecutorTypes, CallTypes, client, transactions, executor
    <2>5. CASE \E o \in Plain : UseClient(c, o)
      BY <1>0, Basics, <2>5 DEF UseClient, Enter, Plain, ClientTypes, ExecutorTypes, CallTypes,
         PlacesOK, LegacyStart, LegacyEnd, PlainNames, TxNames, Ops, CommandKinds, Conns,
         transactions, executor, remote
    <2>6. CASE \E o \in TxOps : UseTransaction(c, o)
      BY <1>0, Basics, <2>6 DEF UseTransaction, Enter, TxOps, ClientTypes, ExecutorTypes,
         CallTypes, PlacesOK, LegacyStart, LegacyEnd, PlainNames, TxNames, Ops, CommandKinds,
         Conns, client, executor, remote
    <2> QED BY <1>1, <2>1, <2>2, <2>3, <2>4, <2>5, <2>6 DEF Enters
  <1>2. ASSUME NEW c \in Callers, Acquires(c) PROVE ClientTypes'
    <2>1. CASE Acquire(c)
      <3>1. 0 \in 0..MaxSessions /\ Len(sconn) + 1 \in 0..MaxSessions
        BY <1>0, Basics, <2>1 DEF Acquire, ExecutorTypes
      <3>2. legacy' \in 0..MaxSessions /\ legacyMulti' \in BOOLEAN
        BY <1>0, <2>1, <3>1 DEF Acquire, SetLegacy, ClientTypes
      <3> QED BY <1>0, <2>1, <3>2 DEF Acquire, ClientTypes, transactions
    <2>2. CASE AcquireFails(c) \/ AcquirePlain(c) \/ CannotSend(c)
      BY <1>0, Basics, <2>2 DEF AcquireFails, Return, NoOp, Op, AcquirePlain, Connect, CannotSend,
         ClientTypes, ExecutorTypes, CallTypes, PlacesOK, LegacyStart, LegacyEnd, PlainNames,
         TxNames, Ops, CommandKinds, Conns, client, transactions, executor, remote
    <2> QED BY <1>2, <2>1, <2>2 DEF Acquires
  <1>3. ASSUME NEW c \in Callers, Talks(c) PROVE ClientTypes'
    <2>1. CASE SendDoes(c)
      BY <1>0, Basics, <2>1 DEF SendDoes, ClientTypes, ExecutorTypes, CallTypes, PlacesOK,
         LegacyStart, LegacyEnd, PlainNames, TxNames, Ops, CommandKinds, Conns, client,
         transactions, executor
    <2>2. CASE GiveUpDoes(c)
      BY <1>0, Basics, <2>2 DEF GiveUpDoes, ClientTypes, ExecutorTypes, CallTypes, PlacesOK,
         LegacyStart, LegacyEnd, PlainNames, TxNames, Ops, CommandKinds, Conns, client,
         transactions, executor
    <2> QED BY <1>3, <2>1, <2>2 DEF Talks
  <1>4. ASSUME NEW c \in Callers, Closes(c) PROVE ClientTypes'
    <2>1. CASE CloseDoes(c)
      <3>1. 0 \in 0..MaxSessions
        BY Basics
      <3> QED BY <1>0, Basics, <2>1, <3>1 DEF CloseDoes, ClientTypes, ExecutorTypes, CallTypes,
         client, transactions, executor
    <2>2. CASE CloseExecutorDoes(c)
      BY <1>0, Basics, <2>2 DEF CloseExecutorDoes, Op, NoOp, Dropped, ClientTypes, ExecutorTypes,
         CallTypes, PlacesOK, LegacyStart, LegacyEnd, PlainNames, TxNames, Ops, CommandKinds,
         Conns, client, transactions
    <2> QED BY <1>4, <2>1, <2>2 DEF Closes
  <1>5. ASSUME NEW c \in Callers, SessionDoes(c) PROVE ClientTypes'
    <2>1. CASE WatchDoes(c)
      <3>1. legacy' \in 0..MaxSessions
        BY <1>0, Basics, <2>1 DEF WatchDoes, ExecutorTypes, ClientTypes
      <3>2. legacyMulti' \in BOOLEAN
        BY <1>0, <2>1, Zenon DEF WatchDoes, ClientTypes
      <3> QED BY <1>0, <2>1, <3>1, <3>2 DEF WatchDoes, Ended, Return, ClientTypes
    <2>2. CASE MultiDoes(c)
      <3>1. legacy' \in 0..MaxSessions
        BY <1>0, Basics, <2>2 DEF MultiDoes, ExecutorTypes
      <3>2. legacyMulti' \in BOOLEAN
        BY <2>2, Zenon DEF MultiDoes
      <3> QED BY <1>0, <2>2, <3>1, <3>2 DEF MultiDoes, Ended, Return, ClientTypes
    <2>3. CASE BeginDoes(c)
      <3>1. gate \in 0..MaxSessions
        BY <1>0 DEF ExecutorTypes
      <3>2. txState' \in [Txs -> {"none", "open", "closing", "closed"}] /\ txSess' \in [Txs -> 0..MaxSessions]
        BY <1>0, <2>3, <3>1 DEF BeginDoes, ClientTypes
      <3> QED BY <1>0, <2>3, <3>2 DEF BeginDoes, Return, ClientTypes
    <2>4. CASE LegacyDoes(c)
      BY <1>0, Basics, <2>4 DEF LegacyDoes, Ended, Return, NoOp, Op, Drops, Frees, Kept, Dropped,
         ClientTypes, ExecutorTypes, CallTypes, PlacesOK, LegacyStart, LegacyEnd, PlainNames,
         TxNames, Ops, CommandKinds, Conns
    <2> QED BY <1>5, <2>1, <2>2, <2>3, <2>4 DEF SessionDoes
  <1>6. ASSUME NEW c \in Callers, PlainDoes(c) PROVE ClientTypes'
    BY <1>0, Basics, <1>6 DEF PlainDoes, CommandDoes, CommandAcks, Ended, Return, NoOp, Op, Holds,
       Kept, PipelineDoes, ClientTypes, ExecutorTypes, CallTypes, PlacesOK, LegacyStart,
       LegacyEnd, PlainNames, TxNames, Ops, CommandKinds, Conns, client, transactions
  <1>7. ASSUME NEW c \in Callers, TxDoes(c) PROVE ClientTypes'
    <2>1. CASE TransactionCommandDoes(c)
      <3>1. op[c].tx \in Txs
        BY <1>0, <2>1 DEF TransactionCommandDoes, Ended, PlacesOK, TxNames
      <3>2. txMu' = [txMu EXCEPT ![op[c].tx] = "none"] /\ UNCHANGED <<txSess, legacy, legacyMulti>>
        BY <2>1 DEF TransactionCommandDoes, Ended
      <3>3. txState' = txState \/ txState' = [txState EXCEPT ![op[c].tx] = "closed"]
        BY <2>1 DEF TransactionCommandDoes
      <3>4. /\ gateW' \in Callers \cup {"none"} /\ gateR' \subseteq Callers
            /\ legacyMu' \in Callers \cup {"none"}
        BY <1>0, <2>1 DEF TransactionCommandDoes, Ended, Return, ClientTypes
      <3> QED BY <1>0, <3>1, <3>2, <3>3, <3>4 DEF ClientTypes
    <2>2. CASE TransactionDoes(c)
      <3>1. op[c].tx \in Txs
        BY <1>0, <2>2 DEF TransactionDoes, Ended, PlacesOK, TxNames
      <3>2. txMu' = [txMu EXCEPT ![op[c].tx] = "none"] /\ UNCHANGED <<txSess, legacy, legacyMulti>>
        BY <2>2 DEF TransactionDoes, Ended
      <3>3. txState' = txState \/ txState' = [txState EXCEPT ![op[c].tx] = "closed"]
        BY <2>2 DEF TransactionDoes
      <3>4. /\ gateW' \in Callers \cup {"none"} /\ gateR' \subseteq Callers
            /\ legacyMu' \in Callers \cup {"none"}
        BY <1>0, <2>2 DEF TransactionDoes, Ended, Return, ClientTypes
      <3> QED BY <1>0, <3>1, <3>2, <3>3, <3>4 DEF ClientTypes
    <2> QED BY <1>7, <2>1, <2>2 DEF TxDoes
  <1>8. ASSUME NEW r \in Replies, ServeDoes(r) PROVE ClientTypes'
    BY <1>0, Basics, <1>8 DEF ServeDoes, ClientTypes, ExecutorTypes, CallTypes, PlacesOK,
       LegacyStart, LegacyEnd, PlainNames, TxNames, Ops, CommandKinds, Conns, client,
       transactions, executor
  <1>9. CASE Breaks
    <2>1. CASE \E x \in Txs : ContextEnds(x)
      BY <1>0, Basics, <2>1 DEF ContextEnds, ClientTypes, ExecutorTypes, CallTypes, PlacesOK,
         LegacyStart, LegacyEnd, PlainNames, TxNames, Ops, CommandKinds, Conns, client, executor,
         calls, remote
    <2>2. CASE \E x \in Txs : ContextAbortsDoes(x)
      BY <1>0, Basics, <2>2 DEF ContextAbortsDoes, Drops, Dropped, ClientTypes, ExecutorTypes,
         CallTypes, PlacesOK, LegacyStart, LegacyEnd, PlainNames, TxNames, Ops, CommandKinds,
         Conns, client
    <2>3. CASE LoseDoes
      BY <1>0, Basics, <2>3 DEF LoseDoes, Dropped, ClientTypes, ExecutorTypes, CallTypes,
         PlacesOK, LegacyStart, LegacyEnd, PlainNames, TxNames, Ops, CommandKinds, Conns, client,
         transactions
    <2>4. CASE UNCHANGED vars
      BY <1>0, Basics, <2>4 DEF vars, ClientTypes, ExecutorTypes, CallTypes, PlacesOK,
         LegacyStart, LegacyEnd, PlainNames, TxNames, Ops, CommandKinds, Conns, client,
         transactions, executor, calls, remote
    <2> QED BY <1>9, <2>1, <2>2, <2>3, <2>4 DEF Breaks
  <1>s. StepDoes
    BY Steps DEF TxInv
  <1> QED BY <1>s, <1>1, <1>2, <1>3, <1>4, <1>5, <1>6, <1>7, <1>8, <1>9 DEF StepDoes

\* The executor's.
LEMMA ExecutorTypesKept ==
    ASSUME TxInv, [Next]_vars
    PROVE  ExecutorTypes'
  <1>0. /\ ClientTypes /\ ExecutorTypes /\ CallTypes /\ PlacesOK /\ SessionsOK
        /\ SpeakersOK /\ TransactionsOK
    BY DEF TxInv, TypeOK
  <1>1. ASSUME NEW c \in Callers, Enters(c) PROVE ExecutorTypes'
    BY <1>0, Basics, <1>1 DEF Enters, Watch, Writer, Enter, Op, Multi, TakeLegacy, SetLegacy,
       BeginTransaction, UseClient, Plain, UseTransaction, TxOps, ExecutorTypes, CallTypes,
       SessionsOK, Conns, client, transactions, executor, remote
  <1>2. ASSUME NEW c \in Callers, Acquires(c) PROVE ExecutorTypes'
    <2>1. CASE Acquire(c)
      BY <1>0, Basics, <2>1 DEF Acquire, Connect, SetLegacy, ExecutorTypes, CallTypes, SessionsOK,
         Conns, transactions, remote
    <2>2. CASE AcquireFails(c)
      BY <1>0, Basics, <2>2 DEF AcquireFails, Return, NoOp, Op, ExecutorTypes, CallTypes,
         SessionsOK, Conns, transactions, executor, remote
    <2>3. CASE AcquirePlain(c)
      BY <1>0, Basics, <2>3 DEF AcquirePlain, Connect, ExecutorTypes, CallTypes, SessionsOK,
         Conns, client, transactions, remote
    <2>4. CASE CannotSend(c)
      BY <1>0, Basics, <2>4 DEF CannotSend, ExecutorTypes, CallTypes, SessionsOK, Conns, client,
         transactions, executor, remote
    <2> QED BY <1>2, <2>1, <2>2, <2>3, <2>4 DEF Acquires
  <1>3. ASSUME NEW c \in Callers, Talks(c) PROVE ExecutorTypes'
    BY <1>0, Basics, <1>3 DEF Talks, SendDoes, GiveUpDoes, ExecutorTypes, CallTypes, SessionsOK,
       Conns, client, transactions, executor
  <1>4. ASSUME NEW c \in Callers, Closes(c) PROVE ExecutorTypes'
    <2>1. CASE CloseDoes(c)
      BY <1>0, Basics, <2>1 DEF CloseDoes, Enter, Op, Holds, Drops, Kept, Dropped, SpeakersOK,
         ExecutorTypes, CallTypes, SessionsOK, Conns, transactions
    <2>2. CASE CloseExecutorDoes(c)
      BY <1>0, Basics, <2>2 DEF CloseExecutorDoes, Op, NoOp, Dropped, ExecutorTypes, CallTypes,
         SessionsOK, Conns, client, transactions
    <2> QED BY <1>4, <2>1, <2>2 DEF Closes
  <1>5. ASSUME NEW c \in Callers, SessionDoes(c) PROVE ExecutorTypes'
    BY <1>0, Basics, <1>5 DEF SessionDoes, WatchDoes, Ended, Return, NoOp, Op, Holds, Drops,
       Frees, Kept, Dropped, MultiDoes, LegacyDoes, BeginDoes, ExecutorTypes, CallTypes,
       SessionsOK, Conns
  <1>6. ASSUME NEW c \in Callers, PlainDoes(c) PROVE ExecutorTypes'
    BY <1>0, Basics, <1>6 DEF PlainDoes, CommandDoes, CommandAcks, Ended, Return, NoOp, Op, Holds,
       Kept, PipelineDoes, ExecutorTypes, CallTypes, SessionsOK, Conns, client, transactions
  <1>7. ASSUME NEW c \in Callers, TxDoes(c) PROVE ExecutorTypes'
    <2>1. CASE TransactionCommandDoes(c)
      BY <1>0, Basics, <2>1 DEF TransactionCommandDoes, Ended, Return, NoOp, Op, Holds, Drops,
         Kept, Dropped, TransactionsOK, SpeakersOK, PlacesOK, Active, TxNames, ExecutorTypes,
         CallTypes, SessionsOK, Conns
    <2>2. CASE TransactionDoes(c)
      BY <1>0, Basics, <2>2 DEF TransactionDoes, Ended, Return, NoOp, Op, Holds, Drops, Frees,
         Kept, Dropped, TransactionsOK, SpeakersOK, PlacesOK, Active, TxNames, ExecutorTypes,
         CallTypes, SessionsOK, Conns
    <2> QED BY <1>7, <2>1, <2>2 DEF TxDoes
  <1>8. ASSUME NEW r \in Replies, ServeDoes(r) PROVE ExecutorTypes'
    BY <1>0, Basics, <1>8 DEF ServeDoes, ExecutorTypes, CallTypes, SessionsOK, Conns, client,
       transactions, executor
  <1>9. CASE Breaks
    BY <1>0, Basics, <1>9 DEF Breaks, ContextEnds, ContextAbortsDoes, Drops, Dropped,
       TransactionsOK, Active, LoseDoes, vars, ExecutorTypes, CallTypes, SessionsOK, Conns,
       client, transactions, executor, calls, remote
  <1>s. StepDoes
    BY Steps DEF TxInv
  <1> QED BY <1>s, <1>1, <1>2, <1>3, <1>4, <1>5, <1>6, <1>7, <1>8, <1>9 DEF StepDoes

\* Where the calls are.
LEMMA CallTypesKept ==
    ASSUME TxInv, [Next]_vars
    PROVE  CallTypes'
  <1>0. /\ ClientTypes /\ ExecutorTypes /\ CallTypes /\ PlacesOK
    BY DEF TxInv, TypeOK
  <1>1. ASSUME NEW c \in Callers, Enters(c) PROVE CallTypes'
    <2>1. CASE Watch(c)
      BY <1>0, Basics, <2>1 DEF Watch, Writer, Enter, Op, ClientTypes, ExecutorTypes, CallTypes,
         Ops, LegacyStart, LegacyEnd, PlainNames, TxNames, CommandKinds, PlacesOK, transactions,
         executor, remote
    <2>2. CASE Multi(c)
      BY <1>0, Basics, <2>2 DEF Multi, Writer, Enter, Op, ClientTypes, ExecutorTypes, CallTypes,
         Ops, LegacyStart, LegacyEnd, PlainNames, TxNames, CommandKinds, PlacesOK, transactions,
         executor, remote
    <2>3. CASE TakeLegacy(c)
      BY <1>0, Basics, <2>3 DEF TakeLegacy, Writer, Enter, SetLegacy, Op, ClientTypes,
         ExecutorTypes, CallTypes, Ops, LegacyStart, LegacyEnd, PlainNames, TxNames, CommandKinds,
         PlacesOK, transactions, executor, remote
    <2>4. CASE \E x \in Txs : BeginTransaction(c, x)
      BY <1>0, Basics, <2>4 DEF BeginTransaction, Writer, Enter, SetLegacy, ClientTypes,
         ExecutorTypes, CallTypes, Ops, LegacyStart, LegacyEnd, PlainNames, TxNames, CommandKinds,
         PlacesOK, transactions, executor, remote
    <2>5. CASE \E o \in Plain : UseClient(c, o)
      BY <1>0, Basics, <2>5 DEF UseClient, Enter, Plain, ClientTypes, ExecutorTypes, CallTypes,
         Ops, LegacyStart, LegacyEnd, PlainNames, TxNames, CommandKinds, PlacesOK, transactions,
         executor, remote
    <2>6. CASE \E o \in TxOps : UseTransaction(c, o)
      BY <1>0, Basics, <2>6 DEF UseTransaction, Enter, TxOps, ClientTypes, ExecutorTypes,
         CallTypes, Ops, LegacyStart, LegacyEnd, PlainNames, TxNames, CommandKinds, PlacesOK,
         client, executor, remote
    <2> QED BY <1>1, <2>1, <2>2, <2>3, <2>4, <2>5, <2>6 DEF Enters
  <1>2. ASSUME NEW c \in Callers, Acquires(c) PROVE CallTypes'
    <2>1. CASE Acquire(c)
      BY <1>0, Basics, <2>1 DEF Acquire, Connect, SetLegacy, ClientTypes, ExecutorTypes,
         CallTypes, Ops, LegacyStart, LegacyEnd, PlainNames, TxNames, CommandKinds, PlacesOK,
         transactions, remote
    <2>2. CASE AcquireFails(c)
      BY <1>0, Basics, <2>2 DEF AcquireFails, Return, NoOp, Op, ClientTypes, ExecutorTypes,
         CallTypes, Ops, LegacyStart, LegacyEnd, PlainNames, TxNames, CommandKinds, PlacesOK,
         transactions, executor, remote
    <2>3. CASE AcquirePlain(c)
      BY <1>0, Basics, <2>3 DEF AcquirePlain, Connect, ClientTypes, ExecutorTypes, CallTypes, Ops,
         LegacyStart, LegacyEnd, PlainNames, TxNames, CommandKinds, PlacesOK, client,
         transactions, remote
    <2>4. CASE CannotSend(c)
      BY <1>0, Basics, <2>4 DEF CannotSend, ClientTypes, ExecutorTypes, CallTypes, Ops,
         LegacyStart, LegacyEnd, PlainNames, TxNames, CommandKinds, PlacesOK, client,
         transactions, executor, remote
    <2> QED BY <1>2, <2>1, <2>2, <2>3, <2>4 DEF Acquires
  <1>3. ASSUME NEW c \in Callers, Talks(c) PROVE CallTypes'
    <2>1. CASE SendDoes(c)
      BY <1>0, Basics, <2>1 DEF SendDoes, ClientTypes, ExecutorTypes, CallTypes, Ops, LegacyStart,
         LegacyEnd, PlainNames, TxNames, CommandKinds, PlacesOK, client, transactions, executor
    <2>2. CASE GiveUpDoes(c)
      BY <1>0, Basics, <2>2 DEF GiveUpDoes, ClientTypes, ExecutorTypes, CallTypes, Ops,
         LegacyStart, LegacyEnd, PlainNames, TxNames, CommandKinds, PlacesOK, client,
         transactions, executor
    <2> QED BY <1>3, <2>1, <2>2 DEF Talks
  <1>4. ASSUME NEW c \in Callers, Closes(c) PROVE CallTypes'
    <2>1. CASE CloseDoes(c)
      BY <1>0, Basics, <2>1 DEF CloseDoes, Enter, Op, Holds, Drops, Kept, Dropped, ClientTypes,
         ExecutorTypes, CallTypes, Ops, LegacyStart, LegacyEnd, PlainNames, TxNames, CommandKinds,
         PlacesOK, transactions
    <2>2. CASE CloseExecutorDoes(c)
      BY <1>0, Basics, <2>2 DEF CloseExecutorDoes, Op, NoOp, Dropped, ClientTypes, ExecutorTypes,
         CallTypes, Ops, LegacyStart, LegacyEnd, PlainNames, TxNames, CommandKinds, PlacesOK,
         client, transactions
    <2> QED BY <1>4, <2>1, <2>2 DEF Closes
  <1>5. ASSUME NEW c \in Callers, SessionDoes(c) PROVE CallTypes'
    <2>1. CASE WatchDoes(c)
      BY <1>0, Basics, <2>1 DEF WatchDoes, Ended, Return, NoOp, Op, Holds, Drops, Kept, Dropped,
         ClientTypes, ExecutorTypes, CallTypes, Ops, LegacyStart, LegacyEnd, PlainNames, TxNames,
         CommandKinds, PlacesOK
    <2>2. CASE MultiDoes(c)
      BY <1>0, Basics, <2>2 DEF MultiDoes, Ended, Return, NoOp, Op, Holds, Drops, Kept, Dropped,
         ClientTypes, ExecutorTypes, CallTypes, Ops, LegacyStart, LegacyEnd, PlainNames, TxNames,
         CommandKinds, PlacesOK
    <2>3. CASE LegacyDoes(c)
      BY <1>0, Basics, <2>3 DEF LegacyDoes, Ended, Return, NoOp, Op, Drops, Frees, Kept, Dropped,
         ClientTypes, ExecutorTypes, CallTypes, Ops, LegacyStart, LegacyEnd, PlainNames, TxNames,
         CommandKinds, PlacesOK
    <2>4. CASE BeginDoes(c)
      BY <1>0, Basics, <2>4 DEF BeginDoes, Return, NoOp, Op, Holds, Drops, Kept, Dropped,
         ClientTypes, ExecutorTypes, CallTypes, Ops, LegacyStart, LegacyEnd, PlainNames, TxNames,
         CommandKinds, PlacesOK
    <2> QED BY <1>5, <2>1, <2>2, <2>3, <2>4 DEF SessionDoes
  <1>6. ASSUME NEW c \in Callers, PlainDoes(c) PROVE CallTypes'
    <2>1. CASE CommandDoes(c)
      BY <1>0, Basics, <2>1 DEF CommandDoes, CommandAcks, Ended, Return, NoOp, Op, Holds, Kept,
         ClientTypes, ExecutorTypes, CallTypes, Ops, LegacyStart, LegacyEnd, PlainNames, TxNames,
         CommandKinds, PlacesOK
    <2>2. CASE PipelineDoes(c)
      BY <1>0, Basics, <2>2 DEF PipelineDoes, CommandAcks, Holds, Kept, ClientTypes,
         ExecutorTypes, CallTypes, Ops, LegacyStart, LegacyEnd, PlainNames, TxNames, CommandKinds,
         PlacesOK, client, transactions
    <2> QED BY <1>6, <2>1, <2>2 DEF PlainDoes
  <1>7. ASSUME NEW c \in Callers, TxDoes(c) PROVE CallTypes'
    <2>1. CASE TransactionCommandDoes(c)
      BY <1>0, Basics, <2>1 DEF TransactionCommandDoes, Ended, Return, NoOp, Op, Holds, Drops,
         Kept, Dropped, ClientTypes, ExecutorTypes, CallTypes, Ops, LegacyStart, LegacyEnd,
         PlainNames, TxNames, CommandKinds, PlacesOK
    <2>2. CASE TransactionDoes(c)
      BY <1>0, Basics, <2>2 DEF TransactionDoes, Ended, Return, NoOp, Op, Holds, Drops, Frees,
         Kept, Dropped, ClientTypes, ExecutorTypes, CallTypes, Ops, LegacyStart, LegacyEnd,
         PlainNames, TxNames, CommandKinds, PlacesOK
    <2> QED BY <1>7, <2>1, <2>2 DEF TxDoes
  <1>8. ASSUME NEW r \in Replies, ServeDoes(r) PROVE CallTypes'
    BY <1>0, Basics, <1>8 DEF ServeDoes, ClientTypes, ExecutorTypes, CallTypes, Ops, LegacyStart,
       LegacyEnd, PlainNames, TxNames, CommandKinds, PlacesOK, client, transactions, executor
  <1>9. CASE Breaks
    BY <1>0, Basics, <1>9 DEF Breaks, ContextEnds, ContextAbortsDoes, Drops, Dropped, LoseDoes,
       vars, ClientTypes, ExecutorTypes, CallTypes, Ops, LegacyStart, LegacyEnd, PlainNames,
       TxNames, CommandKinds, PlacesOK, client, transactions, executor, calls, remote
  <1>s. StepDoes
    BY Steps DEF TxInv
  <1> QED BY <1>s, <1>1, <1>2, <1>3, <1>4, <1>5, <1>6, <1>7, <1>8, <1>9 DEF StepDoes

\* What they were answered.
LEMMA ReplyTypesKept ==
    ASSUME TxInv, [Next]_vars
    PROVE  ReplyTypes'
  <1>0. /\ CallTypes /\ ReplyTypes /\ WireTypes
    BY DEF TxInv, TypeOK
  <1>1. ASSUME NEW c \in Callers, Enters(c) PROVE ReplyTypes'
    BY <1>0, Basics, <1>1 DEF Enters, Watch, Writer, Enter, Op, Multi, TakeLegacy, SetLegacy,
       BeginTransaction, UseClient, Plain, UseTransaction, TxOps, ReplyTypes, CallTypes,
       WireTypes, client, transactions, executor, remote
  <1>2. ASSUME NEW c \in Callers, Acquires(c) PROVE ReplyTypes'
    BY <1>0, Basics, <1>2 DEF Acquires, Acquire, Connect, SetLegacy, AcquireFails, Return, NoOp,
       Op, AcquirePlain, CannotSend, ReplyTypes, CallTypes, WireTypes, client, transactions,
       executor, remote
  <1>3. ASSUME NEW c \in Callers, Talks(c) PROVE ReplyTypes'
    BY <1>0, Basics, <1>3 DEF Talks, SendDoes, GiveUpDoes, ReplyTypes, CallTypes, WireTypes,
       client, transactions, executor
  <1>4. ASSUME NEW c \in Callers, Closes(c) PROVE ReplyTypes'
    BY <1>0, Basics, <1>4 DEF Closes, CloseDoes, Enter, Op, Holds, Drops, Kept, Dropped,
       CloseExecutorDoes, NoOp, ReplyTypes, CallTypes, WireTypes, client, transactions
  <1>5. ASSUME NEW c \in Callers, SessionDoes(c) PROVE ReplyTypes'
    <2>1. CASE WatchDoes(c)
      BY <1>0, Basics, <2>1 DEF WatchDoes, Ended, Return, NoOp, Op, Holds, Drops, Kept, Dropped,
         ReplyTypes, CallTypes, WireTypes
    <2>2. CASE MultiDoes(c)
      BY <1>0, Basics, <2>2 DEF MultiDoes, Ended, Return, NoOp, Op, Holds, Drops, Kept, Dropped,
         ReplyTypes, CallTypes, WireTypes
    <2>3. CASE LegacyDoes(c)
      BY <1>0, Basics, <2>3 DEF LegacyDoes, Ended, Return, NoOp, Op, Drops, Frees, Kept, Dropped,
         ReplyTypes, CallTypes, WireTypes
    <2>4. CASE BeginDoes(c)
      BY <1>0, Basics, <2>4 DEF BeginDoes, Return, NoOp, Op, Holds, Drops, Kept, Dropped,
         ReplyTypes, CallTypes, WireTypes
    <2> QED BY <1>5, <2>1, <2>2, <2>3, <2>4 DEF SessionDoes
  <1>6. ASSUME NEW c \in Callers, PlainDoes(c) PROVE ReplyTypes'
    BY <1>0, Basics, <1>6 DEF PlainDoes, CommandDoes, CommandAcks, Ended, Return, NoOp, Op, Holds,
       Kept, PipelineDoes, ReplyTypes, CallTypes, WireTypes, client, transactions
  <1>7. ASSUME NEW c \in Callers, TxDoes(c) PROVE ReplyTypes'
    <2>1. CASE TransactionCommandDoes(c)
      BY <1>0, Basics, <2>1 DEF TransactionCommandDoes, Ended, Return, NoOp, Op, Holds, Drops,
         Kept, Dropped, ReplyTypes, CallTypes, WireTypes
    <2>2. CASE TransactionDoes(c)
      BY <1>0, Basics, <2>2 DEF TransactionDoes, Ended, Return, NoOp, Op, Holds, Drops, Frees,
         Kept, Dropped, ReplyTypes, CallTypes, WireTypes
    <2> QED BY <1>7, <2>1, <2>2 DEF TxDoes
  <1>8. ASSUME NEW r \in Replies, ServeDoes(r) PROVE ReplyTypes'
    <2>1. wire[1] \in Messages
      BY <1>0, <1>8 DEF WireTypes, ServeDoes
    <2>2. wire[1].by \in Callers \cup {"none"}
      BY <2>1 DEF Messages
    <2> QED BY <1>0, <1>8, <2>2 DEF ServeDoes, Deliver, ReplyTypes
  <1>9. CASE Breaks
    BY <1>0, Basics, <1>9 DEF Breaks, ContextEnds, ContextAbortsDoes, Drops, Dropped, LoseDoes,
       vars, ReplyTypes, CallTypes, WireTypes, client, transactions, executor, calls, remote
  <1>s. StepDoes
    BY Steps DEF TxInv
  <1> QED BY <1>s, <1>1, <1>2, <1>3, <1>4, <1>5, <1>6, <1>7, <1>8, <1>9 DEF StepDoes

\* What is on the wire.
LEMMA WireTypesKept ==
    ASSUME TxInv, [Next]_vars
    PROVE  WireTypes'
  <1>0. /\ WireTypes
    BY DEF TxInv, TypeOK
  <1>1. ASSUME NEW c \in Callers, Enters(c) PROVE WireTypes'
    BY <1>0, Basics, <1>1 DEF Enters, Watch, Writer, Enter, Op, Multi, TakeLegacy, SetLegacy,
       BeginTransaction, UseClient, Plain, UseTransaction, TxOps, WireTypes, client, transactions,
       executor, remote
  <1>2. ASSUME NEW c \in Callers, Acquires(c) PROVE WireTypes'
    BY <1>0, Basics, <1>2 DEF Acquires, Acquire, Connect, SetLegacy, AcquireFails, Return, NoOp,
       Op, AcquirePlain, CannotSend, WireTypes, client, transactions, executor, remote
  <1>3. ASSUME NEW c \in Callers, Talks(c) PROVE WireTypes'
    BY <1>0, Basics, <1>3 DEF Talks, SendDoes, GiveUpDoes, WireTypes, client, transactions,
       executor
  <1>4. ASSUME NEW c \in Callers, Closes(c) PROVE WireTypes'
    BY <1>0, Basics, <1>4 DEF Closes, CloseDoes, Enter, Op, Holds, Drops, Kept, Dropped,
       CloseExecutorDoes, NoOp, WireTypes, client, transactions
  <1>5. ASSUME NEW c \in Callers, SessionDoes(c) PROVE WireTypes'
    BY <1>0, Basics, <1>5 DEF SessionDoes, WatchDoes, Ended, Return, NoOp, Op, Holds, Drops,
       Frees, Kept, Dropped, MultiDoes, LegacyDoes, BeginDoes, WireTypes
  <1>6. ASSUME NEW c \in Callers, PlainDoes(c) PROVE WireTypes'
    BY <1>0, Basics, <1>6 DEF PlainDoes, CommandDoes, CommandAcks, Ended, Return, NoOp, Op, Holds,
       Kept, PipelineDoes, WireTypes, client, transactions
  <1>7. ASSUME NEW c \in Callers, TxDoes(c) PROVE WireTypes'
    BY <1>0, Basics, <1>7 DEF TxDoes, TransactionCommandDoes, Ended, Return, NoOp, Op, Holds,
       Drops, Frees, Kept, Dropped, TransactionDoes, WireTypes
  <1>8. ASSUME NEW r \in Replies, ServeDoes(r) PROVE WireTypes'
    BY <1>0, Basics, <1>8 DEF ServeDoes, WireTypes, client, transactions, executor
  <1>9. CASE Breaks
    BY <1>0, Basics, <1>9 DEF Breaks, ContextEnds, ContextAbortsDoes, Drops, Dropped, LoseDoes,
       vars, WireTypes, client, transactions, executor, calls, remote
  <1>s. StepDoes
    BY Steps DEF TxInv
  <1> QED BY <1>s, <1>1, <1>2, <1>3, <1>4, <1>5, <1>6, <1>7, <1>8, <1>9 DEF StepDoes

\* What the server keeps.
LEMMA ServerTypesKept ==
    ASSUME TxInv, [Next]_vars
    PROVE  ServerTypes'
  <1>0. /\ ServerTypes
    BY DEF TxInv, TypeOK
  <1>1. ASSUME NEW c \in Callers, Enters(c) PROVE ServerTypes'
    BY <1>0, Basics, <1>1 DEF Enters, Watch, Writer, Enter, Op, Multi, TakeLegacy, SetLegacy,
       BeginTransaction, UseClient, Plain, UseTransaction, TxOps, ServerTypes, client,
       transactions, executor, remote
  <1>2. ASSUME NEW c \in Callers, Acquires(c) PROVE ServerTypes'
    BY <1>0, Basics, <1>2 DEF Acquires, Acquire, Connect, SetLegacy, AcquireFails, Return, NoOp,
       Op, AcquirePlain, CannotSend, ServerTypes, client, transactions, executor, remote
  <1>3. ASSUME NEW c \in Callers, Talks(c) PROVE ServerTypes'
    BY <1>0, Basics, <1>3 DEF Talks, SendDoes, GiveUpDoes, ServerTypes, client, transactions,
       executor
  <1>4. ASSUME NEW c \in Callers, Closes(c) PROVE ServerTypes'
    BY <1>0, Basics, <1>4 DEF Closes, CloseDoes, Enter, Op, Holds, Drops, Kept, Dropped,
       CloseExecutorDoes, NoOp, ServerTypes, client, transactions
  <1>5. ASSUME NEW c \in Callers, SessionDoes(c) PROVE ServerTypes'
    BY <1>0, Basics, <1>5 DEF SessionDoes, WatchDoes, Ended, Return, NoOp, Op, Holds, Drops,
       Frees, Kept, Dropped, MultiDoes, LegacyDoes, BeginDoes, ServerTypes
  <1>6. ASSUME NEW c \in Callers, PlainDoes(c) PROVE ServerTypes'
    BY <1>0, Basics, <1>6 DEF PlainDoes, CommandDoes, CommandAcks, Ended, Return, NoOp, Op, Holds,
       Kept, PipelineDoes, ServerTypes, client, transactions
  <1>7. ASSUME NEW c \in Callers, TxDoes(c) PROVE ServerTypes'
    BY <1>0, Basics, <1>7 DEF TxDoes, TransactionCommandDoes, Ended, Return, NoOp, Op, Holds,
       Drops, Frees, Kept, Dropped, TransactionDoes, ServerTypes
  <1>8. ASSUME NEW r \in Replies, ServeDoes(r) PROVE ServerTypes'
    BY <1>0, Basics, <1>8 DEF ServeDoes, ServerTypes, client, transactions, executor
  <1>9. CASE Breaks
    BY <1>0, Basics, <1>9 DEF Breaks, ContextEnds, ContextAbortsDoes, Drops, Dropped, LoseDoes,
       vars, ServerTypes, client, transactions, executor, calls, remote
  <1>s. StepDoes
    BY Steps DEF TxInv
  <1> QED BY <1>s, <1>1, <1>2, <1>3, <1>4, <1>5, <1>6, <1>7, <1>8, <1>9 DEF StepDoes

\* What was acknowledged.
LEMMA AckTypesKept ==
    ASSUME TxInv, [Next]_vars
    PROVE  AckTypes'
  <1>0. /\ AckTypes /\ CallTypes /\ SpeakersOK
    BY DEF TxInv, TypeOK
  <1>1. ASSUME NEW c \in Callers, Enters(c) PROVE AckTypes'
    BY <1>0, Basics, <1>1 DEF Enters, Watch, Writer, Enter, Op, Multi, TakeLegacy, SetLegacy,
       BeginTransaction, UseClient, Plain, UseTransaction, TxOps, AckTypes, CallTypes, SpeakersOK,
       TxNames, Sessions, client, transactions, executor, remote
  <1>2. ASSUME NEW c \in Callers, Acquires(c) PROVE AckTypes'
    BY <1>0, Basics, <1>2 DEF Acquires, Acquire, Connect, SetLegacy, AcquireFails, Return, NoOp,
       Op, AcquirePlain, CannotSend, AckTypes, CallTypes, SpeakersOK, TxNames, Sessions, client,
       transactions, executor, remote
  <1>3. ASSUME NEW c \in Callers, Talks(c) PROVE AckTypes'
    BY <1>0, Basics, <1>3 DEF Talks, SendDoes, GiveUpDoes, AckTypes, CallTypes, SpeakersOK,
       TxNames, Sessions, client, transactions, executor
  <1>4. ASSUME NEW c \in Callers, Closes(c) PROVE AckTypes'
    BY <1>0, Basics, <1>4 DEF Closes, CloseDoes, Enter, Op, Holds, Drops, Kept, Dropped,
       CloseExecutorDoes, NoOp, AckTypes, CallTypes, SpeakersOK, TxNames, Sessions, client,
       transactions
  <1>5. ASSUME NEW c \in Callers, SessionDoes(c) PROVE AckTypes'
    BY <1>0, Basics, <1>5 DEF SessionDoes, WatchDoes, Ended, Return, NoOp, Op, Holds, Drops,
       Frees, Kept, Dropped, MultiDoes, LegacyDoes, BeginDoes, AckTypes, CallTypes, SpeakersOK,
       TxNames, Sessions
  <1>6. ASSUME NEW c \in Callers, PlainDoes(c) PROVE AckTypes'
    <2>1. CASE CommandDoes(c)
      BY <1>0, Basics, <2>1 DEF CommandDoes, CommandAcks, Ended, Return, NoOp, Op, Holds, Kept,
         AckTypes, CallTypes, SpeakersOK, TxNames, Sessions
    <2>2. CASE PipelineDoes(c)
      BY <1>0, Basics, <2>2 DEF PipelineDoes, CommandAcks, Holds, Kept, AckTypes, CallTypes,
         SpeakersOK, TxNames, Sessions, client, transactions
    <2> QED BY <1>6, <2>1, <2>2 DEF PlainDoes
  <1>7. ASSUME NEW c \in Callers, TxDoes(c) PROVE AckTypes'
    <2>1. CASE TransactionCommandDoes(c)
      BY <1>0, Basics, <2>1 DEF TransactionCommandDoes, Ended, Return, NoOp, Op, Holds, Drops,
         Kept, Dropped, AckTypes, CallTypes, SpeakersOK, TxNames, Sessions
    <2>2. CASE TransactionDoes(c)
      BY <1>0, Basics, <2>2 DEF TransactionDoes, Ended, Return, NoOp, Op, Holds, Drops, Frees,
         Kept, Dropped, AckTypes, CallTypes, SpeakersOK, TxNames, Sessions
    <2> QED BY <1>7, <2>1, <2>2 DEF TxDoes
  <1>8. ASSUME NEW r \in Replies, ServeDoes(r) PROVE AckTypes'
    BY <1>0, Basics, <1>8 DEF ServeDoes, AckTypes, CallTypes, SpeakersOK, TxNames, Sessions,
       client, transactions, executor
  <1>9. CASE Breaks
    BY <1>0, Basics, <1>9 DEF Breaks, ContextEnds, ContextAbortsDoes, Drops, Dropped, LoseDoes,
       vars, AckTypes, CallTypes, SpeakersOK, TxNames, Sessions, client, transactions, executor,
       calls, remote
  <1>s. StepDoes
    BY Steps DEF TxInv
  <1> QED BY <1>s, <1>1, <1>2, <1>3, <1>4, <1>5, <1>6, <1>7, <1>8, <1>9 DEF StepDoes

\* A call holds the locks of its method, and nobody else does.
LEMMA LocksKept ==
    ASSUME TxInv, [Next]_vars
    PROVE  LocksOK'
  <1>0. /\ ClientTypes /\ CallTypes /\ LocksOK /\ PlacesOK
    BY DEF TxInv, TypeOK
  <1>1. ASSUME NEW c \in Callers, Enters(c) PROVE LocksOK'
    BY <1>0, Basics, <1>1 DEF Enters, Watch, Writer, Enter, Op, Multi, TakeLegacy, SetLegacy,
       BeginTransaction, UseClient, Plain, UseTransaction, TxOps, ClientTypes, CallTypes, LocksOK,
       PlacesOK, LegacyStart, LegacyEnd, PlainNames, TxNames, client, transactions, executor,
       remote
  <1>2. ASSUME NEW c \in Callers, Acquires(c) PROVE LocksOK'
    BY <1>0, Basics, <1>2 DEF Acquires, Acquire, Connect, SetLegacy, AcquireFails, Return, NoOp,
       Op, AcquirePlain, CannotSend, ClientTypes, CallTypes, LocksOK, PlacesOK, LegacyStart,
       LegacyEnd, PlainNames, TxNames, client, transactions, executor, remote
  <1>3. ASSUME NEW c \in Callers, Talks(c) PROVE LocksOK'
    BY <1>0, Basics, <1>3 DEF Talks, SendDoes, GiveUpDoes, ClientTypes, CallTypes, LocksOK,
       PlacesOK, LegacyStart, LegacyEnd, PlainNames, TxNames, client, transactions, executor
  <1>4. ASSUME NEW c \in Callers, Closes(c) PROVE LocksOK'
    <2>1. CASE CloseDoes(c)
      BY <1>0, Basics, <2>1 DEF CloseDoes, Enter, Op, Holds, Drops, Kept, Dropped, ClientTypes,
         CallTypes, LocksOK, PlacesOK, LegacyStart, LegacyEnd, PlainNames, TxNames, transactions
    <2>2. CASE CloseExecutorDoes(c)
      BY <1>0, Basics, <2>2 DEF CloseExecutorDoes, Op, NoOp, Dropped, ClientTypes, CallTypes,
         LocksOK, PlacesOK, LegacyStart, LegacyEnd, PlainNames, TxNames, client, transactions
    <2> QED BY <1>4, <2>1, <2>2 DEF Closes
  <1>5. ASSUME NEW c \in Callers, SessionDoes(c) PROVE LocksOK'
    BY <1>0, Basics, <1>5 DEF SessionDoes, WatchDoes, Ended, Return, NoOp, Op, Holds, Drops,
       Frees, Kept, Dropped, MultiDoes, LegacyDoes, BeginDoes, ClientTypes, CallTypes, LocksOK,
       PlacesOK, LegacyStart, LegacyEnd, PlainNames, TxNames
  <1>6. ASSUME NEW c \in Callers, PlainDoes(c) PROVE LocksOK'
    BY <1>0, Basics, <1>6 DEF PlainDoes, CommandDoes, CommandAcks, Ended, Return, NoOp, Op, Holds,
       Kept, PipelineDoes, ClientTypes, CallTypes, LocksOK, PlacesOK, LegacyStart, LegacyEnd,
       PlainNames, TxNames, client, transactions
  <1>7. ASSUME NEW c \in Callers, TxDoes(c) PROVE LocksOK'
    <2>1. CASE TransactionCommandDoes(c)
      BY <1>0, Basics, <2>1 DEF TransactionCommandDoes, Ended, Return, NoOp, Op, Holds, Drops,
         Kept, Dropped, ClientTypes, CallTypes, LocksOK, PlacesOK, LegacyStart, LegacyEnd,
         PlainNames, TxNames
    <2>2. CASE TransactionDoes(c)
      BY <1>0, Basics, <2>2 DEF TransactionDoes, Ended, Return, NoOp, Op, Holds, Drops, Frees,
         Kept, Dropped, ClientTypes, CallTypes, LocksOK, PlacesOK, LegacyStart, LegacyEnd,
         PlainNames, TxNames
    <2> QED BY <1>7, <2>1, <2>2 DEF TxDoes
  <1>8. ASSUME NEW r \in Replies, ServeDoes(r) PROVE LocksOK'
    BY <1>0, Basics, <1>8 DEF ServeDoes, ClientTypes, CallTypes, LocksOK, PlacesOK, LegacyStart,
       LegacyEnd, PlainNames, TxNames, client, transactions, executor
  <1>9. CASE Breaks
    BY <1>0, Basics, <1>9 DEF Breaks, ContextEnds, ContextAbortsDoes, Drops, Dropped, LoseDoes,
       vars, ClientTypes, CallTypes, LocksOK, PlacesOK, LegacyStart, LegacyEnd, PlainNames,
       TxNames, client, transactions, executor, calls, remote
  <1>s. StepDoes
    BY Steps DEF TxInv
  <1> QED BY <1>s, <1>1, <1>2, <1>3, <1>4, <1>5, <1>6, <1>7, <1>8, <1>9 DEF StepDoes

\* A call is at a place of its method.
LEMMA PlacesKept ==
    ASSUME TxInv, [Next]_vars
    PROVE  PlacesOK'
  <1>0. /\ ClientTypes /\ CallTypes /\ LocksOK /\ PlacesOK /\ SpeakersOK
    BY DEF TxInv, TypeOK
  <1>1. ASSUME NEW c \in Callers, Enters(c) PROVE PlacesOK'
    BY <1>0, Basics, <1>1 DEF Enters, Watch, Writer, Enter, Op, Multi, TakeLegacy, SetLegacy,
       BeginTransaction, UseClient, Plain, UseTransaction, TxOps, ClientTypes, CallTypes, LocksOK,
       PlacesOK, SpeakersOK, Owning, Speaking, CommandKinds, LegacyStart, LegacyEnd, PlainNames,
       TxNames, client, transactions, executor, remote
  <1>2. ASSUME NEW c \in Callers, Acquires(c) PROVE PlacesOK'
    BY <1>0, Basics, <1>2 DEF Acquires, Acquire, Connect, SetLegacy, AcquireFails, Return, NoOp,
       Op, AcquirePlain, CannotSend, ClientTypes, CallTypes, LocksOK, PlacesOK, SpeakersOK,
       Owning, Speaking, CommandKinds, LegacyStart, LegacyEnd, PlainNames, TxNames, client,
       transactions, executor, remote
  <1>3. ASSUME NEW c \in Callers, Talks(c) PROVE PlacesOK'
    BY <1>0, Basics, <1>3 DEF Talks, SendDoes, GiveUpDoes, ClientTypes, CallTypes, LocksOK,
       PlacesOK, SpeakersOK, Owning, Speaking, CommandKinds, LegacyStart, LegacyEnd, PlainNames,
       TxNames, client, transactions, executor
  <1>4. ASSUME NEW c \in Callers, Closes(c) PROVE PlacesOK'
    BY <1>0, Basics, <1>4 DEF Closes, CloseDoes, Enter, Op, Holds, Drops, Kept, Dropped,
       CloseExecutorDoes, NoOp, ClientTypes, CallTypes, LocksOK, PlacesOK, SpeakersOK, Owning,
       Speaking, CommandKinds, LegacyStart, LegacyEnd, PlainNames, TxNames, client, transactions
  <1>5. ASSUME NEW c \in Callers, SessionDoes(c) PROVE PlacesOK'
    BY <1>0, Basics, <1>5 DEF SessionDoes, WatchDoes, Ended, Return, NoOp, Op, Holds, Drops,
       Frees, Kept, Dropped, MultiDoes, LegacyDoes, BeginDoes, ClientTypes, CallTypes, LocksOK,
       PlacesOK, SpeakersOK, Owning, Speaking, CommandKinds, LegacyStart, LegacyEnd, PlainNames,
       TxNames
  <1>6. ASSUME NEW c \in Callers, PlainDoes(c) PROVE PlacesOK'
    BY <1>0, Basics, <1>6 DEF PlainDoes, CommandDoes, CommandAcks, Ended, Return, NoOp, Op, Holds,
       Kept, PipelineDoes, ClientTypes, CallTypes, LocksOK, PlacesOK, SpeakersOK, Owning,
       Speaking, CommandKinds, LegacyStart, LegacyEnd, PlainNames, TxNames, client, transactions
  <1>7. ASSUME NEW c \in Callers, TxDoes(c) PROVE PlacesOK'
    <2>1. CASE TransactionCommandDoes(c)
      BY <1>0, Basics, <2>1 DEF TransactionCommandDoes, Ended, Return, NoOp, Op, Holds, Drops,
         Kept, Dropped, ClientTypes, CallTypes, LocksOK, PlacesOK, SpeakersOK, Owning, Speaking,
         CommandKinds, LegacyStart, LegacyEnd, PlainNames, TxNames
    <2>2. CASE TransactionDoes(c)
      BY <1>0, Basics, <2>2 DEF TransactionDoes, Ended, Return, NoOp, Op, Holds, Drops, Frees,
         Kept, Dropped, ClientTypes, CallTypes, LocksOK, PlacesOK, SpeakersOK, Owning, Speaking,
         CommandKinds, LegacyStart, LegacyEnd, PlainNames, TxNames
    <2> QED BY <1>7, <2>1, <2>2 DEF TxDoes
  <1>8. ASSUME NEW r \in Replies, ServeDoes(r) PROVE PlacesOK'
    BY <1>0, Basics, <1>8 DEF ServeDoes, ClientTypes, CallTypes, LocksOK, PlacesOK, SpeakersOK,
       Owning, Speaking, CommandKinds, LegacyStart, LegacyEnd, PlainNames, TxNames, client,
       transactions, executor
  <1>9. CASE Breaks
    BY <1>0, Basics, <1>9 DEF Breaks, ContextEnds, ContextAbortsDoes, Drops, Dropped, LoseDoes,
       vars, ClientTypes, CallTypes, LocksOK, PlacesOK, SpeakersOK, Owning, Speaking,
       CommandKinds, LegacyStart, LegacyEnd, PlainNames, TxNames, client, transactions, executor,
       calls, remote
  <1>s. StepDoes
    BY Steps DEF TxInv
  <1> QED BY <1>s, <1>1, <1>2, <1>3, <1>4, <1>5, <1>6, <1>7, <1>8, <1>9 DEF StepDoes

\* The readers of the executor's gate are the plain commands without a session.
LEMMA ReadersKept ==
    ASSUME TxInv, [Next]_vars
    PROVE  ReadersOK'
  <1>0. /\ ClientTypes /\ ExecutorTypes /\ CallTypes /\ PlacesOK /\ ReadersOK
        /\ SpeakersOK
    BY DEF TxInv, TypeOK
  <1>1. ASSUME NEW c \in Callers, Enters(c) PROVE ReadersOK'
    <2>1. CASE Watch(c)
      BY <1>0, Basics, <2>1 DEF Watch, Writer, Enter, Op, ClientTypes, ExecutorTypes, CallTypes,
         PlacesOK, ReadersOK, SpeakersOK, Owning, Speaking, LegacyStart, LegacyEnd, PlainNames,
         TxNames, transactions, executor, remote
    <2>2. CASE Multi(c)
      BY <1>0, Basics, <2>2 DEF Multi, Writer, Enter, Op, ClientTypes, ExecutorTypes, CallTypes,
         PlacesOK, ReadersOK, SpeakersOK, Owning, Speaking, LegacyStart, LegacyEnd, PlainNames,
         TxNames, transactions, executor, remote
    <2>3. CASE TakeLegacy(c)
      BY <1>0, Basics, <2>3 DEF TakeLegacy, Writer, Enter, SetLegacy, Op, ClientTypes,
         ExecutorTypes, CallTypes, PlacesOK, ReadersOK, SpeakersOK, Owning, Speaking, LegacyStart,
         LegacyEnd, PlainNames, TxNames, transactions, executor, remote
    <2>4. CASE \E x \in Txs : BeginTransaction(c, x)
      BY <1>0, Basics, <2>4 DEF BeginTransaction, Writer, Enter, SetLegacy, ClientTypes,
         ExecutorTypes, CallTypes, PlacesOK, ReadersOK, SpeakersOK, Owning, Speaking, LegacyStart,
         LegacyEnd, PlainNames, TxNames, transactions, executor, remote
    <2>5. CASE \E o \in Plain : UseClient(c, o)
      BY <1>0, Basics, <2>5 DEF UseClient, Enter, Plain, ClientTypes, ExecutorTypes, CallTypes,
         PlacesOK, ReadersOK, SpeakersOK, Owning, Speaking, LegacyStart, LegacyEnd, PlainNames,
         TxNames, transactions, executor, remote
    <2>6. CASE \E o \in TxOps : UseTransaction(c, o)
      BY <1>0, Basics, <2>6 DEF UseTransaction, Enter, TxOps, ClientTypes, ExecutorTypes,
         CallTypes, PlacesOK, ReadersOK, SpeakersOK, Owning, Speaking, LegacyStart, LegacyEnd,
         PlainNames, TxNames, client, executor, remote
    <2> QED BY <1>1, <2>1, <2>2, <2>3, <2>4, <2>5, <2>6 DEF Enters
  <1>2. ASSUME NEW c \in Callers, Acquires(c) PROVE ReadersOK'
    <2>1. CASE Acquire(c)
      BY <1>0, Basics, <2>1 DEF Acquire, Connect, SetLegacy, ClientTypes, ExecutorTypes,
         CallTypes, PlacesOK, ReadersOK, SpeakersOK, Owning, Speaking, LegacyStart, LegacyEnd,
         PlainNames, TxNames, transactions, remote
    <2>2. CASE AcquireFails(c)
      BY <1>0, Basics, <2>2 DEF AcquireFails, Return, NoOp, Op, ClientTypes, ExecutorTypes,
         CallTypes, PlacesOK, ReadersOK, SpeakersOK, Owning, Speaking, LegacyStart, LegacyEnd,
         PlainNames, TxNames, transactions, executor, remote
    <2>3. CASE AcquirePlain(c)
      BY <1>0, Basics, <2>3 DEF AcquirePlain, Connect, ClientTypes, ExecutorTypes, CallTypes,
         PlacesOK, ReadersOK, SpeakersOK, Owning, Speaking, LegacyStart, LegacyEnd, PlainNames,
         TxNames, client, transactions, remote
    <2>4. CASE CannotSend(c)
      BY <1>0, Basics, <2>4 DEF CannotSend, ClientTypes, ExecutorTypes, CallTypes, PlacesOK,
         ReadersOK, SpeakersOK, Owning, Speaking, LegacyStart, LegacyEnd, PlainNames, TxNames,
         client, transactions, executor, remote
    <2> QED BY <1>2, <2>1, <2>2, <2>3, <2>4 DEF Acquires
  <1>3. ASSUME NEW c \in Callers, Talks(c) PROVE ReadersOK'
    BY <1>0, Basics, <1>3 DEF Talks, SendDoes, GiveUpDoes, ClientTypes, ExecutorTypes, CallTypes,
       PlacesOK, ReadersOK, SpeakersOK, Owning, Speaking, LegacyStart, LegacyEnd, PlainNames,
       TxNames, client, transactions, executor
  <1>4. ASSUME NEW c \in Callers, Closes(c) PROVE ReadersOK'
    <2>1. CASE CloseDoes(c)
      BY <1>0, Basics, <2>1 DEF CloseDoes, Enter, Op, Holds, Drops, Kept, Dropped, ClientTypes,
         ExecutorTypes, CallTypes, PlacesOK, ReadersOK, SpeakersOK, Owning, Speaking, LegacyStart,
         LegacyEnd, PlainNames, TxNames, transactions
    <2>2. CASE CloseExecutorDoes(c)
      BY <1>0, Basics, <2>2 DEF CloseExecutorDoes, Op, NoOp, Dropped, ClientTypes, ExecutorTypes,
         CallTypes, PlacesOK, ReadersOK, SpeakersOK, Owning, Speaking, LegacyStart, LegacyEnd,
         PlainNames, TxNames, client, transactions
    <2> QED BY <1>4, <2>1, <2>2 DEF Closes
  <1>5. ASSUME NEW c \in Callers, SessionDoes(c) PROVE ReadersOK'
    <2>1. CASE WatchDoes(c)
      BY <1>0, Basics, <2>1 DEF WatchDoes, Ended, Return, NoOp, Op, Holds, Drops, Kept, Dropped,
         ClientTypes, ExecutorTypes, CallTypes, PlacesOK, ReadersOK, SpeakersOK, Owning, Speaking,
         LegacyStart, LegacyEnd, PlainNames, TxNames
    <2>2. CASE MultiDoes(c)
      BY <1>0, Basics, <2>2 DEF MultiDoes, Ended, Return, NoOp, Op, Holds, Drops, Kept, Dropped,
         ClientTypes, ExecutorTypes, CallTypes, PlacesOK, ReadersOK, SpeakersOK, Owning, Speaking,
         LegacyStart, LegacyEnd, PlainNames, TxNames
    <2>3. CASE LegacyDoes(c)
      BY <1>0, Basics, <2>3 DEF LegacyDoes, Ended, Return, NoOp, Op, Drops, Frees, Kept, Dropped,
         ClientTypes, ExecutorTypes, CallTypes, PlacesOK, ReadersOK, SpeakersOK, Owning, Speaking,
         LegacyStart, LegacyEnd, PlainNames, TxNames
    <2>4. CASE BeginDoes(c)
      BY <1>0, Basics, <2>4 DEF BeginDoes, Return, NoOp, Op, Holds, Drops, Kept, Dropped,
         ClientTypes, ExecutorTypes, CallTypes, PlacesOK, ReadersOK, SpeakersOK, Owning, Speaking,
         LegacyStart, LegacyEnd, PlainNames, TxNames
    <2> QED BY <1>5, <2>1, <2>2, <2>3, <2>4 DEF SessionDoes
  <1>6. ASSUME NEW c \in Callers, PlainDoes(c) PROVE ReadersOK'
    <2>1. CASE CommandDoes(c)
      BY <1>0, Basics, <2>1 DEF CommandDoes, CommandAcks, Ended, Return, NoOp, Op, Holds, Kept,
         ClientTypes, ExecutorTypes, CallTypes, PlacesOK, ReadersOK, SpeakersOK, Owning, Speaking,
         LegacyStart, LegacyEnd, PlainNames, TxNames
    <2>2. CASE PipelineDoes(c)
      BY <1>0, Basics, <2>2 DEF PipelineDoes, CommandAcks, Holds, Kept, ClientTypes,
         ExecutorTypes, CallTypes, PlacesOK, ReadersOK, SpeakersOK, Owning, Speaking, LegacyStart,
         LegacyEnd, PlainNames, TxNames, client, transactions
    <2> QED BY <1>6, <2>1, <2>2 DEF PlainDoes
  <1>7. ASSUME NEW c \in Callers, TxDoes(c) PROVE ReadersOK'
    <2>1. CASE TransactionCommandDoes(c)
      BY <1>0, Basics, <2>1 DEF TransactionCommandDoes, Ended, Return, NoOp, Op, Holds, Drops,
         Kept, Dropped, ClientTypes, ExecutorTypes, CallTypes, PlacesOK, ReadersOK, SpeakersOK,
         Owning, Speaking, LegacyStart, LegacyEnd, PlainNames, TxNames
    <2>2. CASE TransactionDoes(c)
      BY <1>0, Basics, <2>2 DEF TransactionDoes, Ended, Return, NoOp, Op, Holds, Drops, Frees,
         Kept, Dropped, ClientTypes, ExecutorTypes, CallTypes, PlacesOK, ReadersOK, SpeakersOK,
         Owning, Speaking, LegacyStart, LegacyEnd, PlainNames, TxNames
    <2> QED BY <1>7, <2>1, <2>2 DEF TxDoes
  <1>8. ASSUME NEW r \in Replies, ServeDoes(r) PROVE ReadersOK'
    BY <1>0, Basics, <1>8 DEF ServeDoes, ClientTypes, ExecutorTypes, CallTypes, PlacesOK,
       ReadersOK, SpeakersOK, Owning, Speaking, LegacyStart, LegacyEnd, PlainNames, TxNames,
       client, transactions, executor
  <1>9. CASE Breaks
    BY <1>0, Basics, <1>9 DEF Breaks, ContextEnds, ContextAbortsDoes, Drops, Dropped, LoseDoes,
       vars, ClientTypes, ExecutorTypes, CallTypes, PlacesOK, ReadersOK, SpeakersOK, Owning,
       Speaking, LegacyStart, LegacyEnd, PlainNames, TxNames, client, transactions, executor,
       calls, remote
  <1>s. StepDoes
    BY Steps DEF TxInv
  <1> QED BY <1>s, <1>1, <1>2, <1>3, <1>4, <1>5, <1>6, <1>7, <1>8, <1>9 DEF StepDoes

\* The session at the gate is the only one that is not finished.
LEMMA SessionsKept ==
    ASSUME TxInv, [Next]_vars
    PROVE  SessionsOK'
  <1>0. /\ ClientTypes /\ ExecutorTypes /\ CallTypes /\ SessionsOK /\ SpeakersOK
        /\ TransactionsOK
    BY DEF TxInv, TypeOK
  <1>1. ASSUME NEW c \in Callers, Enters(c) PROVE SessionsOK'
    <2>1. CASE Watch(c)
      BY <1>0, Basics, <2>1 DEF Watch, Writer, Enter, Op, ClientTypes, ExecutorTypes, CallTypes,
         SessionsOK, SpeakersOK, TransactionsOK, Active, transactions, executor, remote
    <2>2. CASE Multi(c)
      BY <1>0, Basics, <2>2 DEF Multi, Writer, Enter, Op, ClientTypes, ExecutorTypes, CallTypes,
         SessionsOK, SpeakersOK, TransactionsOK, Active, transactions, executor, remote
    <2>3. CASE TakeLegacy(c)
      BY <1>0, Basics, <2>3 DEF TakeLegacy, Writer, Enter, SetLegacy, Op, ClientTypes,
         ExecutorTypes, CallTypes, SessionsOK, SpeakersOK, TransactionsOK, Active, transactions,
         executor, remote
    <2>4. CASE \E x \in Txs : BeginTransaction(c, x)
      BY <1>0, Basics, <2>4 DEF BeginTransaction, Writer, Enter, SetLegacy, ClientTypes,
         ExecutorTypes, CallTypes, SessionsOK, SpeakersOK, TransactionsOK, Active, transactions,
         executor, remote
    <2>5. CASE \E o \in Plain : UseClient(c, o)
      BY <1>0, Basics, <2>5 DEF UseClient, Enter, Plain, ClientTypes, ExecutorTypes, CallTypes,
         SessionsOK, SpeakersOK, TransactionsOK, Active, transactions, executor, remote
    <2>6. CASE \E o \in TxOps : UseTransaction(c, o)
      BY <1>0, Basics, <2>6 DEF UseTransaction, Enter, TxOps, ClientTypes, ExecutorTypes,
         CallTypes, SessionsOK, SpeakersOK, TransactionsOK, Active, client, executor, remote
    <2> QED BY <1>1, <2>1, <2>2, <2>3, <2>4, <2>5, <2>6 DEF Enters
  <1>2. ASSUME NEW c \in Callers, Acquires(c) PROVE SessionsOK'
    <2>1. CASE Acquire(c)
      BY <1>0, Basics, <2>1 DEF Acquire, Connect, SetLegacy, ClientTypes, ExecutorTypes,
         CallTypes, SessionsOK, SpeakersOK, TransactionsOK, Active, transactions, remote
    <2>2. CASE AcquireFails(c)
      BY <1>0, Basics, <2>2 DEF AcquireFails, Return, NoOp, Op, ClientTypes, ExecutorTypes,
         CallTypes, SessionsOK, SpeakersOK, TransactionsOK, Active, transactions, executor, remote
    <2>3. CASE AcquirePlain(c)
      BY <1>0, Basics, <2>3 DEF AcquirePlain, Connect, ClientTypes, ExecutorTypes, CallTypes,
         SessionsOK, SpeakersOK, TransactionsOK, Active, client, transactions, remote
    <2>4. CASE CannotSend(c)
      BY <1>0, Basics, <2>4 DEF CannotSend, ClientTypes, ExecutorTypes, CallTypes, SessionsOK,
         SpeakersOK, TransactionsOK, Active, client, transactions, executor, remote
    <2> QED BY <1>2, <2>1, <2>2, <2>3, <2>4 DEF Acquires
  <1>3. ASSUME NEW c \in Callers, Talks(c) PROVE SessionsOK'
    BY <1>0, Basics, <1>3 DEF Talks, SendDoes, GiveUpDoes, ClientTypes, ExecutorTypes, CallTypes,
       SessionsOK, SpeakersOK, TransactionsOK, Active, client, transactions, executor
  <1>4. ASSUME NEW c \in Callers, Closes(c) PROVE SessionsOK'
    BY <1>0, Basics, <1>4 DEF Closes, CloseDoes, Enter, Op, Holds, Drops, Kept, Dropped,
       CloseExecutorDoes, NoOp, ClientTypes, ExecutorTypes, CallTypes, SessionsOK, SpeakersOK,
       TransactionsOK, Active, client, transactions
  <1>5. ASSUME NEW c \in Callers, SessionDoes(c) PROVE SessionsOK'
    <2>1. CASE WatchDoes(c)
      BY <1>0, Basics, <2>1 DEF WatchDoes, Ended, Return, NoOp, Op, Holds, Drops, Kept, Dropped,
         ClientTypes, ExecutorTypes, CallTypes, SessionsOK, SpeakersOK, TransactionsOK, Active
    <2>2. CASE MultiDoes(c)
      BY <1>0, Basics, <2>2 DEF MultiDoes, Ended, Return, NoOp, Op, Holds, Drops, Kept, Dropped,
         ClientTypes, ExecutorTypes, CallTypes, SessionsOK, SpeakersOK, TransactionsOK, Active
    <2>3. CASE LegacyDoes(c)
      BY <1>0, Basics, <2>3 DEF LegacyDoes, Ended, Return, NoOp, Op, Drops, Frees, Kept, Dropped,
         ClientTypes, ExecutorTypes, CallTypes, SessionsOK, SpeakersOK, TransactionsOK, Active
    <2>4. CASE BeginDoes(c)
      BY <1>0, Basics, <2>4 DEF BeginDoes, Return, NoOp, Op, Holds, Drops, Kept, Dropped,
         ClientTypes, ExecutorTypes, CallTypes, SessionsOK, SpeakersOK, TransactionsOK, Active
    <2> QED BY <1>5, <2>1, <2>2, <2>3, <2>4 DEF SessionDoes
  <1>6. ASSUME NEW c \in Callers, PlainDoes(c) PROVE SessionsOK'
    <2>1. CASE CommandDoes(c)
      BY <1>0, Basics, <2>1 DEF CommandDoes, CommandAcks, Ended, Return, NoOp, Op, Holds, Kept,
         ClientTypes, ExecutorTypes, CallTypes, SessionsOK, SpeakersOK, TransactionsOK, Active
    <2>2. CASE PipelineDoes(c)
      BY <1>0, Basics, <2>2 DEF PipelineDoes, CommandAcks, Holds, Kept, ClientTypes,
         ExecutorTypes, CallTypes, SessionsOK, SpeakersOK, TransactionsOK, Active, client,
         transactions
    <2> QED BY <1>6, <2>1, <2>2 DEF PlainDoes
  <1>7. ASSUME NEW c \in Callers, TxDoes(c) PROVE SessionsOK'
    <2>1. CASE TransactionCommandDoes(c)
      BY <1>0, Basics, <2>1 DEF TransactionCommandDoes, Ended, Return, NoOp, Op, Holds, Drops,
         Kept, Dropped, ClientTypes, ExecutorTypes, CallTypes, SessionsOK, SpeakersOK,
         TransactionsOK, Active
    <2>2. CASE TransactionDoes(c)
      BY <1>0, Basics, <2>2 DEF TransactionDoes, Ended, Return, NoOp, Op, Holds, Drops, Frees,
         Kept, Dropped, ClientTypes, ExecutorTypes, CallTypes, SessionsOK, SpeakersOK,
         TransactionsOK, Active
    <2> QED BY <1>7, <2>1, <2>2 DEF TxDoes
  <1>8. ASSUME NEW r \in Replies, ServeDoes(r) PROVE SessionsOK'
    BY <1>0, Basics, <1>8 DEF ServeDoes, ClientTypes, ExecutorTypes, CallTypes, SessionsOK,
       SpeakersOK, TransactionsOK, Active, client, transactions, executor
  <1>9. CASE Breaks
    BY <1>0, Basics, <1>9 DEF Breaks, ContextEnds, ContextAbortsDoes, Drops, Dropped, LoseDoes,
       vars, ClientTypes, ExecutorTypes, CallTypes, SessionsOK, SpeakersOK, TransactionsOK,
       Active, client, transactions, executor, calls, remote
  <1>s. StepDoes
    BY Steps DEF TxInv
  <1> QED BY <1>s, <1>1, <1>2, <1>3, <1>4, <1>5, <1>6, <1>7, <1>8, <1>9 DEF StepDoes

\* A call speaks on the session of its method, or on one that is finished.
LEMMA SpeakersKept ==
    ASSUME TxInv, [Next]_vars
    PROVE  SpeakersOK'
  <1>0. /\ ClientTypes /\ ExecutorTypes /\ CallTypes /\ LocksOK /\ PlacesOK
        /\ SessionsOK /\ SpeakersOK /\ TransactionsOK
    BY DEF TxInv, TypeOK
  <1>1. ASSUME NEW c \in Callers, Enters(c) PROVE SpeakersOK'
    <2>1. CASE Watch(c)
      BY <1>0, Basics, <2>1 DEF Watch, Writer, Enter, Op, ClientTypes, ExecutorTypes, CallTypes,
         LocksOK, PlacesOK, SessionsOK, SpeakersOK, TransactionsOK, Active, Owning, Speaking,
         LegacyStart, LegacyEnd, PlainNames, TxNames, transactions, executor, remote
    <2>2. CASE Multi(c)
      BY <1>0, Basics, <2>2 DEF Multi, Writer, Enter, Op, ClientTypes, ExecutorTypes, CallTypes,
         LocksOK, PlacesOK, SessionsOK, SpeakersOK, TransactionsOK, Active, Owning, Speaking,
         LegacyStart, LegacyEnd, PlainNames, TxNames, transactions, executor, remote
    <2>3. CASE TakeLegacy(c)
      BY <1>0, Basics, <2>3 DEF TakeLegacy, Writer, Enter, SetLegacy, Op, ClientTypes,
         ExecutorTypes, CallTypes, LocksOK, PlacesOK, SessionsOK, SpeakersOK, TransactionsOK,
         Active, Owning, Speaking, LegacyStart, LegacyEnd, PlainNames, TxNames, transactions,
         executor, remote
    <2>4. CASE \E x \in Txs : BeginTransaction(c, x)
      BY <1>0, Basics, <2>4 DEF BeginTransaction, Writer, Enter, SetLegacy, ClientTypes,
         ExecutorTypes, CallTypes, LocksOK, PlacesOK, SessionsOK, SpeakersOK, TransactionsOK,
         Active, Owning, Speaking, LegacyStart, LegacyEnd, PlainNames, TxNames, transactions,
         executor, remote
    <2>5. CASE \E o \in Plain : UseClient(c, o)
      BY <1>0, Basics, <2>5 DEF UseClient, Enter, Plain, ClientTypes, ExecutorTypes, CallTypes,
         LocksOK, PlacesOK, SessionsOK, SpeakersOK, TransactionsOK, Active, Owning, Speaking,
         LegacyStart, LegacyEnd, PlainNames, TxNames, transactions, executor, remote
    <2>6. CASE \E o \in TxOps : UseTransaction(c, o)
      BY <1>0, Basics, <2>6 DEF UseTransaction, Enter, TxOps, ClientTypes, ExecutorTypes,
         CallTypes, LocksOK, PlacesOK, SessionsOK, SpeakersOK, TransactionsOK, Active, Owning,
         Speaking, LegacyStart, LegacyEnd, PlainNames, TxNames, client, executor, remote
    <2> QED BY <1>1, <2>1, <2>2, <2>3, <2>4, <2>5, <2>6 DEF Enters
  <1>2. ASSUME NEW c \in Callers, Acquires(c) PROVE SpeakersOK'
    <2>1. CASE Acquire(c)
      BY <1>0, Basics, <2>1 DEF Acquire, Connect, SetLegacy, ClientTypes, ExecutorTypes,
         CallTypes, LocksOK, PlacesOK, SessionsOK, SpeakersOK, TransactionsOK, Active, Owning,
         Speaking, LegacyStart, LegacyEnd, PlainNames, TxNames, transactions, remote
    <2>2. CASE AcquireFails(c)
      BY <1>0, Basics, <2>2 DEF AcquireFails, Return, NoOp, Op, ClientTypes, ExecutorTypes,
         CallTypes, LocksOK, PlacesOK, SessionsOK, SpeakersOK, TransactionsOK, Active, Owning,
         Speaking, LegacyStart, LegacyEnd, PlainNames, TxNames, transactions, executor, remote
    <2>3. CASE AcquirePlain(c)
      BY <1>0, Basics, <2>3 DEF AcquirePlain, Connect, ClientTypes, ExecutorTypes, CallTypes,
         LocksOK, PlacesOK, SessionsOK, SpeakersOK, TransactionsOK, Active, Owning, Speaking,
         LegacyStart, LegacyEnd, PlainNames, TxNames, client, transactions, remote
    <2>4. CASE CannotSend(c)
      BY <1>0, Basics, <2>4 DEF CannotSend, ClientTypes, ExecutorTypes, CallTypes, LocksOK,
         PlacesOK, SessionsOK, SpeakersOK, TransactionsOK, Active, Owning, Speaking, LegacyStart,
         LegacyEnd, PlainNames, TxNames, client, transactions, executor, remote
    <2> QED BY <1>2, <2>1, <2>2, <2>3, <2>4 DEF Acquires
  <1>3. ASSUME NEW c \in Callers, Talks(c) PROVE SpeakersOK'
    BY <1>0, Basics, <1>3 DEF Talks, SendDoes, GiveUpDoes, ClientTypes, ExecutorTypes, CallTypes,
       LocksOK, PlacesOK, SessionsOK, SpeakersOK, TransactionsOK, Active, Owning, Speaking,
       LegacyStart, LegacyEnd, PlainNames, TxNames, client, transactions, executor
  <1>4. ASSUME NEW c \in Callers, Closes(c) PROVE SpeakersOK'
    <2>1. CASE CloseDoes(c)
      BY <1>0, Basics, <2>1 DEF CloseDoes, Enter, Op, Holds, Drops, Kept, Dropped, ClientTypes,
         ExecutorTypes, CallTypes, LocksOK, PlacesOK, SessionsOK, SpeakersOK, TransactionsOK,
         Active, Owning, Speaking, LegacyStart, LegacyEnd, PlainNames, TxNames, transactions
    <2>2. CASE CloseExecutorDoes(c)
      BY <1>0, Basics, <2>2 DEF CloseExecutorDoes, Op, NoOp, Dropped, ClientTypes, ExecutorTypes,
         CallTypes, LocksOK, PlacesOK, SessionsOK, SpeakersOK, TransactionsOK, Active, Owning,
         Speaking, LegacyStart, LegacyEnd, PlainNames, TxNames, client, transactions
    <2> QED BY <1>4, <2>1, <2>2 DEF Closes
  <1>5. ASSUME NEW c \in Callers, SessionDoes(c) PROVE SpeakersOK'
    BY <1>0, Basics, <1>5 DEF SessionDoes, WatchDoes, Ended, Return, NoOp, Op, Holds, Drops,
       Frees, Kept, Dropped, MultiDoes, LegacyDoes, BeginDoes, ClientTypes, ExecutorTypes,
       CallTypes, LocksOK, PlacesOK, SessionsOK, SpeakersOK, TransactionsOK, Active, Owning,
       Speaking, LegacyStart, LegacyEnd, PlainNames, TxNames
  <1>6. ASSUME NEW c \in Callers, PlainDoes(c) PROVE SpeakersOK'
    <2>1. CASE CommandDoes(c)
      BY <1>0, Basics, <2>1 DEF CommandDoes, CommandAcks, Ended, Return, NoOp, Op, Holds, Kept,
         ClientTypes, ExecutorTypes, CallTypes, LocksOK, PlacesOK, SessionsOK, SpeakersOK,
         TransactionsOK, Active, Owning, Speaking, LegacyStart, LegacyEnd, PlainNames, TxNames
    <2>2. CASE PipelineDoes(c)
      BY <1>0, Basics, <2>2 DEF PipelineDoes, CommandAcks, Holds, Kept, ClientTypes,
         ExecutorTypes, CallTypes, LocksOK, PlacesOK, SessionsOK, SpeakersOK, TransactionsOK,
         Active, Owning, Speaking, LegacyStart, LegacyEnd, PlainNames, TxNames, client,
         transactions
    <2> QED BY <1>6, <2>1, <2>2 DEF PlainDoes
  <1>7. ASSUME NEW c \in Callers, TxDoes(c) PROVE SpeakersOK'
    <2>1. CASE TransactionCommandDoes(c)
      BY <1>0, Basics, <2>1 DEF TransactionCommandDoes, Ended, Return, NoOp, Op, Holds, Drops,
         Kept, Dropped, ClientTypes, ExecutorTypes, CallTypes, LocksOK, PlacesOK, SessionsOK,
         SpeakersOK, TransactionsOK, Active, Owning, Speaking, LegacyStart, LegacyEnd, PlainNames,
         TxNames
    <2>2. CASE TransactionDoes(c)
      BY <1>0, Basics, <2>2 DEF TransactionDoes, Ended, Return, NoOp, Op, Holds, Drops, Frees,
         Kept, Dropped, ClientTypes, ExecutorTypes, CallTypes, LocksOK, PlacesOK, SessionsOK,
         SpeakersOK, TransactionsOK, Active, Owning, Speaking, LegacyStart, LegacyEnd, PlainNames,
         TxNames
    <2> QED BY <1>7, <2>1, <2>2 DEF TxDoes
  <1>8. ASSUME NEW r \in Replies, ServeDoes(r) PROVE SpeakersOK'
    BY <1>0, Basics, <1>8 DEF ServeDoes, ClientTypes, ExecutorTypes, CallTypes, LocksOK, PlacesOK,
       SessionsOK, SpeakersOK, TransactionsOK, Active, Owning, Speaking, LegacyStart, LegacyEnd,
       PlainNames, TxNames, client, transactions, executor
  <1>9. CASE Breaks
    BY <1>0, Basics, <1>9 DEF Breaks, ContextEnds, ContextAbortsDoes, Drops, Dropped, LoseDoes,
       vars, ClientTypes, ExecutorTypes, CallTypes, LocksOK, PlacesOK, SessionsOK, SpeakersOK,
       TransactionsOK, Active, Owning, Speaking, LegacyStart, LegacyEnd, PlainNames, TxNames,
       client, transactions, executor, calls, remote
  <1>s. StepDoes
    BY Steps DEF TxInv
  <1> QED BY <1>s, <1>1, <1>2, <1>3, <1>4, <1>5, <1>6, <1>7, <1>8, <1>9 DEF StepDoes

\* A Transaction that is not closed owns the session at the gate alone.
LEMMA TransactionsKept ==
    ASSUME TxInv, [Next]_vars
    PROVE  TransactionsOK'
  <1>0. /\ ClientTypes /\ ExecutorTypes /\ CallTypes /\ LocksOK /\ PlacesOK
        /\ SessionsOK /\ SpeakersOK /\ TransactionsOK
    BY DEF TxInv, TypeOK
  <1>1. ASSUME NEW c \in Callers, Enters(c) PROVE TransactionsOK'
    <2>1. CASE Watch(c)
      BY <1>0, Basics, <2>1 DEF Watch, Writer, Enter, Op, ClientTypes, ExecutorTypes, CallTypes,
         LocksOK, PlacesOK, SessionsOK, SpeakersOK, TransactionsOK, Active, Owning, Speaking,
         LegacyStart, LegacyEnd, PlainNames, TxNames, transactions, executor, remote
    <2>2. CASE Multi(c)
      BY <1>0, Basics, <2>2 DEF Multi, Writer, Enter, Op, ClientTypes, ExecutorTypes, CallTypes,
         LocksOK, PlacesOK, SessionsOK, SpeakersOK, TransactionsOK, Active, Owning, Speaking,
         LegacyStart, LegacyEnd, PlainNames, TxNames, transactions, executor, remote
    <2>3. CASE TakeLegacy(c)
      BY <1>0, Basics, <2>3 DEF TakeLegacy, Writer, Enter, SetLegacy, Op, ClientTypes,
         ExecutorTypes, CallTypes, LocksOK, PlacesOK, SessionsOK, SpeakersOK, TransactionsOK,
         Active, Owning, Speaking, LegacyStart, LegacyEnd, PlainNames, TxNames, transactions,
         executor, remote
    <2>4. CASE \E x \in Txs : BeginTransaction(c, x)
      BY <1>0, Basics, <2>4 DEF BeginTransaction, Writer, Enter, SetLegacy, ClientTypes,
         ExecutorTypes, CallTypes, LocksOK, PlacesOK, SessionsOK, SpeakersOK, TransactionsOK,
         Active, Owning, Speaking, LegacyStart, LegacyEnd, PlainNames, TxNames, transactions,
         executor, remote
    <2>5. CASE \E o \in Plain : UseClient(c, o)
      BY <1>0, Basics, <2>5 DEF UseClient, Enter, Plain, ClientTypes, ExecutorTypes, CallTypes,
         LocksOK, PlacesOK, SessionsOK, SpeakersOK, TransactionsOK, Active, Owning, Speaking,
         LegacyStart, LegacyEnd, PlainNames, TxNames, transactions, executor, remote
    <2>6. CASE \E o \in TxOps : UseTransaction(c, o)
      BY <1>0, Basics, <2>6 DEF UseTransaction, Enter, TxOps, ClientTypes, ExecutorTypes,
         CallTypes, LocksOK, PlacesOK, SessionsOK, SpeakersOK, TransactionsOK, Active, Owning,
         Speaking, LegacyStart, LegacyEnd, PlainNames, TxNames, client, executor, remote
    <2> QED BY <1>1, <2>1, <2>2, <2>3, <2>4, <2>5, <2>6 DEF Enters
  <1>2. ASSUME NEW c \in Callers, Acquires(c) PROVE TransactionsOK'
    BY <1>0, Basics, <1>2 DEF Acquires, Acquire, Connect, SetLegacy, AcquireFails, Return, NoOp,
       Op, AcquirePlain, CannotSend, ClientTypes, ExecutorTypes, CallTypes, LocksOK, PlacesOK,
       SessionsOK, SpeakersOK, TransactionsOK, Active, Owning, Speaking, LegacyStart, LegacyEnd,
       PlainNames, TxNames, client, transactions, executor, remote
  <1>3. ASSUME NEW c \in Callers, Talks(c) PROVE TransactionsOK'
    BY <1>0, Basics, <1>3 DEF Talks, SendDoes, GiveUpDoes, ClientTypes, ExecutorTypes, CallTypes,
       LocksOK, PlacesOK, SessionsOK, SpeakersOK, TransactionsOK, Active, Owning, Speaking,
       LegacyStart, LegacyEnd, PlainNames, TxNames, client, transactions, executor
  <1>4. ASSUME NEW c \in Callers, Closes(c) PROVE TransactionsOK'
    <2>1. CASE CloseDoes(c)
      BY <1>0, Basics, <2>1 DEF CloseDoes, Enter, Op, Holds, Drops, Kept, Dropped, ClientTypes,
         ExecutorTypes, CallTypes, LocksOK, PlacesOK, SessionsOK, SpeakersOK, TransactionsOK,
         Active, Owning, Speaking, LegacyStart, LegacyEnd, PlainNames, TxNames, transactions
    <2>2. CASE CloseExecutorDoes(c)
      BY <1>0, Basics, <2>2 DEF CloseExecutorDoes, Op, NoOp, Dropped, ClientTypes, ExecutorTypes,
         CallTypes, LocksOK, PlacesOK, SessionsOK, SpeakersOK, TransactionsOK, Active, Owning,
         Speaking, LegacyStart, LegacyEnd, PlainNames, TxNames, client, transactions
    <2> QED BY <1>4, <2>1, <2>2 DEF Closes
  <1>5. ASSUME NEW c \in Callers, SessionDoes(c) PROVE TransactionsOK'
    <2>1. CASE BeginDoes(c)
      <3> DEFINE y == op[c].tx
      <3>1. y \in Txs /\ txState[y] = "none" /\ \A x \in Txs : ~ Active(x)
        BY <1>0, <2>1 DEF BeginDoes, PlacesOK, SpeakersOK, TransactionsOK, Owning, Speaking
      <3>2. legacy = 0 /\ legacy' = 0 /\ sess[c] = gate /\ gate # 0
        BY <1>0, <2>1 DEF BeginDoes, SpeakersOK, Owning
      <3>3. \A d \in Callers : op'[d].name \notin Owning
        BY <1>0, <2>1 DEF BeginDoes, Return, LocksOK, CallTypes, NoOp, Op, Owning, LegacyStart,
           LegacyEnd
      <3>4. CASE Accepted(c) /\ Holds(c) /\ txState' = [txState EXCEPT ![y] = "open"] /\ txSess' = [txSess EXCEPT ![y] = gate]
        BY <1>0, <3>1, <3>2, <3>3, <3>4 DEF TransactionsOK, Active, ClientTypes, Holds
      <3>5. CASE Drops(c) /\ UNCHANGED <<txState, txSess>>
        BY <1>0, <3>1, <3>2, <3>3, <3>5 DEF TransactionsOK, Active, ClientTypes, Drops
      <3> QED BY <2>1, <3>4, <3>5 DEF BeginDoes
    <2>2. CASE WatchDoes(c) \/ MultiDoes(c) \/ LegacyDoes(c)
      BY <1>0, Basics, <2>2 DEF WatchDoes, Ended, Return, NoOp, Op, Holds, Drops, Frees, Kept,
         Dropped, MultiDoes, LegacyDoes, ClientTypes, ExecutorTypes, CallTypes, LocksOK, PlacesOK,
         SessionsOK, SpeakersOK, TransactionsOK, Active, Owning, Speaking, LegacyStart, LegacyEnd,
         PlainNames, TxNames
    <2> QED BY <1>5, <2>1, <2>2 DEF SessionDoes
  <1>6. ASSUME NEW c \in Callers, PlainDoes(c) PROVE TransactionsOK'
    BY <1>0, Basics, <1>6 DEF PlainDoes, CommandDoes, CommandAcks, Ended, Return, NoOp, Op, Holds,
       Kept, PipelineDoes, ClientTypes, ExecutorTypes, CallTypes, LocksOK, PlacesOK, SessionsOK,
       SpeakersOK, TransactionsOK, Active, Owning, Speaking, LegacyStart, LegacyEnd, PlainNames,
       TxNames, client, transactions
  <1>7. ASSUME NEW c \in Callers, TxDoes(c) PROVE TransactionsOK'
    <2>1. CASE TransactionCommandDoes(c)
      <3> DEFINE y == op[c].tx
      <3>1. y \in Txs /\ txSess' = txSess /\ legacy' = legacy
        BY <1>0, <2>1 DEF TransactionCommandDoes, Ended, PlacesOK, TxNames
      <3>2. \A d \in Callers : pc'[d] \in Speaking /\ op'[d].name \in Owning => pc[d] \in Speaking /\ op[d].name \in Owning
        BY <1>0, <2>1 DEF TransactionCommandDoes, Ended, Return, CallTypes, NoOp, Op, Owning,
           LegacyEnd, Speaking
      <3> HIDE DEF y
      <3>3. CASE txState' = txState /\ gate' = gate /\ finished' = finished
        BY <1>0, <3>1, <3>2, <3>3 DEF TransactionsOK, Active
      <3>4. CASE /\ txState[y] = "open" /\ txState' = [txState EXCEPT ![y] = "closed"]
                /\ finished' = finished \cup {gate}
        BY <1>0, <3>1, <3>2, <3>4 DEF TransactionsOK, Active, ClientTypes
      <3> QED BY <2>1, <3>3, <3>4 DEF TransactionCommandDoes, Holds, Drops, Frees, Kept, Dropped, y
    <2>2. CASE TransactionDoes(c)
      <3> DEFINE y == op[c].tx
      <3>1. y \in Txs /\ txSess' = txSess /\ legacy' = legacy
        BY <1>0, <2>2 DEF TransactionDoes, Ended, PlacesOK, TxNames
      <3>2. \A d \in Callers : pc'[d] \in Speaking /\ op'[d].name \in Owning => pc[d] \in Speaking /\ op[d].name \in Owning
        BY <1>0, <2>2 DEF TransactionDoes, Ended, Return, CallTypes, NoOp, Op, Owning, LegacyEnd,
           Speaking
      <3> HIDE DEF y
      <3>3. CASE txState' = txState /\ gate' = gate /\ finished' = finished
        BY <1>0, <3>1, <3>2, <3>3 DEF TransactionsOK, Active
      <3>4. CASE /\ txState[y] = "open" /\ txState' = [txState EXCEPT ![y] = "closed"]
                /\ finished' = finished \cup {gate}
        BY <1>0, <3>1, <3>2, <3>4 DEF TransactionsOK, Active, ClientTypes
      <3> QED BY <2>2, <3>3, <3>4 DEF TransactionDoes, Holds, Drops, Frees, Kept, Dropped, y
    <2> QED BY <1>7, <2>1, <2>2 DEF TxDoes
  <1>8. ASSUME NEW r \in Replies, ServeDoes(r) PROVE TransactionsOK'
    BY <1>0, Basics, <1>8 DEF ServeDoes, ClientTypes, ExecutorTypes, CallTypes, LocksOK, PlacesOK,
       SessionsOK, SpeakersOK, TransactionsOK, Active, Owning, Speaking, LegacyStart, LegacyEnd,
       PlainNames, TxNames, client, transactions, executor
  <1>9. CASE Breaks
    <2>1. CASE \E x \in Txs : ContextEnds(x)
      BY <1>0, Basics, <2>1 DEF ContextEnds, ClientTypes, ExecutorTypes, CallTypes, LocksOK,
         PlacesOK, SessionsOK, SpeakersOK, TransactionsOK, Active, Owning, Speaking, LegacyStart,
         LegacyEnd, PlainNames, TxNames, client, executor, calls, remote
    <2>2. CASE \E x \in Txs : ContextAbortsDoes(x)
      BY <1>0, Basics, <2>2 DEF ContextAbortsDoes, Drops, Dropped, ClientTypes, ExecutorTypes,
         CallTypes, LocksOK, PlacesOK, SessionsOK, SpeakersOK, TransactionsOK, Active, Owning,
         Speaking, LegacyStart, LegacyEnd, PlainNames, TxNames, client
    <2>3. CASE LoseDoes
      BY <1>0, Basics, <2>3 DEF LoseDoes, Dropped, ClientTypes, ExecutorTypes, CallTypes, LocksOK,
         PlacesOK, SessionsOK, SpeakersOK, TransactionsOK, Active, Owning, Speaking, LegacyStart,
         LegacyEnd, PlainNames, TxNames, client, transactions
    <2>4. CASE UNCHANGED vars
      BY <1>0, Basics, <2>4 DEF vars, ClientTypes, ExecutorTypes, CallTypes, LocksOK, PlacesOK,
         SessionsOK, SpeakersOK, TransactionsOK, Active, Owning, Speaking, LegacyStart, LegacyEnd,
         PlainNames, TxNames, client, transactions, executor, calls, remote
    <2> QED BY <1>9, <2>1, <2>2, <2>3, <2>4 DEF Breaks
  <1>s. StepDoes
    BY Steps DEF TxInv
  <1> QED BY <1>s, <1>1, <1>2, <1>3, <1>4, <1>5, <1>6, <1>7, <1>8, <1>9 DEF StepDoes

\* Whoever gives up the session at the gate frees the gate.
LEMMA OwnerKept ==
    ASSUME TxInv, [Next]_vars
    PROVE  OwnerOK'
  <1>0. /\ ClientTypes /\ ExecutorTypes /\ CallTypes /\ LocksOK /\ PlacesOK
        /\ SessionsOK /\ SpeakersOK /\ TransactionsOK /\ OwnerOK
    BY DEF TxInv, TypeOK
  <1>1. ASSUME NEW c \in Callers, Enters(c) PROVE OwnerOK'
    BY <1>0, Basics, <1>1 DEF Enters, Watch, Writer, Enter, Op, Multi, TakeLegacy, SetLegacy,
       BeginTransaction, UseClient, Plain, UseTransaction, TxOps, ClientTypes, ExecutorTypes,
       CallTypes, LocksOK, PlacesOK, SessionsOK, SpeakersOK, TransactionsOK, OwnerOK, Active,
       Owning, Speaking, LegacyStart, LegacyEnd, PlainNames, TxNames, client, transactions,
       executor, remote
  <1>2. ASSUME NEW c \in Callers, Acquires(c) PROVE OwnerOK'
    BY <1>0, Basics, <1>2 DEF Acquires, Acquire, Connect, SetLegacy, AcquireFails, Return, NoOp,
       Op, AcquirePlain, CannotSend, ClientTypes, ExecutorTypes, CallTypes, LocksOK, PlacesOK,
       SessionsOK, SpeakersOK, TransactionsOK, OwnerOK, Active, Owning, Speaking, LegacyStart,
       LegacyEnd, PlainNames, TxNames, client, transactions, executor, remote
  <1>3. ASSUME NEW c \in Callers, Talks(c) PROVE OwnerOK'
    BY <1>0, Basics, <1>3 DEF Talks, SendDoes, GiveUpDoes, ClientTypes, ExecutorTypes, CallTypes,
       LocksOK, PlacesOK, SessionsOK, SpeakersOK, TransactionsOK, OwnerOK, Active, Owning,
       Speaking, LegacyStart, LegacyEnd, PlainNames, TxNames, client, transactions, executor
  <1>4. ASSUME NEW c \in Callers, Closes(c) PROVE OwnerOK'
    BY <1>0, Basics, <1>4 DEF Closes, CloseDoes, Enter, Op, Holds, Drops, Kept, Dropped,
       CloseExecutorDoes, NoOp, ClientTypes, ExecutorTypes, CallTypes, LocksOK, PlacesOK,
       SessionsOK, SpeakersOK, TransactionsOK, OwnerOK, Active, Owning, Speaking, LegacyStart,
       LegacyEnd, PlainNames, TxNames, client, transactions
  <1>5. ASSUME NEW c \in Callers, SessionDoes(c) PROVE OwnerOK'
    BY <1>0, Basics, <1>5 DEF SessionDoes, WatchDoes, Ended, Return, NoOp, Op, Holds, Drops,
       Frees, Kept, Dropped, MultiDoes, LegacyDoes, BeginDoes, ClientTypes, ExecutorTypes,
       CallTypes, LocksOK, PlacesOK, SessionsOK, SpeakersOK, TransactionsOK, OwnerOK, Active,
       Owning, Speaking, LegacyStart, LegacyEnd, PlainNames, TxNames
  <1>6. ASSUME NEW c \in Callers, PlainDoes(c) PROVE OwnerOK'
    BY <1>0, Basics, <1>6 DEF PlainDoes, CommandDoes, CommandAcks, Ended, Return, NoOp, Op, Holds,
       Kept, PipelineDoes, ClientTypes, ExecutorTypes, CallTypes, LocksOK, PlacesOK, SessionsOK,
       SpeakersOK, TransactionsOK, OwnerOK, Active, Owning, Speaking, LegacyStart, LegacyEnd,
       PlainNames, TxNames, client, transactions
  <1>7. ASSUME NEW c \in Callers, TxDoes(c) PROVE OwnerOK'
    BY <1>0, Basics, <1>7 DEF TxDoes, TransactionCommandDoes, Ended, Return, NoOp, Op, Holds,
       Drops, Frees, Kept, Dropped, TransactionDoes, ClientTypes, ExecutorTypes, CallTypes,
       LocksOK, PlacesOK, SessionsOK, SpeakersOK, TransactionsOK, OwnerOK, Active, Owning,
       Speaking, LegacyStart, LegacyEnd, PlainNames, TxNames
  <1>8. ASSUME NEW r \in Replies, ServeDoes(r) PROVE OwnerOK'
    BY <1>0, Basics, <1>8 DEF ServeDoes, ClientTypes, ExecutorTypes, CallTypes, LocksOK, PlacesOK,
       SessionsOK, SpeakersOK, TransactionsOK, OwnerOK, Active, Owning, Speaking, LegacyStart,
       LegacyEnd, PlainNames, TxNames, client, transactions, executor
  <1>9. CASE Breaks
    BY <1>0, Basics, <1>9 DEF Breaks, ContextEnds, ContextAbortsDoes, Drops, Dropped, LoseDoes,
       vars, ClientTypes, ExecutorTypes, CallTypes, LocksOK, PlacesOK, SessionsOK, SpeakersOK,
       TransactionsOK, OwnerOK, Active, Owning, Speaking, LegacyStart, LegacyEnd, PlainNames,
       TxNames, client, transactions, executor, calls, remote
  <1>s. StepDoes
    BY Steps DEF TxInv
  <1> QED BY <1>s, <1>1, <1>2, <1>3, <1>4, <1>5, <1>6, <1>7, <1>8, <1>9 DEF StepDoes

\* The session at the gate keeps its connection until that is lost.
LEMMA ConnKept ==
    ASSUME TxInv, [Next]_vars
    PROVE  ConnOK'
  <1>0. /\ ClientTypes /\ ExecutorTypes /\ CallTypes /\ WireTypes /\ SessionsOK
        /\ ConnOK
    BY DEF TxInv, TypeOK
  <1>1. ASSUME NEW c \in Callers, Enters(c) PROVE ConnOK'
    BY <1>0, Basics, <1>1 DEF Enters, Watch, Writer, Enter, Op, Multi, TakeLegacy, SetLegacy,
       BeginTransaction, UseClient, Plain, UseTransaction, TxOps, ExecutorTypes, WireTypes,
       SessionsOK, ConnOK, client, transactions, executor, remote
  <1>2. ASSUME NEW c \in Callers, Acquires(c) PROVE ConnOK'
    <2>1. CASE Acquire(c)
      <3>1. sconn' = Append(sconn, cur') /\ gate' = Len(sconn) + 1 /\ cur' # 0 /\ gate' # 0
        BY <1>0, <2>1 DEF Acquire, Connect, ExecutorTypes
      <3>2. sconn'[gate'] = cur'
        BY <1>0, <3>1 DEF ExecutorTypes
      <3> QED BY <3>1, <3>2 DEF ConnOK
    <2>2. CASE AcquireFails(c) \/ AcquirePlain(c) \/ CannotSend(c)
      BY <1>0, Basics, <2>2 DEF AcquireFails, Return, NoOp, Op, AcquirePlain, Connect, CannotSend,
         ExecutorTypes, WireTypes, SessionsOK, ConnOK, client, transactions, executor, remote
    <2> QED BY <1>2, <2>1, <2>2 DEF Acquires
  <1>3. ASSUME NEW c \in Callers, Talks(c) PROVE ConnOK'
    BY <1>0, Basics, <1>3 DEF Talks, SendDoes, GiveUpDoes, ExecutorTypes, WireTypes, SessionsOK,
       ConnOK, client, transactions, executor
  <1>4. ASSUME NEW c \in Callers, Closes(c) PROVE ConnOK'
    BY <1>0, Basics, <1>4 DEF Closes, CloseDoes, Enter, Op, Holds, Drops, Kept, Dropped,
       CloseExecutorDoes, NoOp, ExecutorTypes, WireTypes, SessionsOK, ConnOK, client, transactions
  <1>5. ASSUME NEW c \in Callers, SessionDoes(c) PROVE ConnOK'
    BY <1>0, Basics, <1>5 DEF SessionDoes, WatchDoes, Ended, Return, NoOp, Op, Holds, Drops,
       Frees, Kept, Dropped, MultiDoes, LegacyDoes, BeginDoes, ExecutorTypes, WireTypes,
       SessionsOK, ConnOK
  <1>6. ASSUME NEW c \in Callers, PlainDoes(c) PROVE ConnOK'
    BY <1>0, Basics, <1>6 DEF PlainDoes, CommandDoes, CommandAcks, Ended, Return, NoOp, Op, Holds,
       Kept, PipelineDoes, ExecutorTypes, WireTypes, SessionsOK, ConnOK, client, transactions
  <1>7. ASSUME NEW c \in Callers, TxDoes(c) PROVE ConnOK'
    BY <1>0, Basics, <1>7 DEF TxDoes, TransactionCommandDoes, Ended, Return, NoOp, Op, Holds,
       Drops, Frees, Kept, Dropped, TransactionDoes, ExecutorTypes, WireTypes, SessionsOK, ConnOK
  <1>8. ASSUME NEW r \in Replies, ServeDoes(r) PROVE ConnOK'
    BY <1>0, Basics, <1>8 DEF ServeDoes, ExecutorTypes, WireTypes, SessionsOK, ConnOK, client,
       transactions, executor
  <1>9. CASE Breaks
    BY <1>0, Basics, <1>9 DEF Breaks, ContextEnds, ContextAbortsDoes, Drops, Dropped, LoseDoes,
       vars, ExecutorTypes, WireTypes, SessionsOK, ConnOK, client, transactions, executor, calls,
       remote
  <1>s. StepDoes
    BY Steps DEF TxInv
  <1> QED BY <1>s, <1>1, <1>2, <1>3, <1>4, <1>5, <1>6, <1>7, <1>8, <1>9 DEF StepDoes

\* An answer goes to the call whose request it answers, or to nobody.
LEMMA AwaitedKept ==
    ASSUME TxInv, [Next]_vars
    PROVE  AwaitedOK'
  <1>0. /\ ClientTypes /\ CallTypes /\ ReplyTypes /\ WireTypes /\ PlacesOK /\ RepliesOK
        /\ AwaitedOK
    BY DEF TxInv, TypeOK
  <1>1. ASSUME NEW c \in Callers, Enters(c) PROVE AwaitedOK'
    <2>1. CASE Watch(c)
      BY <1>0, Basics, <2>1 DEF Watch, Writer, Enter, Op, ClientTypes, CallTypes, ReplyTypes,
         WireTypes, PlacesOK, RepliesOK, AwaitedOK, transactions, executor, remote
    <2>2. CASE Multi(c)
      BY <1>0, Basics, <2>2 DEF Multi, Writer, Enter, Op, ClientTypes, CallTypes, ReplyTypes,
         WireTypes, PlacesOK, RepliesOK, AwaitedOK, transactions, executor, remote
    <2>3. CASE TakeLegacy(c)
      BY <1>0, Basics, <2>3 DEF TakeLegacy, Writer, Enter, SetLegacy, Op, ClientTypes, CallTypes,
         ReplyTypes, WireTypes, PlacesOK, RepliesOK, AwaitedOK, transactions, executor, remote
    <2>4. CASE \E x \in Txs : BeginTransaction(c, x)
      BY <1>0, Basics, <2>4 DEF BeginTransaction, Writer, Enter, SetLegacy, ClientTypes,
         CallTypes, ReplyTypes, WireTypes, PlacesOK, RepliesOK, AwaitedOK, transactions, executor,
         remote
    <2>5. CASE \E o \in Plain : UseClient(c, o)
      BY <1>0, Basics, <2>5 DEF UseClient, Enter, Plain, ClientTypes, CallTypes, ReplyTypes,
         WireTypes, PlacesOK, RepliesOK, AwaitedOK, transactions, executor, remote
    <2>6. CASE \E o \in TxOps : UseTransaction(c, o)
      BY <1>0, Basics, <2>6 DEF UseTransaction, Enter, TxOps, ClientTypes, CallTypes, ReplyTypes,
         WireTypes, PlacesOK, RepliesOK, AwaitedOK, client, executor, remote
    <2> QED BY <1>1, <2>1, <2>2, <2>3, <2>4, <2>5, <2>6 DEF Enters
  <1>2. ASSUME NEW c \in Callers, Acquires(c) PROVE AwaitedOK'
    <2>1. CASE Acquire(c)
      BY <1>0, Basics, <2>1 DEF Acquire, Connect, SetLegacy, ClientTypes, CallTypes, ReplyTypes,
         WireTypes, PlacesOK, RepliesOK, AwaitedOK, transactions, remote
    <2>2. CASE AcquireFails(c)
      BY <1>0, Basics, <2>2 DEF AcquireFails, Return, NoOp, Op, ClientTypes, CallTypes,
         ReplyTypes, WireTypes, PlacesOK, RepliesOK, AwaitedOK, transactions, executor, remote
    <2>3. CASE AcquirePlain(c)
      BY <1>0, Basics, <2>3 DEF AcquirePlain, Connect, ClientTypes, CallTypes, ReplyTypes,
         WireTypes, PlacesOK, RepliesOK, AwaitedOK, client, transactions, remote
    <2>4. CASE CannotSend(c)
      BY <1>0, Basics, <2>4 DEF CannotSend, ClientTypes, CallTypes, ReplyTypes, WireTypes,
         PlacesOK, RepliesOK, AwaitedOK, client, transactions, executor, remote
    <2> QED BY <1>2, <2>1, <2>2, <2>3, <2>4 DEF Acquires
  <1>3. ASSUME NEW c \in Callers, Talks(c) PROVE AwaitedOK'
    <2>1. CASE SendDoes(c)
      <3>w. \A i \in 1..Len(wire) : wire[i] \in Messages
        BY <1>0 DEF WireTypes
      <3>b. \A i \in 1..Len(wire) : wire[i].by \in Callers \cup {"none"}
        BY <3>w DEF Messages
      <3>n. Len(wire) \in Nat
        BY <1>0 DEF WireTypes
      <3> DEFINE n == Len(wire) + 1
      <3>1. \A i \in 1..Len(wire) : wire[i].by # c
        BY <1>0, Basics, <2>1 DEF SendDoes, AwaitedOK
      <3>2. \A i \in 1..Len(wire) : wire'[i] = wire[i]
        BY <2>1 DEF SendDoes
      <3>3. /\ Len(wire') = n /\ wire'[n].by = c /\ wire'[n].name = Text(op[c]) /\ wire'[n].sess = sess[c]
            /\ op' = op /\ sess' = sess
        BY <2>1 DEF SendDoes
      <3>4. /\ pc'[c] = "wait" /\ reply'[c] = NoReply
            /\ \A d \in Callers : d # c => pc'[d] = pc[d] /\ reply'[d] = reply[d]
        BY <1>0, <2>1 DEF SendDoes, CallTypes, ReplyTypes
      <3>5. \A i \in 1..n : i \in 1..Len(wire) \/ i = n
        BY <3>n
      <3> HIDE DEF n
      <3>6. \A i \in 1..n : wire'[i].by # "none" =>
              /\ pc'[wire'[i].by] = "wait" /\ reply'[wire'[i].by] = NoReply
              /\ wire'[i].name = Text(op'[wire'[i].by]) /\ wire'[i].sess = sess'[wire'[i].by]
        BY <1>0, <3>b, <3>1, <3>2, <3>3, <3>4, <3>5 DEF AwaitedOK
      <3>7. \A i, j \in 1..n : i # j /\ wire'[i].by = wire'[j].by => wire'[i].by = "none"
        BY <1>0, <3>1, <3>2, <3>3, <3>5 DEF AwaitedOK
      <3> QED BY <3>3, <3>6, <3>7 DEF AwaitedOK, Text
    <2>2. CASE GiveUpDoes(c)
      <3>w. \A i \in 1..Len(wire) : wire[i] \in Messages
        BY <1>0 DEF WireTypes
      <3>b. \A i \in 1..Len(wire) : wire[i].by \in Callers \cup {"none"}
        BY <3>w DEF Messages
      <3>n. Len(wire) \in Nat
        BY <1>0 DEF WireTypes
      <3>1. /\ Len(wire') = Len(wire)
            /\ \A i \in 1..Len(wire) : /\ wire'[i].name = wire[i].name /\ wire'[i].sess = wire[i].sess
                                        /\ wire'[i].by = IF wire[i].by = c THEN "none" ELSE wire[i].by
        BY <2>2 DEF GiveUpDoes
      <3>2. pc' = pc /\ op' = op /\ sess' = sess /\ \A d \in Callers : d # c => reply'[d] = reply[d]
        BY <1>0, <2>2 DEF GiveUpDoes, ReplyTypes
      <3>3. \A i \in 1..Len(wire) : wire'[i].by # "none" => wire'[i].by = wire[i].by /\ wire[i].by \in Callers /\ wire[i].by # c
        BY <3>b, <3>1
      <3> QED BY <1>0, <3>1, <3>2, <3>3 DEF AwaitedOK
    <2> QED BY <1>3, <2>1, <2>2 DEF Talks
  <1>4. ASSUME NEW c \in Callers, Closes(c) PROVE AwaitedOK'
    <2>1. CASE CloseDoes(c)
      <3>1. Len(wire') = 0 \/ Elsewhere(c)
        BY <1>0, <2>1 DEF CloseDoes, Enter, Op, Holds, Drops, Frees, Kept, Dropped, Elsewhere,
           CallTypes, ReplyTypes, calls, remote
      <3>2. pc[c] # "wait" \/ reply[c] # NoReply
        BY <2>1 DEF CloseDoes, Enter, Op, Holds, Drops, Frees, Kept, Dropped
      <3> QED BY <3>1, <3>2, AwaitedStays DEF TxInv
    <2>2. CASE CloseExecutorDoes(c)
      <3>1. Len(wire') = 0 \/ Elsewhere(c)
        BY <1>0, <2>2 DEF CloseExecutorDoes, Op, NoOp, Holds, Drops, Frees, Kept, Dropped,
           Elsewhere, CallTypes, ReplyTypes, calls, remote
      <3>2. pc[c] # "wait" \/ reply[c] # NoReply
        BY <2>2 DEF CloseExecutorDoes, Op, NoOp, Holds, Drops, Frees, Kept, Dropped
      <3> QED BY <3>1, <3>2, AwaitedStays DEF TxInv
    <2> QED BY <1>4, <2>1, <2>2 DEF Closes
  <1>5. ASSUME NEW c \in Callers, SessionDoes(c) PROVE AwaitedOK'
    <2>1. CASE WatchDoes(c)
      <3>1. Len(wire') = 0 \/ Elsewhere(c)
        BY <1>0, <2>1 DEF WatchDoes, Ended, Return, NoOp, Op, Holds, Drops, Frees, Kept, Dropped,
           Elsewhere, CallTypes, ReplyTypes, calls, remote
      <3>2. pc[c] # "wait" \/ reply[c] # NoReply
        BY <2>1 DEF WatchDoes, Ended, Return, NoOp, Op, Holds, Drops, Frees, Kept, Dropped
      <3> QED BY <3>1, <3>2, AwaitedStays DEF TxInv
    <2>2. CASE MultiDoes(c)
      <3>1. Len(wire') = 0 \/ Elsewhere(c)
        BY <1>0, <2>2 DEF MultiDoes, Ended, Return, NoOp, Op, Holds, Drops, Frees, Kept, Dropped,
           Elsewhere, CallTypes, ReplyTypes, calls, remote
      <3>2. pc[c] # "wait" \/ reply[c] # NoReply
        BY <2>2 DEF MultiDoes, Ended, Return, NoOp, Op, Holds, Drops, Frees, Kept, Dropped
      <3> QED BY <3>1, <3>2, AwaitedStays DEF TxInv
    <2>3. CASE LegacyDoes(c)
      <3>1. Len(wire') = 0 \/ Elsewhere(c)
        BY <1>0, <2>3 DEF LegacyDoes, Ended, Return, NoOp, Op, Holds, Drops, Frees, Kept, Dropped,
           Elsewhere, CallTypes, ReplyTypes, calls, remote
      <3>2. pc[c] # "wait" \/ reply[c] # NoReply
        BY <2>3 DEF LegacyDoes, Ended, Return, NoOp, Op, Holds, Drops, Frees, Kept, Dropped
      <3> QED BY <3>1, <3>2, AwaitedStays DEF TxInv
    <2>4. CASE BeginDoes(c)
      <3>1. Len(wire') = 0 \/ Elsewhere(c)
        BY <1>0, <2>4 DEF BeginDoes, Return, NoOp, Op, Holds, Drops, Frees, Kept, Dropped,
           Elsewhere, CallTypes, ReplyTypes, calls, remote
      <3>2. pc[c] # "wait" \/ reply[c] # NoReply
        BY <2>4 DEF BeginDoes, Return, NoOp, Op, Holds, Drops, Frees, Kept, Dropped
      <3> QED BY <3>1, <3>2, AwaitedStays DEF TxInv
    <2> QED BY <1>5, <2>1, <2>2, <2>3, <2>4 DEF SessionDoes
  <1>6. ASSUME NEW c \in Callers, PlainDoes(c) PROVE AwaitedOK'
    <2>1. CASE CommandDoes(c)
      <3>1. Len(wire') = 0 \/ Elsewhere(c)
        BY <1>0, <2>1 DEF CommandDoes, CommandAcks, Ended, Return, NoOp, Op, Holds, Drops, Frees,
           Kept, Dropped, Elsewhere, CallTypes, ReplyTypes, calls, remote
      <3>2. pc[c] # "wait" \/ reply[c] # NoReply
        BY <2>1 DEF CommandDoes, CommandAcks, Ended, Return, NoOp, Op, Holds, Drops, Frees, Kept,
           Dropped
      <3> QED BY <3>1, <3>2, AwaitedStays DEF TxInv
    <2>2. CASE PipelineDoes(c)
      <3>1. Len(wire') = 0 \/ Elsewhere(c)
        BY <1>0, <2>2 DEF PipelineDoes, CommandAcks, Holds, Drops, Frees, Kept, Dropped, Elsewhere,
           CallTypes, ReplyTypes, calls, remote
      <3>2. pc[c] # "wait" \/ reply[c] # NoReply
        BY <2>2 DEF PipelineDoes, CommandAcks, Holds, Drops, Frees, Kept, Dropped
      <3> QED BY <3>1, <3>2, AwaitedStays DEF TxInv
    <2> QED BY <1>6, <2>1, <2>2 DEF PlainDoes
  <1>7. ASSUME NEW c \in Callers, TxDoes(c) PROVE AwaitedOK'
    <2>1. CASE TransactionCommandDoes(c)
      <3>1. Len(wire') = 0 \/ Elsewhere(c)
        BY <1>0, <2>1 DEF TransactionCommandDoes, Ended, Return, NoOp, Op, Holds, Drops, Frees,
           Kept, Dropped, Elsewhere, CallTypes, ReplyTypes, calls, remote
      <3>2. pc[c] # "wait" \/ reply[c] # NoReply
        BY <2>1 DEF TransactionCommandDoes, Ended, Return, NoOp, Op, Holds, Drops, Frees, Kept,
           Dropped
      <3> QED BY <3>1, <3>2, AwaitedStays DEF TxInv
    <2>2. CASE TransactionDoes(c)
      <3>1. Len(wire') = 0 \/ Elsewhere(c)
        BY <1>0, <2>2 DEF TransactionDoes, Ended, Return, NoOp, Op, Holds, Drops, Frees, Kept,
           Dropped, Elsewhere, CallTypes, ReplyTypes, calls, remote
      <3>2. pc[c] # "wait" \/ reply[c] # NoReply
        BY <2>2 DEF TransactionDoes, Ended, Return, NoOp, Op, Holds, Drops, Frees, Kept, Dropped
      <3> QED BY <3>1, <3>2, AwaitedStays DEF TxInv
    <2> QED BY <1>7, <2>1, <2>2 DEF TxDoes
  <1>8. ASSUME NEW r \in Replies, ServeDoes(r) PROVE AwaitedOK'
    <2>w. \A i \in 1..Len(wire) : wire[i] \in Messages
      BY <1>0 DEF WireTypes
    <2>b. \A i \in 1..Len(wire) : wire[i].by \in Callers \cup {"none"}
      BY <2>w DEF Messages
    <2>n. Len(wire) \in Nat
      BY <1>0 DEF WireTypes
    <2>1. /\ Len(wire) > 0 /\ Len(wire') = Len(wire) - 1
          /\ \A i \in 1..Len(wire') : wire'[i] = wire[i + 1]
      BY <1>8 DEF ServeDoes
    <2>2. 1 \in 1..Len(wire) /\ \A i \in 1..Len(wire') : i + 1 \in 1..Len(wire) /\ i + 1 # 1
      BY <2>n, <2>1
    <2>3. pc' = pc /\ op' = op /\ sess' = sess /\ \A d \in Callers : d # wire[1].by => reply'[d] = reply[d]
      BY <1>0, <1>8 DEF ServeDoes, Deliver, ReplyTypes
    <2>4. \A i \in 1..Len(wire') : wire'[i].by # "none" => wire'[i].by \in Callers /\ wire'[i].by # wire[1].by
      BY <1>0, <2>b, <2>1, <2>2 DEF AwaitedOK
    <2>5. \A i, j \in 1..Len(wire') : i # j => i + 1 # j + 1
      BY <2>n, <2>1
    <2>6. \A i \in 1..Len(wire') : wire'[i].by # "none" =>
            /\ pc[wire'[i].by] = "wait" /\ reply[wire'[i].by] = NoReply
            /\ wire'[i].name = Text(op[wire'[i].by]) /\ wire'[i].sess = sess[wire'[i].by]
      BY <1>0, <2>1, <2>2 DEF AwaitedOK
    <2>7. \A i, j \in 1..Len(wire') : i # j /\ wire'[i].by = wire'[j].by => wire'[i].by = "none"
      BY <1>0, <2>1, <2>2, <2>5 DEF AwaitedOK
    <2> QED BY <2>3, <2>4, <2>6, <2>7 DEF AwaitedOK
  <1>9. CASE Breaks
    BY <1>0, Basics, <1>9 DEF Breaks, ContextEnds, ContextAbortsDoes, Drops, Dropped, LoseDoes,
       vars, ClientTypes, CallTypes, ReplyTypes, WireTypes, PlacesOK, RepliesOK, AwaitedOK,
       client, transactions, executor, calls, remote
  <1>s. StepDoes
    BY Steps DEF TxInv
  <1> QED BY <1>s, <1>1, <1>2, <1>3, <1>4, <1>5, <1>6, <1>7, <1>8, <1>9 DEF StepDoes

\* No message of an ended session is left on the connection.
LEMMA OrderKept ==
    ASSUME TxInv, [Next]_vars
    PROVE  OrderOK'
  <1>0. /\ ExecutorTypes /\ CallTypes /\ WireTypes /\ SessionsOK /\ OrderOK
    BY DEF TxInv, TypeOK
  <1>1. ASSUME NEW c \in Callers, Enters(c) PROVE OrderOK'
    BY <1>0, Basics, <1>1 DEF Enters, Watch, Writer, Enter, Op, Multi, TakeLegacy, SetLegacy,
       BeginTransaction, UseClient, Plain, UseTransaction, TxOps, ExecutorTypes, CallTypes,
       WireTypes, SessionsOK, OrderOK, client, transactions, executor, remote
  <1>2. ASSUME NEW c \in Callers, Acquires(c) PROVE OrderOK'
    BY <1>0, Basics, <1>2 DEF Acquires, Acquire, Connect, SetLegacy, AcquireFails, Return, NoOp,
       Op, AcquirePlain, CannotSend, ExecutorTypes, CallTypes, WireTypes, SessionsOK, OrderOK,
       client, transactions, executor, remote
  <1>3. ASSUME NEW c \in Callers, Talks(c) PROVE OrderOK'
    <2>1. CASE SendDoes(c)
      <3>1. Len(wire) \in Nat /\ Len(wire') = Len(wire) + 1
        BY <1>0, <2>1 DEF WireTypes, SendDoes
      <3>2. \A i \in 1..Len(wire) : wire'[i] = wire[i]
        BY <2>1 DEF SendDoes
      <3>3. LET m == wire'[Len(wire) + 1] IN
              m.sess \in {0, gate} /\ (m.sess = 0 => m.name \in CommandKinds)
        BY <2>1 DEF SendDoes
      <3>4. gate' = gate
        BY <2>1 DEF SendDoes, executor
      <3> QED BY <1>0, <3>1, <3>2, <3>3, <3>4 DEF OrderOK
    <2>2. CASE GiveUpDoes(c)
      BY <1>0, Basics, <2>2 DEF GiveUpDoes, ExecutorTypes, CallTypes, WireTypes, SessionsOK,
         OrderOK, client, transactions, executor
    <2> QED BY <1>3, <2>1, <2>2 DEF Talks
  <1>4. ASSUME NEW c \in Callers, Closes(c) PROVE OrderOK'
    BY <1>0, Basics, <1>4 DEF Closes, CloseDoes, Enter, Op, Holds, Drops, Kept, Dropped,
       CloseExecutorDoes, NoOp, ExecutorTypes, CallTypes, WireTypes, SessionsOK, OrderOK, client,
       transactions
  <1>5. ASSUME NEW c \in Callers, SessionDoes(c) PROVE OrderOK'
    BY <1>0, Basics, <1>5 DEF SessionDoes, WatchDoes, Ended, Return, NoOp, Op, Holds, Drops,
       Frees, Kept, Dropped, MultiDoes, LegacyDoes, BeginDoes, ExecutorTypes, CallTypes,
       WireTypes, SessionsOK, OrderOK
  <1>6. ASSUME NEW c \in Callers, PlainDoes(c) PROVE OrderOK'
    BY <1>0, Basics, <1>6 DEF PlainDoes, CommandDoes, CommandAcks, Ended, Return, NoOp, Op, Holds,
       Kept, PipelineDoes, ExecutorTypes, CallTypes, WireTypes, SessionsOK, OrderOK, client,
       transactions
  <1>7. ASSUME NEW c \in Callers, TxDoes(c) PROVE OrderOK'
    BY <1>0, Basics, <1>7 DEF TxDoes, TransactionCommandDoes, Ended, Return, NoOp, Op, Holds,
       Drops, Frees, Kept, Dropped, TransactionDoes, ExecutorTypes, CallTypes, WireTypes,
       SessionsOK, OrderOK
  <1>8. ASSUME NEW r \in Replies, ServeDoes(r) PROVE OrderOK'
    <2>1. Len(wire) \in Nat /\ Len(wire') = Len(wire) - 1
      BY <1>0, <1>8 DEF WireTypes, ServeDoes
    <2>2. \A i \in 1..Len(wire') : wire'[i] = wire[i + 1] /\ i + 1 \in 1..Len(wire)
      BY <2>1, <1>8 DEF ServeDoes
    <2>3. gate' = gate
      BY <1>8 DEF ServeDoes, executor
    <2> QED BY <1>0, <2>2, <2>3 DEF OrderOK
  <1>9. CASE Breaks
    BY <1>0, Basics, <1>9 DEF Breaks, ContextEnds, ContextAbortsDoes, Drops, Dropped, LoseDoes,
       vars, ExecutorTypes, CallTypes, WireTypes, SessionsOK, OrderOK, client, transactions,
       executor, calls, remote
  <1>s. StepDoes
    BY Steps DEF TxInv
  <1> QED BY <1>s, <1>1, <1>2, <1>3, <1>4, <1>5, <1>6, <1>7, <1>8, <1>9 DEF StepDoes

\* Whoever ends a session, or starts its MULTI, is the last to send on it.
LEMMA LastKept ==
    ASSUME TxInv, [Next]_vars
    PROVE  LastOK'
  <1>0. /\ ClientTypes /\ ExecutorTypes /\ CallTypes /\ WireTypes /\ LocksOK /\ PlacesOK
        /\ SpeakersOK /\ TransactionsOK /\ OrderOK /\ LastOK
    BY DEF TxInv, TypeOK
  <1>1. ASSUME NEW c \in Callers, Enters(c) PROVE LastOK'
    <2>1. CASE Watch(c)
      <3>1. Len(wire') = 0 \/ Uninvolved(c)
        BY <1>0, Basics, <2>1 DEF Watch, Writer, Enter, Op, Uninvolved, CallTypes, LocksOK,
           PlacesOK, LegacyStart, LegacyEnd, PlainNames, TxNames,
           client, transactions, calls, remote
      <3> QED BY <3>1, LastStays DEF TxInv
    <2>2. CASE Multi(c)
      <3>1. Len(wire') = 0 \/ Uninvolved(c)
        BY <1>0, Basics, <2>2 DEF Multi, Writer, Enter, Op, Uninvolved, CallTypes, LocksOK,
           PlacesOK, LegacyStart, LegacyEnd, PlainNames, TxNames,
           client, transactions, calls, remote
      <3> QED BY <3>1, LastStays DEF TxInv
    <2>3. CASE TakeLegacy(c)
      <3>1. Len(wire') = 0 \/ Uninvolved(c)
        BY <1>0, Basics, <2>3 DEF TakeLegacy, Writer, Enter, SetLegacy, Op, Uninvolved, CallTypes,
           LocksOK, PlacesOK, LegacyStart, LegacyEnd, PlainNames, TxNames,
           client, transactions, calls, remote
      <3> QED BY <3>1, LastStays DEF TxInv
    <2>4. ASSUME NEW x \in Txs, BeginTransaction(c, x) PROVE LastOK'
      <3>1. Len(wire') = 0 \/ Uninvolved(c)
        BY <1>0, Basics, <2>4 DEF BeginTransaction, Writer, Enter, SetLegacy, Uninvolved, CallTypes,
           LocksOK, PlacesOK, LegacyStart, LegacyEnd, PlainNames, TxNames,
           client, transactions, calls, remote
      <3> QED BY <3>1, LastStays DEF TxInv
    <2>5. ASSUME NEW o \in Plain, UseClient(c, o) PROVE LastOK'
      <3>1. Len(wire') = 0 \/ Uninvolved(c)
        BY <1>0, Basics, <2>5 DEF UseClient, Enter, Plain, Uninvolved, CallTypes, LocksOK, PlacesOK,
           LegacyStart, LegacyEnd, PlainNames, TxNames,
           client, transactions, calls, remote
      <3> QED BY <3>1, LastStays DEF TxInv
    <2>6. ASSUME NEW o \in TxOps, UseTransaction(c, o) PROVE LastOK'
      <3>1. wire' = wire /\ UNCHANGED <<gateW, txState>> /\ o.tx \in Txs /\ txState[o.tx] = "open" /\ txMu[o.tx] = "none"
        BY <2>6 DEF UseTransaction, TxOps, remote, client
      <3>2. \A d \in Callers : pc[d] = "wait" => pc'[d] = "wait"
        BY <1>0, <2>6 DEF UseTransaction, Enter, CallTypes
      <3>3. ASSUME NEW x \in Txs, Active(x) PROVE x = o.tx
        BY <1>0, <3>1, <3>3 DEF TransactionsOK, Active
      <3>4. \A x \in Txs : txState[x] # "closing"
        BY <3>1, <3>3 DEF Active
      <3>5. ASSUME NEW d \in Callers, op[d].name \in {"texec", "tdiscard"}, Active(op[d].tx) PROVE FALSE
        <4>1. op[d].tx \in Txs /\ txMu[op[d].tx] = d
          BY <1>0, <3>5 DEF PlacesOK, SpeakersOK, TxNames
        <4> QED BY Basics, <3>1, <3>3, <3>5, <4>1
      <3>6. Quiet => Quiet'
        BY <3>1, <3>2, <3>4, <3>5 DEF Quiet
      <3> QED BY <1>0, <3>1, <3>6 DEF LastOK
    <2> QED BY <1>1, <2>1, <2>2, <2>3, <2>4, <2>5, <2>6 DEF Enters
  <1>2. ASSUME NEW c \in Callers, Acquires(c) PROVE LastOK'
    <2>1. CASE Acquire(c)
      <3>1. gate = 0 /\ wire' = wire
        BY <2>1 DEF Acquire, remote
      <3> QED BY <1>0, <3>1 DEF OrderOK, LastOK
    <2>2. CASE AcquireFails(c)
      <3>1. Len(wire') = 0 \/ Uninvolved(c)
        BY <1>0, Basics, <2>2 DEF AcquireFails, Return, NoOp, Op, Uninvolved, CallTypes, LocksOK,
           PlacesOK, LegacyStart, LegacyEnd, PlainNames, TxNames,
           client, transactions, calls, remote
      <3> QED BY <3>1, LastStays DEF TxInv
    <2>3. CASE AcquirePlain(c)
      <3>1. Len(wire') = 0 \/ Uninvolved(c)
        BY <1>0, Basics, <2>3 DEF AcquirePlain, Connect, Uninvolved, CallTypes, LocksOK, PlacesOK,
           LegacyStart, LegacyEnd, PlainNames, TxNames,
           client, transactions, calls, remote
      <3> QED BY <3>1, LastStays DEF TxInv
    <2>4. CASE CannotSend(c)
      <3>1. Len(wire') = 0 \/ Uninvolved(c)
        BY <1>0, Basics, <2>4 DEF CannotSend, Uninvolved, CallTypes, LocksOK, PlacesOK, LegacyStart,
           LegacyEnd, PlainNames, TxNames,
           client, transactions, calls, remote
      <3> QED BY <3>1, LastStays DEF TxInv
    <2> QED BY <1>2, <2>1, <2>2, <2>3, <2>4 DEF Acquires
  <1>3. ASSUME NEW c \in Callers, Talks(c) PROVE LastOK'
    <2>1. CASE SendDoes(c)
      <3>1. Len(wire) \in Nat /\ Len(wire') = Len(wire) + 1
        BY <1>0, <2>1 DEF WireTypes, SendDoes
      <3>2. \A i \in 1..Len(wire) : wire'[i] = wire[i]
        BY <2>1 DEF SendDoes
      <3>3. wire'[Len(wire) + 1].name = Text(op[c])
        BY <2>1 DEF SendDoes
      <3>4. \A i \in 1..Len(wire) : wire[i].name \in CommandKinds
        BY <1>0, <2>1, NotQuiet DEF TxInv, SendDoes, OrderOK, LastOK
      <3>5. Text(op[c]) \notin CommandKinds => Quiet'
        <4>1. CASE Text(op[c]) \notin CommandKinds
          <5>1. sess[c] = gate /\ gate # 0
            BY <2>1, <4>1 DEF SendDoes
          <5>2. \/ gateW = c
                \/ op[c].name \in PlainNames
                \/ op[c].name \in TxNames /\ Active(op[c].tx)
            BY <2>1, <5>1, SpeakerKinds DEF TxInv, SendDoes, Speaking
          <5>3. gateW = c \/ (op[c].name \in {"texec", "tdiscard"} /\ Active(op[c].tx))
            BY <1>0, <4>1, <5>2 DEF PlacesOK, Text, PlainNames, TxNames
          <5>4. pc'[c] = "wait" /\ UNCHANGED <<gateW, op, txState>>
            BY <1>0, <2>1 DEF SendDoes, CallTypes, client, transactions
          <5> QED BY <5>3, <5>4 DEF Quiet, Active
        <4> QED BY <4>1
      <3>6. \A i \in 1..Len(wire') : i \in 1..Len(wire) \/ i = Len(wire')
        BY <3>1
      <3> QED BY <3>1, <3>2, <3>3, <3>4, <3>5, <3>6 DEF LastOK
    <2>2. CASE GiveUpDoes(c)
      <3>1. Len(wire') = Len(wire) /\ \A i \in 1..Len(wire) : wire'[i].name = wire[i].name
        BY <2>2 DEF GiveUpDoes
      <3>2. Quiet => Quiet'
        BY <2>2 DEF GiveUpDoes, Quiet, Active, client, transactions
      <3> QED BY <1>0, <3>1, <3>2 DEF LastOK
    <2> QED BY <1>3, <2>1, <2>2 DEF Talks
  <1>4. ASSUME NEW c \in Callers, Closes(c) PROVE LastOK'
    <2>1. CASE CloseDoes(c)
      <3>1. Len(wire') = 0 \/ Uninvolved(c)
        BY <1>0, Basics, <2>1 DEF CloseDoes, Enter, Op, Holds, Drops, Frees, Kept, Dropped,
           Uninvolved, CallTypes, LocksOK, PlacesOK, LegacyStart, LegacyEnd, PlainNames, TxNames,
           client, transactions, calls, remote
      <3> QED BY <3>1, LastStays DEF TxInv
    <2>2. CASE CloseExecutorDoes(c)
      BY <1>0, Basics, <2>2 DEF CloseExecutorDoes, Op, NoOp, Dropped, ClientTypes, CallTypes,
         LocksOK, PlacesOK, SpeakersOK, TransactionsOK, LastOK, Quiet, Active, Speaking, Owning,
         LegacyStart, LegacyEnd, PlainNames, TxNames, client, transactions
    <2> QED BY <1>4, <2>1, <2>2 DEF Closes
  <1>5. ASSUME NEW c \in Callers, SessionDoes(c) PROVE LastOK'
    BY <1>0, Basics, <1>5 DEF SessionDoes, WatchDoes, Ended, Return, NoOp, Op, Holds, Drops,
       Frees, Kept, Dropped, MultiDoes, LegacyDoes, BeginDoes, ClientTypes, CallTypes, LocksOK,
       PlacesOK, SpeakersOK, TransactionsOK, LastOK, Quiet, Active, Speaking, Owning, LegacyStart,
       LegacyEnd, PlainNames, TxNames
  <1>6. ASSUME NEW c \in Callers, PlainDoes(c) PROVE LastOK'
    <2>1. CASE CommandDoes(c)
      <3>1. Len(wire') = 0 \/ Uninvolved(c)
        BY <1>0, Basics, <2>1 DEF CommandDoes, CommandAcks, Ended, Return, NoOp, Op, Holds, Drops,
           Frees, Kept, Dropped, Uninvolved, CallTypes, LocksOK, PlacesOK, LegacyStart, LegacyEnd,
           PlainNames, TxNames,
           client, transactions, calls, remote
      <3> QED BY <3>1, LastStays DEF TxInv
    <2>2. CASE PipelineDoes(c)
      <3>1. Len(wire') = 0 \/ Uninvolved(c)
        BY <1>0, Basics, <2>2 DEF PipelineDoes, CommandAcks, Holds, Drops, Frees, Kept, Dropped,
           Uninvolved, CallTypes, LocksOK, PlacesOK, LegacyStart, LegacyEnd, PlainNames, TxNames,
           client, transactions, calls, remote
      <3> QED BY <3>1, LastStays DEF TxInv
    <2> QED BY <1>6, <2>1, <2>2 DEF PlainDoes
  <1>7. ASSUME NEW c \in Callers, TxDoes(c) PROVE LastOK'
    <2>1. CASE TransactionCommandDoes(c)
      <3>1. Len(wire') = 0 \/ Uninvolved(c)
        BY <1>0, Basics, <2>1 DEF TransactionCommandDoes, Ended, Return, NoOp, Op, Holds, Drops,
           Frees, Kept, Dropped, Uninvolved, CallTypes, LocksOK, PlacesOK, LegacyStart, LegacyEnd,
           PlainNames, TxNames,
           client, transactions, calls, remote
      <3> QED BY <3>1, LastStays DEF TxInv
    <2>2. CASE TransactionDoes(c)
      <3>1. CASE Len(wire') = 0
        BY <3>1 DEF LastOK
      <3>2. CASE Len(wire') # 0
        <4> DEFINE x == op[c].tx
        <4>1. wire' = wire /\ txState' = txState /\ txState[x] # "open" /\ x \in Txs /\ op[c].name \in TxNames
          BY <1>0, <2>2, <3>2 DEF TransactionDoes, Ended, Holds, Drops, Frees, Kept, Dropped,
             PlacesOK, TxNames
        <4>2. \A d \in Callers : d # c => pc'[d] = pc[d] /\ op'[d] = op[d]
          BY <1>0, <2>2 DEF TransactionDoes, Ended, Return, CallTypes
        <4>3. op'[c].name \notin TxNames
          BY <1>0, <2>2 DEF TransactionDoes, Ended, Return, CallTypes, NoOp, Op, TxNames
        <4>4. gateW # c
          BY <1>0, <2>2 DEF TransactionDoes, Ended, LocksOK, LegacyStart, LegacyEnd, PlainNames,
             TxNames
        <4>5. gateW' = gateW
          BY <1>0, <2>2, <4>4 DEF TransactionDoes, Ended, Return
        <4>6. CASE txState[x] = "closing"
          <5>1. \A d \in Callers : op[d].name \in TxNames /\ op[d].tx = x => d = c
            BY <1>0, <4>1 DEF SpeakersOK
          <5>2. Quiet'
            BY <4>1, <4>2, <4>3, <4>6, <5>1 DEF Quiet
          <5> QED BY <1>0, <4>1, <5>2 DEF LastOK
        <4>7. CASE txState[x] # "closing"
          <5>1. ~ Active(x)
            BY <4>1, <4>7 DEF Active
          <5>2. Uninvolved(c)
            BY <4>1, <4>2, <4>3, <4>4, <4>5, <5>1 DEF Uninvolved
          <5> QED BY <5>2, LastStays DEF TxInv
        <4> QED BY <4>6, <4>7
      <3> QED BY <3>1, <3>2
    <2> QED BY <1>7, <2>1, <2>2 DEF TxDoes
  <1>8. ASSUME NEW r \in Replies, ServeDoes(r) PROVE LastOK'
    <2>1. Len(wire) \in Nat /\ Len(wire') = Len(wire) - 1
      BY <1>0, <1>8 DEF WireTypes, ServeDoes
    <2>2. \A i \in 1..Len(wire') : wire'[i] = wire[i + 1] /\ i + 1 \in 1..Len(wire) /\ (i + 1 = Len(wire) => i = Len(wire'))
      BY <2>1, <1>8 DEF ServeDoes
    <2>3. Quiet => Quiet'
      BY <1>8 DEF ServeDoes, Quiet, Active, client, transactions
    <2> QED BY <1>0, <2>2, <2>3 DEF LastOK
  <1>9. CASE Breaks
    <2>1. ASSUME NEW x \in Txs, ContextEnds(x) PROVE LastOK'
      <3>1. wire' = wire /\ UNCHANGED <<gateW, pc, op>> /\ txState' = [txState EXCEPT ![x] = "closing"]
        BY <2>1 DEF ContextEnds, remote, client, calls
      <3>2. \A y \in Txs : (txState[y] = "closing" => txState'[y] = "closing") /\ (Active(y) => Active(y)')
        BY <1>0, <3>1 DEF ClientTypes, Active
      <3>3. \A d \in Callers : op[d].name \in {"texec", "tdiscard"} => op[d].tx \in Txs
        BY <1>0 DEF PlacesOK, TxNames
      <3>4. Quiet => Quiet'
        BY <3>1, <3>2, <3>3 DEF Quiet, Active
      <3> QED BY <1>0, <3>1, <3>4 DEF LastOK
    <2>2. CASE \E x \in Txs : ContextAbortsDoes(x)
      BY <1>0, Basics, <2>2 DEF ContextAbortsDoes, Drops, Dropped, ClientTypes, CallTypes,
         LocksOK, PlacesOK, SpeakersOK, TransactionsOK, LastOK, Quiet, Active, Speaking, Owning,
         LegacyStart, LegacyEnd, PlainNames, TxNames, client
    <2>3. CASE LoseDoes
      BY <1>0, Basics, <2>3 DEF LoseDoes, Dropped, ClientTypes, CallTypes, LocksOK, PlacesOK,
         SpeakersOK, TransactionsOK, LastOK, Quiet, Active, Speaking, Owning, LegacyStart,
         LegacyEnd, PlainNames, TxNames, client, transactions
    <2>4. CASE UNCHANGED vars
      BY <1>0, Basics, <2>4 DEF vars, ClientTypes, CallTypes, LocksOK, PlacesOK, SpeakersOK,
         TransactionsOK, LastOK, Quiet, Active, Speaking, Owning, LegacyStart, LegacyEnd,
         PlainNames, TxNames, client, transactions, executor, calls, remote
    <2> QED BY <1>9, <2>1, <2>2, <2>3, <2>4 DEF Breaks
  <1>s. StepDoes
    BY Steps DEF TxInv
  <1> QED BY <1>s, <1>1, <1>2, <1>3, <1>4, <1>5, <1>6, <1>7, <1>8, <1>9 DEF StepDoes

\* WATCH and MULTI at the server are of the session at the gate.
LEMMA ServerKept ==
    ASSUME TxInv, [Next]_vars
    PROVE  ServerOK'
  <1>0. /\ ExecutorTypes /\ CallTypes /\ WireTypes /\ ServerTypes /\ PlacesOK
        /\ ServerOK /\ ReadyOK
    BY DEF TxInv, TypeOK
  <1>1. ASSUME NEW c \in Callers, Enters(c) PROVE ServerOK'
    BY <1>0, Basics, <1>1 DEF Enters, Watch, Writer, Enter, Op, Multi, TakeLegacy, SetLegacy,
       BeginTransaction, UseClient, Plain, UseTransaction, TxOps, ExecutorTypes, ServerOK, client,
       transactions, executor, remote
  <1>2. ASSUME NEW c \in Callers, Acquires(c) PROVE ServerOK'
    BY <1>0, Basics, <1>2 DEF Acquires, Acquire, Connect, SetLegacy, AcquireFails, Return, NoOp,
       Op, AcquirePlain, CannotSend, ExecutorTypes, ServerOK, client, transactions, executor,
       remote
  <1>3. ASSUME NEW c \in Callers, Talks(c) PROVE ServerOK'
    <2>1. CASE SendDoes(c)
      <3>1. Len(wire) \in Nat /\ Len(wire') = Len(wire) + 1 /\ UNCHANGED <<server, gate>>
        BY <1>0, <2>1 DEF WireTypes, SendDoes, executor
      <3>2. \A i \in 1..Len(wire') : (i \in 1..Len(wire) /\ wire'[i] = wire[i]) \/ i = Len(wire) + 1
        BY <3>1, <2>1 DEF SendDoes
      <3>3. wire'[Len(wire) + 1].sess = sess[c] /\ wire'[Len(wire) + 1].name = Text(op[c])
        BY <2>1 DEF SendDoes
      <3>4. sess[c] = gate
        BY <2>1 DEF SendDoes
      <3>5. server.multi => Text(op[c]) # "multi"
        <4>1. CASE Text(op[c]) = "multi"
          <5>1. op[c].name \in {"multi", "begin"}
            BY <1>0, <4>1 DEF Text, PlacesOK, CommandKinds, PlainNames
          <5> QED BY <1>0, <2>1, <5>1 DEF SendDoes, ReadyOK
        <4> QED BY <4>1
      <3> QED BY <1>0, <3>1, <3>2, <3>3, <3>4, <3>5 DEF ServerOK
    <2>2. CASE GiveUpDoes(c)
      BY <1>0, Basics, <2>2 DEF GiveUpDoes, ExecutorTypes, ServerOK, client, transactions,
         executor
    <2> QED BY <1>3, <2>1, <2>2 DEF Talks
  <1>4. ASSUME NEW c \in Callers, Closes(c) PROVE ServerOK'
    BY <1>0, Basics, <1>4 DEF Closes, CloseDoes, Enter, Op, Holds, Drops, Kept, Dropped,
       CloseExecutorDoes, NoOp, ExecutorTypes, ServerOK, client, transactions
  <1>5. ASSUME NEW c \in Callers, SessionDoes(c) PROVE ServerOK'
    BY <1>0, Basics, <1>5 DEF SessionDoes, WatchDoes, Ended, Return, NoOp, Op, Holds, Drops,
       Frees, Kept, Dropped, MultiDoes, LegacyDoes, BeginDoes, ExecutorTypes, ServerOK
  <1>6. ASSUME NEW c \in Callers, PlainDoes(c) PROVE ServerOK'
    BY <1>0, Basics, <1>6 DEF PlainDoes, CommandDoes, CommandAcks, Ended, Return, NoOp, Op, Holds,
       Kept, PipelineDoes, ExecutorTypes, ServerOK, client, transactions
  <1>7. ASSUME NEW c \in Callers, TxDoes(c) PROVE ServerOK'
    BY <1>0, Basics, <1>7 DEF TxDoes, TransactionCommandDoes, Ended, Return, NoOp, Op, Holds,
       Drops, Frees, Kept, Dropped, TransactionDoes, ExecutorTypes, ServerOK
  <1>8. ASSUME NEW r \in Replies, ServeDoes(r) PROVE ServerOK'
    <2> DEFINE m == wire[1]
    <2>1. Len(wire) \in Nat /\ Len(wire') = Len(wire) - 1 /\ Len(wire) > 0
      BY <1>0, <1>8 DEF WireTypes, ServeDoes
    <2>2. 1 \in 1..Len(wire) /\ \A i \in 1..Len(wire') : wire'[i] = wire[i + 1] /\ i + 1 \in 1..Len(wire)
      BY <2>1, <1>8 DEF ServeDoes
    <2>3. UNCHANGED <<pc, op, sess, gateW, legacy, legacyMulti, gate, txState, cur, sconn, acked>>
      BY <1>8 DEF ServeDoes, client, executor, transactions
    <2>4. m \in Messages
      BY <1>0, <2>1, <2>2 DEF WireTypes
    <2>5. ServeMeans(m, r)
      BY <1>8, Serving DEF TxInv
    <2>6. m.name \notin CommandKinds => m.sess = gate /\ gate # 0 /\ Len(wire) = 1 /\ Quiet
      BY <2>2, SpecialMessage DEF TxInv
    <2> HIDE DEF m
    <2>7. server'.watch \/ server'.multi => gate # 0 /\ \A i \in 1..Len(wire') : wire'[i].sess = gate
      <3>1. CASE server.watch \/ server.multi
        BY <1>0, <2>2, <3>1 DEF ServerOK
      <3>2. CASE ~ (server.watch \/ server.multi) /\ (server'.watch \/ server'.multi)
        <4>1. m.name \notin CommandKinds
          BY <2>5, <3>2 DEF ServeMeans
        <4> QED BY <2>1, <2>6, <4>1
      <3> QED BY <3>1, <3>2
    <2>8. server'.multi => \A i \in 1..Len(server'.queue) : server'.queue[i] = gate
      <3>1. CASE server.multi /\ server'.queue = server.queue
        BY <1>0, <3>1 DEF ServerOK
      <3>2. CASE server.multi /\ Taken(m)
        <4>1. m.sess = gate
          BY <1>0, <2>2, <3>2 DEF ServerOK, m
        <4>2. server.queue \in Seq(0..MaxSessions) /\ m.sess \in 0..MaxSessions
          BY <1>0, <2>4 DEF ServerTypes, Messages
        <4>3. /\ Len(server'.queue) = Len(server.queue) + 1 /\ server'.queue[Len(server.queue) + 1] = m.sess
              /\ \A i \in 1..Len(server.queue) : server'.queue[i] = server.queue[i]
              /\ Len(server.queue) \in Nat
          BY <3>2, <4>2, AppendProperties DEF Taken
        <4>4. \A i \in 1..Len(server.queue) : server.queue[i] = gate
          BY <1>0, <3>2 DEF ServerOK
        <4>5. \A i \in 1..Len(server'.queue) : i \in 1..Len(server.queue) \/ i = Len(server.queue) + 1
          BY <4>3
        <4> QED BY <4>1, <4>3, <4>4, <4>5
      <3>3. CASE server'.queue = <<>>
        BY <3>3
      <3> QED BY <2>5, <3>1, <3>2, <3>3 DEF ServeMeans
    <2>9. server'.multi => \A i \in 1..Len(wire') : wire'[i].name # "multi"
      <3>1. CASE server.multi
        BY <1>0, <2>2, <3>1 DEF ServerOK
      <3>2. CASE ~ server.multi /\ server'.multi
        <4>1. Len(wire) = 1
          BY <2>5, <2>6, <3>2 DEF ServeMeans, CommandKinds
        <4> QED BY <2>1, <4>1
      <3> QED BY <3>1, <3>2
    <2> QED BY <2>3, <2>7, <2>8, <2>9 DEF ServerOK
  <1>9. CASE Breaks
    BY <1>0, Basics, <1>9 DEF Breaks, ContextEnds, ContextAbortsDoes, Drops, Dropped, LoseDoes,
       vars, ExecutorTypes, ServerOK, client, transactions, executor, calls, remote
  <1>s. StepDoes
    BY Steps DEF TxInv
  <1> QED BY <1>s, <1>1, <1>2, <1>3, <1>4, <1>5, <1>6, <1>7, <1>8, <1>9 DEF StepDoes

\* A session starts WATCH or MULTI on a connection that has no MULTI.
LEMMA ReadyKept ==
    ASSUME TxInv, [Next]_vars
    PROVE  ReadyOK'
  <1>0. /\ ClientTypes /\ ExecutorTypes /\ CallTypes /\ WireTypes /\ LocksOK /\ PlacesOK
        /\ SpeakersOK /\ ConnOK /\ ServerOK /\ ReadyOK /\ LegacyOK
    BY DEF TxInv, TypeOK
  <1>1. ASSUME NEW c \in Callers, Enters(c) PROVE ReadyOK'
    <2>1. CASE Multi(c)
      <3>1. legacy # 0 => ~ server.multi
        BY <1>0, <2>1 DEF Multi, Writer, LegacyOK, ConnOK
      <3> QED BY <1>0, Basics, <2>1, <3>1 DEF Multi, Writer, Enter, Op, ReadyOK, CallTypes, LocksOK,
         LegacyStart, LegacyEnd, remote
    <2>2. ASSUME NEW x \in Txs, BeginTransaction(c, x) PROVE ReadyOK'
      <3>1. legacy # 0 => ~ server.multi
        BY <1>0, <2>2 DEF BeginTransaction, Writer, LegacyOK, ConnOK
      <3> QED BY <1>0, Basics, <2>2, <3>1 DEF BeginTransaction, Writer, Enter, SetLegacy, ReadyOK,
         CallTypes, LocksOK, LegacyStart, LegacyEnd, remote
    <2>3. CASE Watch(c) \/ TakeLegacy(c) \/ (\E o \in Plain : UseClient(c, o)) \/ (\E o \in TxOps : UseTransaction(c, o))
      BY <1>0, Basics, <2>3 DEF Watch, Writer, Enter, Op, TakeLegacy, SetLegacy, UseClient, Plain,
         UseTransaction, TxOps, CallTypes, LocksOK, PlacesOK, SpeakersOK, ServerOK, ReadyOK,
         LegacyStart, LegacyEnd, PlainNames, TxNames, client, transactions, executor, remote
    <2> QED BY <1>1, <2>1, <2>2, <2>3 DEF Enters
  <1>2. ASSUME NEW c \in Callers, Acquires(c) PROVE ReadyOK'
    BY <1>0, Basics, <1>2 DEF Acquires, Acquire, Connect, SetLegacy, AcquireFails, Return, NoOp,
       Op, AcquirePlain, CannotSend, CallTypes, LocksOK, PlacesOK, SpeakersOK, ServerOK, ReadyOK,
       LegacyStart, LegacyEnd, PlainNames, TxNames, client, transactions, executor, remote
  <1>3. ASSUME NEW c \in Callers, Talks(c) PROVE ReadyOK'
    BY <1>0, Basics, <1>3 DEF Talks, SendDoes, GiveUpDoes, CallTypes, LocksOK, PlacesOK,
       SpeakersOK, ServerOK, ReadyOK, LegacyStart, LegacyEnd, PlainNames, TxNames, client,
       transactions, executor
  <1>4. ASSUME NEW c \in Callers, Closes(c) PROVE ReadyOK'
    <2>1. CASE CloseDoes(c)
      BY <1>0, Basics, <2>1 DEF CloseDoes, Enter, Op, Holds, Drops, Kept, Dropped, CallTypes,
         LocksOK, PlacesOK, SpeakersOK, ServerOK, ReadyOK, LegacyStart, LegacyEnd, PlainNames,
         TxNames, transactions
    <2>2. CASE CloseExecutorDoes(c)
      BY <1>0, Basics, <2>2 DEF CloseExecutorDoes, Op, NoOp, Dropped, CallTypes, LocksOK,
         PlacesOK, SpeakersOK, ServerOK, ReadyOK, LegacyStart, LegacyEnd, PlainNames, TxNames,
         client, transactions
    <2> QED BY <1>4, <2>1, <2>2 DEF Closes
  <1>5. ASSUME NEW c \in Callers, SessionDoes(c) PROVE ReadyOK'
    BY <1>0, Basics, <1>5 DEF SessionDoes, WatchDoes, Ended, Return, NoOp, Op, Holds, Drops,
       Frees, Kept, Dropped, MultiDoes, LegacyDoes, BeginDoes, CallTypes, LocksOK, PlacesOK,
       SpeakersOK, ServerOK, ReadyOK, LegacyStart, LegacyEnd, PlainNames, TxNames
  <1>6. ASSUME NEW c \in Callers, PlainDoes(c) PROVE ReadyOK'
    <2>1. CASE CommandDoes(c)
      BY <1>0, Basics, <2>1 DEF CommandDoes, CommandAcks, Ended, Return, NoOp, Op, Holds, Kept,
         CallTypes, LocksOK, PlacesOK, SpeakersOK, ServerOK, ReadyOK, LegacyStart, LegacyEnd,
         PlainNames, TxNames
    <2>2. CASE PipelineDoes(c)
      BY <1>0, Basics, <2>2 DEF PipelineDoes, CommandAcks, Holds, Kept, CallTypes, LocksOK,
         PlacesOK, SpeakersOK, ServerOK, ReadyOK, LegacyStart, LegacyEnd, PlainNames, TxNames,
         client, transactions
    <2> QED BY <1>6, <2>1, <2>2 DEF PlainDoes
  <1>7. ASSUME NEW c \in Callers, TxDoes(c) PROVE ReadyOK'
    <2>1. CASE TransactionCommandDoes(c)
      BY <1>0, Basics, <2>1 DEF TransactionCommandDoes, Ended, Return, NoOp, Op, Holds, Drops,
         Kept, Dropped, CallTypes, LocksOK, PlacesOK, SpeakersOK, ServerOK, ReadyOK, LegacyStart,
         LegacyEnd, PlainNames, TxNames
    <2>2. CASE TransactionDoes(c)
      BY <1>0, Basics, <2>2 DEF TransactionDoes, Ended, Return, NoOp, Op, Holds, Drops, Frees,
         Kept, Dropped, CallTypes, LocksOK, PlacesOK, SpeakersOK, ServerOK, ReadyOK, LegacyStart,
         LegacyEnd, PlainNames, TxNames
    <2> QED BY <1>7, <2>1, <2>2 DEF TxDoes
  <1>8. ASSUME NEW r \in Replies, ServeDoes(r) PROVE ReadyOK'
    <2> DEFINE m == wire[1]
    <2>1. Len(wire) \in Nat /\ Len(wire') = Len(wire) - 1 /\ Len(wire) > 0
      BY <1>0, <1>8 DEF WireTypes, ServeDoes
    <2>2. 1 \in 1..Len(wire) /\ \A i \in 1..Len(wire') : wire'[i] = wire[i + 1] /\ i + 1 \in 1..Len(wire)
      BY <2>1, <1>8 DEF ServeDoes
    <2>3. UNCHANGED <<pc, op, sess, gateW, legacy, legacyMulti, gate, txState, cur, sconn, acked>>
      BY <1>8 DEF ServeDoes, client, executor, transactions
    <2>4. m \in Messages
      BY <1>0, <2>1, <2>2 DEF WireTypes
    <2>5. ServeMeans(m, r)
      BY <1>8, Serving DEF TxInv
    <2>6. m.name \notin CommandKinds => m.sess = gate /\ gate # 0 /\ Len(wire) = 1 /\ Quiet
      BY <2>2, SpecialMessage DEF TxInv
    <2> HIDE DEF m
    <2>7. ASSUME NEW c \in Callers, pc[c] = "send", op[c].name \in {"watch", "multi", "begin"}, server'.multi
          PROVE  FALSE
      <3>1. sess[c] = gate /\ gate # 0
        BY <1>0, <2>7 DEF SpeakersOK, Speaking, Owning
      <3>2. ~ Quiet
        BY <2>7, <3>1, NotQuiet DEF TxInv
      <3>3. ~ server.multi
        BY <1>0, <2>7 DEF ReadyOK
      <3> QED BY <2>5, <2>6, <2>7, <3>2, <3>3 DEF ServeMeans, CommandKinds
    <2> QED BY <1>0, <2>3, <2>7 DEF ReadyOK
  <1>9. CASE Breaks
    BY <1>0, Basics, <1>9 DEF Breaks, ContextEnds, ContextAbortsDoes, Drops, Dropped, LoseDoes,
       vars, CallTypes, LocksOK, PlacesOK, SpeakersOK, ServerOK, ReadyOK, LegacyStart, LegacyEnd,
       PlainNames, TxNames, client, transactions, executor, calls, remote
  <1>s. StepDoes
    BY Steps DEF TxInv
  <1> QED BY <1>s, <1>1, <1>2, <1>3, <1>4, <1>5, <1>6, <1>7, <1>8, <1>9 DEF StepDoes

\* Only a call that waits has an answer.
LEMMA RepliesKept ==
    ASSUME TxInv, [Next]_vars
    PROVE  RepliesOK'
  <1>0. /\ CallTypes /\ ReplyTypes /\ WireTypes /\ AwaitedOK /\ OrderOK /\ ServerOK
        /\ RepliesOK
    BY DEF TxInv, TypeOK
  <1>w. \A d \in Callers : InWire(d) => pc[d] = "wait"
    BY <1>0, Basics DEF InWire, AwaitedOK
  <1>1. ASSUME NEW c \in Callers, Enters(c) PROVE RepliesOK'
    BY <1>0, Basics, <1>w, <1>1 DEF Enters, Watch, Writer, Enter, Op, Multi, TakeLegacy,
       SetLegacy, BeginTransaction, UseClient, Plain, UseTransaction, TxOps, CallTypes,
       ReplyTypes, RepliesOK, client, transactions, executor, remote
  <1>2. ASSUME NEW c \in Callers, Acquires(c) PROVE RepliesOK'
    BY <1>0, Basics, <1>w, <1>2 DEF Acquires, Acquire, Connect, SetLegacy, AcquireFails, Return,
       NoOp, Op, AcquirePlain, CannotSend, CallTypes, ReplyTypes, RepliesOK, client, transactions,
       executor, remote
  <1>3. ASSUME NEW c \in Callers, Talks(c) PROVE RepliesOK'
    BY <1>0, Basics, <1>w, <1>3 DEF Talks, SendDoes, GiveUpDoes, CallTypes, ReplyTypes, RepliesOK,
       client, transactions, executor
  <1>4. ASSUME NEW c \in Callers, Closes(c) PROVE RepliesOK'
    BY <1>0, Basics, <1>w, <1>4 DEF Closes, CloseDoes, Enter, Op, Holds, Drops, Kept, Dropped,
       CloseExecutorDoes, NoOp, CallTypes, ReplyTypes, RepliesOK, client, transactions
  <1>5. ASSUME NEW c \in Callers, SessionDoes(c) PROVE RepliesOK'
    BY <1>0, Basics, <1>w, <1>5 DEF SessionDoes, WatchDoes, Ended, Return, NoOp, Op, Holds, Drops,
       Frees, Kept, Dropped, MultiDoes, LegacyDoes, BeginDoes, CallTypes, ReplyTypes, RepliesOK
  <1>6. ASSUME NEW c \in Callers, PlainDoes(c) PROVE RepliesOK'
    BY <1>0, Basics, <1>w, <1>6 DEF PlainDoes, CommandDoes, CommandAcks, Ended, Return, NoOp, Op,
       Holds, Kept, PipelineDoes, CallTypes, ReplyTypes, RepliesOK, client, transactions
  <1>7. ASSUME NEW c \in Callers, TxDoes(c) PROVE RepliesOK'
    BY <1>0, Basics, <1>w, <1>7 DEF TxDoes, TransactionCommandDoes, Ended, Return, NoOp, Op,
       Holds, Drops, Frees, Kept, Dropped, TransactionDoes, CallTypes, ReplyTypes, RepliesOK
  <1>8. ASSUME NEW r \in Replies, ServeDoes(r) PROVE RepliesOK'
    <2> DEFINE m == wire[1]
    <2>1. Len(wire) \in Nat /\ Len(wire') = Len(wire) - 1 /\ Len(wire) > 0
      BY <1>0, <1>8 DEF WireTypes, ServeDoes
    <2>2. 1 \in 1..Len(wire) /\ \A i \in 1..Len(wire') : wire'[i] = wire[i + 1] /\ i + 1 \in 1..Len(wire)
      BY <2>1, <1>8 DEF ServeDoes
    <2>3. UNCHANGED <<pc, op, sess, gateW, legacy, legacyMulti, gate, txState, cur, sconn, acked>>
      BY <1>8 DEF ServeDoes, client, executor, transactions
    <2>4. m \in Messages
      BY <1>0, <2>1, <2>2 DEF WireTypes
    <2>5. ServeMeans(m, r)
      BY <1>8, Serving DEF TxInv
    <2>6. m.name \notin CommandKinds => m.sess = gate /\ gate # 0 /\ Len(wire) = 1 /\ Quiet
      BY <2>2, SpecialMessage DEF TxInv
    <2> HIDE DEF m
    <2>7. CASE m.by = "none"
      BY <1>0, <1>8, <2>3, <2>7 DEF ServeDoes, Deliver, RepliesOK, m
    <2>8. CASE m.by # "none"
      <3>1. m.by \in Callers
        BY <2>4, <2>8 DEF Messages
      <3>2. pc[m.by] = "wait" /\ m.sess = sess[m.by]
        BY <1>0, <2>2, <2>8 DEF AwaitedOK, m
      <3>3. reply' = [reply EXCEPT ![m.by] = r]
        BY <1>8, <2>8 DEF ServeDoes, Deliver, m
      <3>4. m.sess = 0 => r.kind # "queued" /\ r.kind # "array"
        <4>1. m.sess = 0 => m.name \in CommandKinds
          BY <1>0, <2>2 DEF OrderOK, m
        <4>2. server.multi => m.sess # 0
          BY <1>0, <2>2 DEF ServerOK, m
        <4> QED BY <2>5, <4>1, <4>2 DEF ServeMeans, CommandKinds
      <3> QED BY <1>0, <2>3, <3>1, <3>2, <3>3, <3>4 DEF RepliesOK, ReplyTypes
    <2> QED BY <2>7, <2>8
  <1>9. CASE Breaks
    BY <1>0, Basics, <1>w, <1>9 DEF Breaks, ContextEnds, ContextAbortsDoes, Drops, Dropped,
       LoseDoes, vars, CallTypes, ReplyTypes, RepliesOK, client, transactions, executor, calls,
       remote
  <1>s. StepDoes
    BY Steps DEF TxInv
  <1> QED BY <1>s, <1>1, <1>2, <1>3, <1>4, <1>5, <1>6, <1>7, <1>8, <1>9 DEF StepDoes

\* A session has one request under way.
LEMMA TurnsKept ==
    ASSUME TxInv, [Next]_vars
    PROVE  TurnsOK'
  <1>0. /\ CallTypes /\ ReplyTypes /\ WireTypes /\ AwaitedOK /\ TurnsOK
    BY DEF TxInv, TypeOK
  <1>1. ASSUME NEW c \in Callers, Enters(c) PROVE TurnsOK'
    BY <1>0, Basics, <1>1 DEF Enters, Watch, Writer, Enter, Op, Multi, TakeLegacy, SetLegacy,
       BeginTransaction, UseClient, Plain, UseTransaction, TxOps, CallTypes, ReplyTypes, TurnsOK,
       client, transactions, executor, remote
  <1>2. ASSUME NEW c \in Callers, Acquires(c) PROVE TurnsOK'
    <2>1. CASE Acquire(c)
      BY <1>0, Basics, <2>1 DEF Acquire, Connect, SetLegacy, CallTypes, ReplyTypes, TurnsOK,
         transactions, remote
    <2>2. CASE AcquireFails(c)
      BY <1>0, Basics, <2>2 DEF AcquireFails, Return, NoOp, Op, CallTypes, ReplyTypes, TurnsOK,
         transactions, executor, remote
    <2>3. CASE AcquirePlain(c)
      BY <1>0, Basics, <2>3 DEF AcquirePlain, Connect, CallTypes, ReplyTypes, TurnsOK, client,
         transactions, remote
    <2>4. CASE CannotSend(c)
      BY <1>0, Basics, <2>4 DEF CannotSend, CallTypes, ReplyTypes, TurnsOK, client, transactions,
         executor, remote
    <2> QED BY <1>2, <2>1, <2>2, <2>3, <2>4 DEF Acquires
  <1>3. ASSUME NEW c \in Callers, Talks(c) PROVE TurnsOK'
    <2>1. CASE SendDoes(c)
      BY <1>0, Basics, <2>1 DEF SendDoes, CallTypes, ReplyTypes, TurnsOK, client, transactions,
         executor
    <2>2. CASE GiveUpDoes(c)
      BY <1>0, Basics, <2>2 DEF GiveUpDoes, CallTypes, ReplyTypes, TurnsOK, client, transactions,
         executor
    <2> QED BY <1>3, <2>1, <2>2 DEF Talks
  <1>4. ASSUME NEW c \in Callers, Closes(c) PROVE TurnsOK'
    <2>1. CASE CloseDoes(c)
      BY <1>0, Basics, <2>1 DEF CloseDoes, Enter, Op, Holds, Drops, Kept, Dropped, CallTypes,
         ReplyTypes, TurnsOK, transactions
    <2>2. CASE CloseExecutorDoes(c)
      BY <1>0, Basics, <2>2 DEF CloseExecutorDoes, Op, NoOp, Dropped, CallTypes, ReplyTypes,
         TurnsOK, client, transactions
    <2> QED BY <1>4, <2>1, <2>2 DEF Closes
  <1>5. ASSUME NEW c \in Callers, SessionDoes(c) PROVE TurnsOK'
    BY <1>0, Basics, <1>5 DEF SessionDoes, WatchDoes, Ended, Return, NoOp, Op, Holds, Drops,
       Frees, Kept, Dropped, MultiDoes, LegacyDoes, BeginDoes, CallTypes, ReplyTypes, TurnsOK
  <1>6. ASSUME NEW c \in Callers, PlainDoes(c) PROVE TurnsOK'
    BY <1>0, Basics, <1>6 DEF PlainDoes, CommandDoes, CommandAcks, Ended, Return, NoOp, Op, Holds,
       Kept, PipelineDoes, CallTypes, ReplyTypes, TurnsOK, client, transactions
  <1>7. ASSUME NEW c \in Callers, TxDoes(c) PROVE TurnsOK'
    BY <1>0, Basics, <1>7 DEF TxDoes, TransactionCommandDoes, Ended, Return, NoOp, Op, Holds,
       Drops, Frees, Kept, Dropped, TransactionDoes, CallTypes, ReplyTypes, TurnsOK
  <1>8. ASSUME NEW r \in Replies, ServeDoes(r) PROVE TurnsOK'
    <2> DEFINE m == wire[1]
    <2>1. Len(wire) \in Nat /\ Len(wire') = Len(wire) - 1 /\ Len(wire) > 0
      BY <1>0, <1>8 DEF WireTypes, ServeDoes
    <2>2. 1 \in 1..Len(wire) /\ \A i \in 1..Len(wire') : wire'[i] = wire[i + 1] /\ i + 1 \in 1..Len(wire)
      BY <2>1, <1>8 DEF ServeDoes
    <2>3. UNCHANGED <<pc, op, sess, gateW, legacy, legacyMulti, gate, txState, cur, sconn, acked>>
      BY <1>8 DEF ServeDoes, client, executor, transactions
    <2>4. m \in Messages
      BY <1>0, <2>1, <2>2 DEF WireTypes
    <2>5. ServeMeans(m, r)
      BY <1>8, Serving DEF TxInv
    <2>6. m.name \notin CommandKinds => m.sess = gate /\ gate # 0 /\ Len(wire) = 1 /\ Quiet
      BY <2>2, SpecialMessage DEF TxInv
    <2> HIDE DEF m
    <2>7. CASE m.by = "none"
      BY <1>0, <1>8, <2>3, <2>7 DEF ServeDoes, Deliver, TurnsOK, m
    <2>8. CASE m.by # "none"
      <3>1. m.by \in Callers
        BY <2>4, <2>8 DEF Messages
      <3>2. reply[m.by] = NoReply
        BY <1>0, <2>2, <2>8 DEF AwaitedOK, m
      <3>3. reply' = [reply EXCEPT ![m.by] = r]
        BY <1>8, <2>8 DEF ServeDoes, Deliver, m
      <3> QED BY <1>0, Basics, <2>3, <3>1, <3>2, <3>3 DEF TurnsOK, ReplyTypes
    <2> QED BY <2>7, <2>8
  <1>9. CASE Breaks
    BY <1>0, Basics, <1>9 DEF Breaks, ContextEnds, ContextAbortsDoes, Drops, Dropped, LoseDoes,
       vars, CallTypes, ReplyTypes, TurnsOK, client, transactions, executor, calls, remote
  <1>s. StepDoes
    BY Steps DEF TxInv
  <1> QED BY <1>s, <1>1, <1>2, <1>3, <1>4, <1>5, <1>6, <1>7, <1>8, <1>9 DEF StepDoes

\* A request that was accepted has had its effect on the server.
LEMMA AcceptedKept ==
    ASSUME TxInv, [Next]_vars
    PROVE  AcceptedOK'
  <1>0. /\ ExecutorTypes /\ CallTypes /\ ReplyTypes /\ WireTypes /\ SessionsOK
        /\ AwaitedOK /\ AcceptedOK
    BY DEF TxInv, TypeOK
  <1>w. \A d \in Callers : pc[d] = "wait" /\ sess[d] = 0 => Text(op[d]) \in CommandKinds
    BY NoSession DEF TxInv, Speaking
  <1>1. ASSUME NEW c \in Callers, Enters(c) PROVE AcceptedOK'
    BY <1>0, Basics, <1>w, <1>1 DEF Enters, Watch, Writer, Enter, Op, Multi, TakeLegacy,
       SetLegacy, BeginTransaction, UseClient, Plain, UseTransaction, TxOps, ExecutorTypes,
       CallTypes, ReplyTypes, SessionsOK, AcceptedOK, Accepted, client, transactions, executor,
       remote
  <1>2. ASSUME NEW c \in Callers, Acquires(c) PROVE AcceptedOK'
    <2>1. CASE Acquire(c)
      BY <1>0, Basics, <1>w, <2>1 DEF Acquire, Connect, SetLegacy, ExecutorTypes, CallTypes,
         ReplyTypes, SessionsOK, AcceptedOK, Accepted, transactions, remote
    <2>2. CASE AcquireFails(c)
      BY <1>0, Basics, <1>w, <2>2 DEF AcquireFails, Return, NoOp, Op, ExecutorTypes, CallTypes,
         ReplyTypes, SessionsOK, AcceptedOK, Accepted, transactions, executor, remote
    <2>3. CASE AcquirePlain(c)
      BY <1>0, Basics, <1>w, <2>3 DEF AcquirePlain, Connect, ExecutorTypes, CallTypes, ReplyTypes,
         SessionsOK, AcceptedOK, Accepted, client, transactions, remote
    <2>4. CASE CannotSend(c)
      BY <1>0, Basics, <1>w, <2>4 DEF CannotSend, ExecutorTypes, CallTypes, ReplyTypes,
         SessionsOK, AcceptedOK, Accepted, client, transactions, executor, remote
    <2> QED BY <1>2, <2>1, <2>2, <2>3, <2>4 DEF Acquires
  <1>3. ASSUME NEW c \in Callers, Talks(c) PROVE AcceptedOK'
    <2>1. CASE SendDoes(c)
      <3>1. UNCHANGED <<op, sess, server, gate, cur>>
        BY <2>1 DEF SendDoes, executor
      <3>2. \A d \in Callers : d # c => pc'[d] = pc[d] /\ reply'[d] = reply[d]
        BY <1>0, <2>1 DEF SendDoes, CallTypes, ReplyTypes
      <3>3. reply'[c] = NoReply
        BY <1>0, <2>1 DEF SendDoes, ReplyTypes
      <3>4. ~ Accepted(c)'
        BY Basics, <3>3 DEF Accepted
      <3>5. \A d \in Callers : pc[d] = "wait" /\ sess[d] = gate => Text(op[d]) \in CommandKinds
        BY <1>w, <2>1 DEF SendDoes
      <3> QED BY <3>1, <3>2, <3>4, <3>5 DEF AcceptedOK
    <2>2. CASE GiveUpDoes(c)
      BY <1>0, Basics, <1>w, <2>2 DEF GiveUpDoes, ExecutorTypes, CallTypes, ReplyTypes,
         SessionsOK, AcceptedOK, Accepted, client, transactions, executor
    <2> QED BY <1>3, <2>1, <2>2 DEF Talks
  <1>4. ASSUME NEW c \in Callers, Closes(c) PROVE AcceptedOK'
    BY <1>0, Basics, <1>w, <1>4 DEF Closes, CloseDoes, Enter, Op, Holds, Drops, Kept, Dropped,
       CloseExecutorDoes, NoOp, ExecutorTypes, CallTypes, ReplyTypes, SessionsOK, AcceptedOK,
       Accepted, client, transactions
  <1>5. ASSUME NEW c \in Callers, SessionDoes(c) PROVE AcceptedOK'
    <2>1. CASE WatchDoes(c)
      BY <1>0, Basics, <1>w, <2>1 DEF WatchDoes, Ended, Return, NoOp, Op, Holds, Drops, Kept,
         Dropped, ExecutorTypes, CallTypes, ReplyTypes, SessionsOK, AcceptedOK, Accepted
    <2>2. CASE MultiDoes(c)
      BY <1>0, Basics, <1>w, <2>2 DEF MultiDoes, Ended, Return, NoOp, Op, Holds, Drops, Kept,
         Dropped, ExecutorTypes, CallTypes, ReplyTypes, SessionsOK, AcceptedOK, Accepted
    <2>3. CASE LegacyDoes(c)
      BY <1>0, Basics, <1>w, <2>3 DEF LegacyDoes, Ended, Return, NoOp, Op, Drops, Frees, Kept,
         Dropped, ExecutorTypes, CallTypes, ReplyTypes, SessionsOK, AcceptedOK, Accepted
    <2>4. CASE BeginDoes(c)
      BY <1>0, Basics, <1>w, <2>4 DEF BeginDoes, Return, NoOp, Op, Holds, Drops, Kept, Dropped,
         ExecutorTypes, CallTypes, ReplyTypes, SessionsOK, AcceptedOK, Accepted
    <2> QED BY <1>5, <2>1, <2>2, <2>3, <2>4 DEF SessionDoes
  <1>6. ASSUME NEW c \in Callers, PlainDoes(c) PROVE AcceptedOK'
    <2>1. CASE CommandDoes(c)
      BY <1>0, Basics, <1>w, <2>1 DEF CommandDoes, CommandAcks, Ended, Return, NoOp, Op, Holds,
         Kept, ExecutorTypes, CallTypes, ReplyTypes, SessionsOK, AcceptedOK, Accepted
    <2>2. CASE PipelineDoes(c)
      BY <1>0, Basics, <1>w, <2>2 DEF PipelineDoes, CommandAcks, Holds, Kept, ExecutorTypes,
         CallTypes, ReplyTypes, SessionsOK, AcceptedOK, Accepted, client, transactions
    <2> QED BY <1>6, <2>1, <2>2 DEF PlainDoes
  <1>7. ASSUME NEW c \in Callers, TxDoes(c) PROVE AcceptedOK'
    BY <1>0, Basics, <1>w, <1>7 DEF TxDoes, TransactionCommandDoes, Ended, Return, NoOp, Op,
       Holds, Drops, Frees, Kept, Dropped, TransactionDoes, ExecutorTypes, CallTypes, ReplyTypes,
       SessionsOK, AcceptedOK, Accepted
  <1>8. ASSUME NEW r \in Replies, ServeDoes(r) PROVE AcceptedOK'
    <2> DEFINE m == wire[1]
    <2>1. Len(wire) \in Nat /\ Len(wire') = Len(wire) - 1 /\ Len(wire) > 0
      BY <1>0, <1>8 DEF WireTypes, ServeDoes
    <2>2. 1 \in 1..Len(wire) /\ \A i \in 1..Len(wire') : wire'[i] = wire[i + 1] /\ i + 1 \in 1..Len(wire)
      BY <2>1, <1>8 DEF ServeDoes
    <2>3. UNCHANGED <<pc, op, sess, gateW, legacy, legacyMulti, gate, txState, cur, sconn, acked>>
      BY <1>8 DEF ServeDoes, client, executor, transactions
    <2>4. m \in Messages
      BY <1>0, <2>1, <2>2 DEF WireTypes
    <2>5. ServeMeans(m, r)
      BY <1>8, Serving DEF TxInv
    <2>6. m.name \notin CommandKinds => m.sess = gate /\ gate # 0 /\ Len(wire) = 1 /\ Quiet
      BY <2>2, SpecialMessage DEF TxInv
    <2> HIDE DEF m
    <2>7. CASE \E c \in Callers : pc[c] = "wait" /\ Text(op[c]) \notin CommandKinds /\ Accepted(c) /\ sess[c] = gate
      BY <1>0, <2>1, <2>7 DEF AcceptedOK
    <2>8. ASSUME NEW c \in Callers, pc[c] = "wait", Text(op[c]) \notin CommandKinds, Accepted(c)', sess[c] = gate,
                 ~ Accepted(c)
          PROVE  /\ Len(wire') = 0
                 /\ Text(op[c]) = "watch" => server'.watch /\ ~ server'.multi
                 /\ Text(op[c]) = "multi" => server'.multi
                 /\ Text(op[c]) \in LegacyEnd => ~ server'.watch /\ ~ server'.multi
      <3>1. m.by = c /\ reply'[c] = r
        BY <1>0, <1>8, <2>3, <2>8 DEF ServeDoes, Deliver, Accepted, ReplyTypes, m
      <3>2. m.name = Text(op[c])
        BY <1>0, Basics, <2>2, <3>1 DEF AwaitedOK, m
      <3>3. r.kind \in IF Text(op[c]) = "exec" THEN {"array", "nil"} ELSE {"ok"}
        BY <2>3, <2>8, <3>1 DEF Accepted
      <3>a. Len(wire) = 1
        BY <2>6, <2>8, <3>2
      <3>4. Len(wire') = 0
        BY <2>1, <3>a
      <3> QED BY <2>5, <3>2, <3>3, <3>4 DEF ServeMeans, LegacyEnd
    <2> QED BY <2>3, <2>7, <2>8 DEF AcceptedOK
  <1>9. CASE Breaks
    BY <1>0, Basics, <1>w, <1>9 DEF Breaks, ContextEnds, ContextAbortsDoes, Drops, Dropped,
       LoseDoes, vars, ExecutorTypes, CallTypes, ReplyTypes, SessionsOK, AcceptedOK, Accepted,
       client, transactions, executor, calls, remote
  <1>s. StepDoes
    BY Steps DEF TxInv
  <1> QED BY <1>s, <1>1, <1>2, <1>3, <1>4, <1>5, <1>6, <1>7, <1>8, <1>9 DEF StepDoes

\* The client knows of its legacy session what the server keeps.
LEMMA LegacyKept ==
    ASSUME TxInv, [Next]_vars
    PROVE  LegacyOK'
  <1>0. /\ ClientTypes /\ ExecutorTypes /\ CallTypes /\ WireTypes /\ ServerTypes
        /\ LocksOK /\ PlacesOK /\ SpeakersOK /\ TransactionsOK /\ LegacyOK
    BY DEF TxInv, TypeOK
  <1>1. ASSUME NEW c \in Callers, Enters(c) PROVE LegacyOK'
    BY <1>0, Basics, <1>1 DEF Enters, Watch, Writer, Enter, Op, Multi, TakeLegacy, SetLegacy,
       BeginTransaction, UseClient, Plain, UseTransaction, TxOps, ClientTypes, CallTypes, LocksOK,
       PlacesOK, SpeakersOK, LegacyOK, Speaking, Owning, LegacyStart, LegacyEnd, PlainNames,
       TxNames, client, transactions, executor, remote
  <1>2. ASSUME NEW c \in Callers, Acquires(c) PROVE LegacyOK'
    BY <1>0, Basics, <1>2 DEF Acquires, Acquire, Connect, SetLegacy, AcquireFails, Return, NoOp,
       Op, AcquirePlain, CannotSend, ClientTypes, CallTypes, LocksOK, PlacesOK, SpeakersOK,
       LegacyOK, Speaking, Owning, LegacyStart, LegacyEnd, PlainNames, TxNames, client,
       transactions, executor, remote
  <1>3. ASSUME NEW c \in Callers, Talks(c) PROVE LegacyOK'
    BY <1>0, Basics, <1>3 DEF Talks, SendDoes, GiveUpDoes, ClientTypes, CallTypes, LocksOK,
       PlacesOK, SpeakersOK, LegacyOK, Speaking, Owning, LegacyStart, LegacyEnd, PlainNames,
       TxNames, client, transactions, executor
  <1>4. ASSUME NEW c \in Callers, Closes(c) PROVE LegacyOK'
    BY <1>0, Basics, <1>4 DEF Closes, CloseDoes, Enter, Op, Holds, Drops, Kept, Dropped,
       CloseExecutorDoes, NoOp, ClientTypes, CallTypes, LocksOK, PlacesOK, SpeakersOK, LegacyOK,
       Speaking, Owning, LegacyStart, LegacyEnd, PlainNames, TxNames, client, transactions
  <1>5. ASSUME NEW c \in Callers, SessionDoes(c) PROVE LegacyOK'
    <2>1. CASE WatchDoes(c)
      <3>1. server.multi \in BOOLEAN
        BY <1>0 DEF ServerTypes
      <3>2. CASE Accepted(c) /\ cur # 0
        <4>1. legacyMulti' = FALSE /\ server' = server /\ server.watch /\ ~ server.multi
          BY <2>1, <3>2 DEF WatchDoes, Holds, Kept
        <4> QED BY <3>1, <4>1 DEF LegacyOK
      <3>3. CASE Accepted(c) /\ cur = 0
        BY <2>1, <3>3 DEF WatchDoes, Holds, Kept, LegacyOK
      <3>4. CASE ~ Accepted(c)
        BY <2>1, <3>4 DEF WatchDoes, Drops, Dropped, LegacyOK
      <3> QED BY <3>2, <3>3, <3>4
    <2>2. CASE MultiDoes(c)
      <3>1. server.multi \in BOOLEAN
        BY <1>0 DEF ServerTypes
      <3>2. CASE Accepted(c) /\ cur # 0
        <4>1. legacyMulti' = TRUE /\ server' = server /\ server.multi
          BY <2>2, <3>2 DEF MultiDoes, Holds, Kept
        <4> QED BY <3>1, <4>1 DEF LegacyOK
      <3>3. CASE Accepted(c) /\ cur = 0
        BY <2>2, <3>3 DEF MultiDoes, Holds, Kept, LegacyOK
      <3>4. CASE ~ Accepted(c)
        BY <2>2, <3>4 DEF MultiDoes, Drops, Dropped, LegacyOK
      <3> QED BY <3>2, <3>3, <3>4
    <2>3. CASE LegacyDoes(c) \/ BeginDoes(c)
      BY <1>0, Basics, <2>3 DEF LegacyDoes, Ended, Return, NoOp, Op, Holds, Drops, Frees, Kept,
         Dropped, BeginDoes, ClientTypes, CallTypes, LocksOK, PlacesOK, SpeakersOK, LegacyOK,
         Speaking, Owning, LegacyStart, LegacyEnd, PlainNames, TxNames
    <2> QED BY <1>5, <2>1, <2>2, <2>3 DEF SessionDoes
  <1>6. ASSUME NEW c \in Callers, PlainDoes(c) PROVE LegacyOK'
    BY <1>0, Basics, <1>6 DEF PlainDoes, CommandDoes, CommandAcks, Ended, Return, NoOp, Op, Holds,
       Kept, PipelineDoes, ClientTypes, CallTypes, LocksOK, PlacesOK, SpeakersOK, LegacyOK,
       Speaking, Owning, LegacyStart, LegacyEnd, PlainNames, TxNames, client, transactions
  <1>7. ASSUME NEW c \in Callers, TxDoes(c) PROVE LegacyOK'
    BY <1>0, Basics, <1>7 DEF TxDoes, TransactionCommandDoes, Ended, Return, NoOp, Op, Holds,
       Drops, Frees, Kept, Dropped, TransactionDoes, ClientTypes, CallTypes, LocksOK, PlacesOK,
       SpeakersOK, LegacyOK, Speaking, Owning, LegacyStart, LegacyEnd, PlainNames, TxNames
  <1>8. ASSUME NEW r \in Replies, ServeDoes(r) PROVE LegacyOK'
    <2> DEFINE m == wire[1]
    <2>1. Len(wire) \in Nat /\ Len(wire') = Len(wire) - 1 /\ Len(wire) > 0
      BY <1>0, <1>8 DEF WireTypes, ServeDoes
    <2>2. 1 \in 1..Len(wire) /\ \A i \in 1..Len(wire') : wire'[i] = wire[i + 1] /\ i + 1 \in 1..Len(wire)
      BY <2>1, <1>8 DEF ServeDoes
    <2>3. UNCHANGED <<pc, op, sess, gateW, legacy, legacyMulti, gate, txState, cur, sconn, acked>>
      BY <1>8 DEF ServeDoes, client, executor, transactions
    <2>4. m \in Messages
      BY <1>0, <2>1, <2>2 DEF WireTypes
    <2>5. ServeMeans(m, r)
      BY <1>8, Serving DEF TxInv
    <2>6. m.name \notin CommandKinds => m.sess = gate /\ gate # 0 /\ Len(wire) = 1 /\ Quiet
      BY <2>2, SpecialMessage DEF TxInv
    <2> HIDE DEF m
    <2>7. CASE legacy # 0 /\ gateW = "none" /\ cur # 0
      <3>1. ~ Quiet
        <4>1. \A x \in Txs : ~ Active(x)
          BY <1>0, <2>7 DEF TransactionsOK
        <4>2. \A c \in Callers : op[c].name \in {"texec", "tdiscard"} => op[c].tx \in Txs
          BY <1>0 DEF PlacesOK, TxNames
        <4> QED BY Basics, <2>7, <4>1, <4>2 DEF Quiet, Active
      <3>2. m.name \in CommandKinds
        BY <2>6, <3>1
      <3>3. (server'.watch <=> server.watch) /\ (server'.multi <=> server.multi)
        BY <2>5, <3>2 DEF ServeMeans
      <3>4. legacyMulti \in BOOLEAN /\ server.multi \in BOOLEAN /\ server'.multi \in BOOLEAN
        BY <1>0, <1>8 DEF ClientTypes, ServerTypes, ServeDoes
      <3> QED BY <1>0, <2>3, <2>7, <3>3, <3>4 DEF LegacyOK
    <2>8. CASE ~ (legacy # 0 /\ gateW = "none" /\ cur # 0)
      BY <2>3, <2>8 DEF LegacyOK
    <2> QED BY <2>7, <2>8
  <1>9. CASE Breaks
    BY <1>0, Basics, <1>9 DEF Breaks, ContextEnds, ContextAbortsDoes, Drops, Dropped, LoseDoes,
       vars, ClientTypes, CallTypes, LocksOK, PlacesOK, SpeakersOK, LegacyOK, Speaking, Owning,
       LegacyStart, LegacyEnd, PlainNames, TxNames, client, transactions, executor, calls, remote
  <1>s. StepDoes
    BY Steps DEF TxInv
  <1> QED BY <1>s, <1>1, <1>2, <1>3, <1>4, <1>5, <1>6, <1>7, <1>8, <1>9 DEF StepDoes

\* A session that is not there yet was not there before.
LEMMA NotYetBefore ==
    ASSUME TxInv, [Next]_vars, NEW s \in Sessions
    PROVE  NotYet(s)' => NotYet(s)
  <1>0. /\ ClientTypes /\ ExecutorTypes /\ CallTypes /\ WireTypes /\ PlacesOK
        /\ SessionsOK /\ SpeakersOK /\ ReadyOK
    BY DEF TxInv, TypeOK
  <1>1. ASSUME NEW c \in Callers, Enters(c) PROVE NotYet(s)' => NotYet(s)
    <2>1. CASE Watch(c)
      BY <1>0, Basics, <2>1 DEF Watch, Writer, Enter, Op, ExecutorTypes, CallTypes, NotYet,
         Speaking, SpeakersOK, Sessions, PlainNames, TxNames, transactions, executor, remote
    <2>2. CASE Multi(c)
      BY <1>0, Basics, <2>2 DEF Multi, Writer, Enter, Op, ExecutorTypes, CallTypes, NotYet,
         Speaking, SpeakersOK, Sessions, PlainNames, TxNames, transactions, executor, remote
    <2>3. CASE TakeLegacy(c)
      BY <1>0, Basics, <2>3 DEF TakeLegacy, Writer, Enter, SetLegacy, Op, ExecutorTypes,
         CallTypes, NotYet, Speaking, SpeakersOK, Sessions, LegacyEnd, PlainNames, TxNames,
         transactions, executor, remote
    <2>4. CASE \E x \in Txs : BeginTransaction(c, x)
      BY <1>0, Basics, <2>4 DEF BeginTransaction, Writer, Enter, SetLegacy, ExecutorTypes,
         CallTypes, NotYet, Speaking, SpeakersOK, Sessions, PlainNames, TxNames, transactions,
         executor, remote
    <2>5. CASE \E o \in Plain : UseClient(c, o)
      BY <1>0, Basics, <2>5 DEF UseClient, Enter, Plain, ExecutorTypes, CallTypes, NotYet,
         Speaking, SpeakersOK, Sessions, PlainNames, TxNames, transactions, executor, remote
    <2>6. CASE \E o \in TxOps : UseTransaction(c, o)
      BY <1>0, Basics, <2>6 DEF UseTransaction, Enter, TxOps, ExecutorTypes, CallTypes, NotYet,
         Speaking, SpeakersOK, Sessions, PlainNames, TxNames, client, executor, remote
    <2> QED BY <1>1, <2>1, <2>2, <2>3, <2>4, <2>5, <2>6 DEF Enters
  <1>2. ASSUME NEW c \in Callers, Acquires(c) PROVE NotYet(s)' => NotYet(s)
    BY <1>0, Basics, <1>2 DEF Acquires, Acquire, Connect, SetLegacy, AcquireFails, Return, NoOp,
       Op, AcquirePlain, PlacesOK, CannotSend, ExecutorTypes, CallTypes, NotYet, Speaking,
       SpeakersOK, Sessions, PlainNames, TxNames, client, transactions, executor, remote
  <1>3. ASSUME NEW c \in Callers, Talks(c) PROVE NotYet(s)' => NotYet(s)
    <2>1. CASE SendDoes(c)
      <3>1. Len(wire) \in Nat /\ Len(wire') = Len(wire) + 1 /\ UNCHANGED <<op, sess, legacy, legacyMulti, gate, sconn>>
        BY <1>0, <2>1 DEF WireTypes, SendDoes, executor, client
      <3>2. \A i \in 1..Len(wire') : (i \in 1..Len(wire) /\ wire'[i] = wire[i]) \/ i = Len(wire) + 1
        BY <3>1, <2>1 DEF SendDoes
      <3>3. wire'[Len(wire) + 1].name = Text(op[c])
        BY <2>1 DEF SendDoes
      <3>4. \A d \in Callers : pc'[d] \in Speaking => pc[d] \in Speaking
        BY <1>0, <2>1 DEF SendDoes, CallTypes, Speaking
      <3>5. Text(op[c]) = "multi" => gate = 0 \/ NotYet(gate)
        <4>1. CASE Text(op[c]) = "multi"
          <5>1. op[c].name \in {"multi", "begin"}
            BY <1>0, <4>1 DEF Text, PlacesOK, CommandKinds, PlainNames
          <5>2. CASE op[c].name = "multi"
            BY <1>0, <2>1, <5>2 DEF SendDoes, ReadyOK, SpeakersOK, NotYet, Speaking
          <5>3. CASE op[c].name = "begin"
            BY <1>0, <2>1, <5>3 DEF SendDoes, NotYet, Speaking
          <5> QED BY <5>1, <5>2, <5>3
        <4> QED BY <4>1
      <3> QED BY <1>0, Basics, <3>1, <3>2, <3>3, <3>4, <3>5 DEF NotYet, Sessions
    <2>2. CASE GiveUpDoes(c)
      <3>1. Len(wire') = Len(wire) /\ \A i \in 1..Len(wire) : wire'[i].name = wire[i].name
        BY <2>2 DEF GiveUpDoes
      <3>2. UNCHANGED <<pc, op, sess, legacy, legacyMulti, gate, sconn>>
        BY <2>2 DEF GiveUpDoes, client, executor
      <3> QED BY <3>1, <3>2 DEF NotYet
    <2> QED BY <1>3, <2>1, <2>2 DEF Talks
  <1>4. ASSUME NEW c \in Callers, Closes(c) PROVE NotYet(s)' => NotYet(s)
    BY <1>0, Basics, <1>4 DEF Closes, CloseDoes, Enter, Op, Holds, Drops, Kept, Dropped,
       CloseExecutorDoes, NoOp, ExecutorTypes, CallTypes, NotYet, Speaking, SpeakersOK, Sessions,
       PlainNames, TxNames, client, transactions
  <1>5. ASSUME NEW c \in Callers, SessionDoes(c) PROVE NotYet(s)' => NotYet(s)
    BY <1>0, Basics, <1>5 DEF SessionDoes, WatchDoes, Ended, Return, NoOp, Op, Holds, Drops,
       Frees, Kept, Dropped, MultiDoes, LegacyDoes, BeginDoes, ExecutorTypes, CallTypes, NotYet,
       Speaking, SpeakersOK, Sessions, LegacyEnd, PlainNames, TxNames
  <1>6. ASSUME NEW c \in Callers, PlainDoes(c) PROVE NotYet(s)' => NotYet(s)
    <2>1. CASE CommandDoes(c)
      BY <1>0, Basics, <2>1 DEF CommandDoes, CommandAcks, Ended, Return, NoOp, Op, Holds, Kept,
         ExecutorTypes, CallTypes, NotYet, Speaking, SpeakersOK, Sessions, PlainNames, TxNames
    <2>2. CASE PipelineDoes(c)
      BY <1>0, Basics, <2>2 DEF PipelineDoes, CommandAcks, Holds, Kept, ExecutorTypes, CallTypes,
         NotYet, Speaking, SpeakersOK, Sessions, PlainNames, TxNames, client, transactions
    <2> QED BY <1>6, <2>1, <2>2 DEF PlainDoes
  <1>7. ASSUME NEW c \in Callers, TxDoes(c) PROVE NotYet(s)' => NotYet(s)
    BY <1>0, Basics, <1>7 DEF TxDoes, TransactionCommandDoes, Ended, Return, NoOp, Op, Holds,
       Drops, Frees, Kept, Dropped, TransactionDoes, ExecutorTypes, CallTypes, NotYet, Speaking,
       SpeakersOK, Sessions, PlainNames, TxNames
  <1>8. ASSUME NEW r \in Replies, ServeDoes(r) PROVE NotYet(s)' => NotYet(s)
    <2>1. Len(wire) \in Nat /\ Len(wire') = Len(wire) - 1
      BY <1>0, <1>8 DEF WireTypes, ServeDoes
    <2>2. \A i \in 1..Len(wire') : wire'[i] = wire[i + 1] /\ i + 1 \in 1..Len(wire)
      BY <2>1, <1>8 DEF ServeDoes
    <2>3. UNCHANGED <<pc, op, sess, legacy, legacyMulti, gate, sconn>>
      BY <1>8 DEF ServeDoes, client, executor
    <2> QED BY <2>2, <2>3 DEF NotYet
  <1>9. CASE Breaks
    BY <1>0, Basics, <1>9 DEF Breaks, ContextEnds, ContextAbortsDoes, Drops, Dropped, LoseDoes,
       vars, ExecutorTypes, CallTypes, NotYet, Speaking, SpeakersOK, Sessions, PlainNames,
       TxNames, client, transactions, executor, calls, remote
  <1>s. StepDoes
    BY Steps DEF TxInv
  <1> QED BY <1>s, <1>1, <1>2, <1>3, <1>4, <1>5, <1>6, <1>7, <1>8, <1>9 DEF StepDoes

\* Nothing gets queued in it.
LEMMA NothingQueuedKept ==
    ASSUME TxInv, [Next]_vars, NEW s \in Sessions, NotYet(s), NothingQueued(s)
    PROVE  NothingQueued(s)'
  <1>0. /\ CallTypes /\ ReplyTypes /\ WireTypes /\ AckTypes /\ AwaitedOK /\ ServerOK
        /\ RepliesOK /\ NothingQueued(s)
    BY DEF TxInv, TypeOK
  <1>1. ASSUME NEW c \in Callers, Enters(c) PROVE NothingQueued(s)'
    <2>1. ASSUME NEW x \in Txs, BeginTransaction(c, x) PROVE NothingQueued(s)'
      <3>1. reply' = reply /\ acked' = acked /\ pc[c] = "idle" /\ \A d \in Callers : d # c => sess'[d] = sess[d]
        BY <1>0, <2>1 DEF BeginTransaction, Writer, Enter, SetLegacy, CallTypes
      <3>2. reply[c].kind = "none"
        BY <1>0, Basics, <3>1 DEF RepliesOK
      <3> QED BY <1>0, <3>1, <3>2 DEF NothingQueued
    <2>2. ASSUME NEW o \in TxOps, UseTransaction(c, o) PROVE NothingQueued(s)'
      <3>1. reply' = reply /\ acked' = acked /\ pc[c] = "idle" /\ \A d \in Callers : d # c => sess'[d] = sess[d]
        BY <1>0, <2>2 DEF UseTransaction, Enter, TxOps, CallTypes
      <3>2. reply[c].kind = "none"
        BY <1>0, Basics, <3>1 DEF RepliesOK
      <3> QED BY <1>0, <3>1, <3>2 DEF NothingQueued
    <2>3. CASE Watch(c) \/ Multi(c) \/ TakeLegacy(c) \/ (\E o \in Plain : UseClient(c, o))
      BY <1>0, Basics, <2>3 DEF Watch, Writer, Enter, Op, Multi, TakeLegacy, SetLegacy, UseClient,
         Plain, CallTypes, ReplyTypes, AckTypes, RepliesOK, NothingQueued, Sessions, transactions,
         executor, remote
    <2> QED BY <1>1, <2>1, <2>2, <2>3 DEF Enters
  <1>2. ASSUME NEW c \in Callers, Acquires(c) PROVE NothingQueued(s)'
    BY <1>0, Basics, <1>2 DEF Acquires, Acquire, Connect, SetLegacy, AcquireFails, Return, NoOp,
       Op, AcquirePlain, CannotSend, CallTypes, ReplyTypes, AckTypes, RepliesOK, NothingQueued,
       Sessions, client, transactions, executor, remote
  <1>3. ASSUME NEW c \in Callers, Talks(c) PROVE NothingQueued(s)'
    BY <1>0, Basics, <1>3 DEF Talks, SendDoes, GiveUpDoes, CallTypes, ReplyTypes, AckTypes,
       RepliesOK, NothingQueued, Sessions, client, transactions, executor
  <1>4. ASSUME NEW c \in Callers, Closes(c) PROVE NothingQueued(s)'
    BY <1>0, Basics, <1>4 DEF Closes, CloseDoes, Enter, Op, Holds, Drops, Kept, Dropped,
       CloseExecutorDoes, NoOp, CallTypes, ReplyTypes, AckTypes, RepliesOK, NothingQueued,
       Sessions, client, transactions
  <1>5. ASSUME NEW c \in Callers, SessionDoes(c) PROVE NothingQueued(s)'
    <2>1. CASE WatchDoes(c)
      BY <1>0, Basics, <2>1 DEF WatchDoes, Ended, Return, NoOp, Op, Holds, Drops, Kept, Dropped,
         CallTypes, ReplyTypes, AckTypes, RepliesOK, NothingQueued, Sessions
    <2>2. CASE MultiDoes(c)
      BY <1>0, Basics, <2>2 DEF MultiDoes, Ended, Return, NoOp, Op, Holds, Drops, Kept, Dropped,
         CallTypes, ReplyTypes, AckTypes, RepliesOK, NothingQueued, Sessions
    <2>3. CASE LegacyDoes(c)
      BY <1>0, Basics, <2>3 DEF LegacyDoes, Ended, Return, NoOp, Op, Drops, Frees, Kept, Dropped,
         CallTypes, ReplyTypes, AckTypes, RepliesOK, NothingQueued, Sessions
    <2>4. CASE BeginDoes(c)
      <3>1. acked' = acked /\ \A d \in Callers : d # c => sess'[d] = sess[d]
        BY <1>0, <2>4 DEF BeginDoes, Return, CallTypes
      <3>2. \A d \in Callers : reply'[d] \in {NoReply, Failed, reply[d]} /\ reply'[c] = NoReply
        BY <2>4 DEF BeginDoes, Holds, Kept, Drops, Dropped
      <3> QED BY <1>0, Basics, <3>1, <3>2 DEF NothingQueued
    <2> QED BY <1>5, <2>1, <2>2, <2>3, <2>4 DEF SessionDoes
  <1>6. ASSUME NEW c \in Callers, PlainDoes(c) PROVE NothingQueued(s)'
    <2>1. CASE CommandDoes(c)
      BY <1>0, Basics, <2>1 DEF CommandDoes, CommandAcks, Ended, Return, NoOp, Op, Holds, Kept,
         CallTypes, ReplyTypes, AckTypes, RepliesOK, NothingQueued, Sessions
    <2>2. CASE PipelineDoes(c)
      BY <1>0, Basics, <2>2 DEF PipelineDoes, CommandAcks, Holds, Kept, CallTypes, ReplyTypes,
         AckTypes, RepliesOK, NothingQueued, Sessions, client, transactions
    <2> QED BY <1>6, <2>1, <2>2 DEF PlainDoes
  <1>7. ASSUME NEW c \in Callers, TxDoes(c) PROVE NothingQueued(s)'
    <2>1. CASE TransactionCommandDoes(c)
      BY <1>0, Basics, <2>1 DEF TransactionCommandDoes, Ended, Return, NoOp, Op, Holds, Drops,
         Kept, Dropped, CallTypes, ReplyTypes, AckTypes, RepliesOK, NothingQueued, Sessions
    <2>2. CASE TransactionDoes(c)
      BY <1>0, Basics, <2>2 DEF TransactionDoes, Ended, Return, NoOp, Op, Holds, Drops, Frees,
         Kept, Dropped, CallTypes, ReplyTypes, AckTypes, RepliesOK, NothingQueued, Sessions
    <2> QED BY <1>7, <2>1, <2>2 DEF TxDoes
  <1>8. ASSUME NEW r \in Replies, ServeDoes(r) PROVE NothingQueued(s)'
    <2> DEFINE m == wire[1]
    <2>1. Len(wire) \in Nat /\ Len(wire') = Len(wire) - 1 /\ Len(wire) > 0
      BY <1>0, <1>8 DEF WireTypes, ServeDoes
    <2>2. 1 \in 1..Len(wire) /\ \A i \in 1..Len(wire') : wire'[i] = wire[i + 1] /\ i + 1 \in 1..Len(wire)
      BY <2>1, <1>8 DEF ServeDoes
    <2>3. UNCHANGED <<pc, op, sess, gateW, legacy, legacyMulti, gate, txState, cur, sconn, acked>>
      BY <1>8 DEF ServeDoes, client, executor, transactions
    <2>4. m \in Messages
      BY <1>0, <2>1, <2>2 DEF WireTypes
    <2>5. ServeMeans(m, r)
      BY <1>8, Serving DEF TxInv
    <2>6. m.name \notin CommandKinds => m.sess = gate /\ gate # 0 /\ Len(wire) = 1 /\ Quiet
      BY <2>2, SpecialMessage DEF TxInv
    <2> HIDE DEF m
    <2>7. CASE m.by = "none"
      BY <1>0, <1>8, <2>3, <2>7 DEF ServeDoes, Deliver, NothingQueued, m
    <2>8. CASE m.by # "none"
      <3>1. m.by \in Callers
        BY <2>4, <2>8 DEF Messages
      <3>2. m.sess = sess[m.by]
        BY <1>0, <2>2, <2>8 DEF AwaitedOK, m
      <3>3. reply' = [reply EXCEPT ![m.by] = r]
        BY <1>8, <2>8 DEF ServeDoes, Deliver, m
      <3>4. sess[m.by] = s => r.kind # "queued"
        <4>1. server.multi => m.sess = gate
          BY <1>0, <2>2 DEF ServerOK, m
        <4> QED BY <2>1, <2>5, <2>8, <3>2, <4>1, NotYetQueueing DEF ServeMeans, m
      <3> QED BY <1>0, <2>3, <3>1, <3>3, <3>4 DEF NothingQueued, ReplyTypes
    <2> QED BY <2>7, <2>8
  <1>9. CASE Breaks
    BY <1>0, Basics, <1>9 DEF Breaks, ContextEnds, ContextAbortsDoes, Drops, Dropped, LoseDoes,
       vars, CallTypes, ReplyTypes, AckTypes, RepliesOK, NothingQueued, Sessions, client,
       transactions, executor, calls, remote
  <1>s. StepDoes
    BY Steps DEF TxInv
  <1> QED BY <1>s, <1>1, <1>2, <1>3, <1>4, <1>5, <1>6, <1>7, <1>8, <1>9 DEF StepDoes

\* Every QUEUED is in the queue of the server.
LEMMA QueueKept ==
    ASSUME TxInv, [Next]_vars
    PROVE  QueueOK'
  <1>0. /\ ExecutorTypes /\ CallTypes /\ ReplyTypes /\ WireTypes /\ ServerTypes
        /\ AckTypes /\ SpeakersOK /\ ServerOK /\ RepliesOK /\ TurnsOK /\ NotYetOK
        /\ QueueOK
    BY DEF TxInv, TypeOK
  <1>w. ASSUME NEW c \in Callers, NEW d \in Callers, c # d, sess[c] = sess[d],
               reply[c].kind = "queued", reply[d].kind \in {"queued", "array"}
        PROVE  FALSE
    <2>1. pc[c] = "wait" /\ pc[d] = "wait" /\ sess[c] # 0
      BY <1>0, Basics, <1>w DEF RepliesOK
    <2> QED BY <1>0, Basics, <1>w, <2>1 DEF TurnsOK
  <1>1. ASSUME NEW c \in Callers, Enters(c) PROVE QueueOK'
    BY <1>0, Basics, <1>w, <1>1 DEF Enters, Watch, Writer, Enter, Op, Multi, TakeLegacy,
       SetLegacy, BeginTransaction, UseClient, Plain, UseTransaction, TxOps, CallTypes,
       ReplyTypes, RepliesOK, ServerOK, QueueOK, client, transactions, executor, remote
  <1>2. ASSUME NEW c \in Callers, Acquires(c) PROVE QueueOK'
    BY <1>0, Basics, <1>w, <1>2 DEF Acquires, Acquire, Connect, SetLegacy, AcquireFails, Return,
       NoOp, Op, AcquirePlain, CannotSend, CallTypes, ReplyTypes, RepliesOK, ServerOK, QueueOK,
       client, transactions, executor, remote
  <1>3. ASSUME NEW c \in Callers, Talks(c) PROVE QueueOK'
    <2>1. CASE SendDoes(c)
      BY <1>0, Basics, <1>w, <2>1 DEF SendDoes, CallTypes, ReplyTypes, RepliesOK, ServerOK,
         QueueOK, client, transactions, executor
    <2>2. CASE GiveUpDoes(c)
      BY <1>0, Basics, <1>w, <2>2 DEF GiveUpDoes, CallTypes, ReplyTypes, RepliesOK, ServerOK,
         QueueOK, client, transactions, executor
    <2> QED BY <1>3, <2>1, <2>2 DEF Talks
  <1>4. ASSUME NEW c \in Callers, Closes(c) PROVE QueueOK'
    <2>1. CASE CloseDoes(c)
      BY <1>0, Basics, <1>w, <2>1 DEF CloseDoes, Enter, Op, Holds, Drops, Kept, Dropped,
         CallTypes, ReplyTypes, RepliesOK, ServerOK, QueueOK, transactions
    <2>2. CASE CloseExecutorDoes(c)
      BY <1>0, Basics, <1>w, <2>2 DEF CloseExecutorDoes, Op, NoOp, Dropped, CallTypes, ReplyTypes,
         RepliesOK, ServerOK, QueueOK, client, transactions
    <2> QED BY <1>4, <2>1, <2>2 DEF Closes
  <1>5. ASSUME NEW c \in Callers, SessionDoes(c) PROVE QueueOK'
    <2>1. CASE WatchDoes(c)
      BY <1>0, Basics, <1>w, <2>1 DEF WatchDoes, Ended, Return, NoOp, Op, Holds, Drops, Kept,
         Dropped, CallTypes, ReplyTypes, RepliesOK, ServerOK, QueueOK
    <2>2. CASE MultiDoes(c)
      BY <1>0, Basics, <1>w, <2>2 DEF MultiDoes, Ended, Return, NoOp, Op, Holds, Drops, Kept,
         Dropped, CallTypes, ReplyTypes, RepliesOK, ServerOK, QueueOK
    <2>3. CASE LegacyDoes(c)
      BY <1>0, Basics, <1>w, <2>3 DEF LegacyDoes, Ended, Return, NoOp, Op, Drops, Frees, Kept,
         Dropped, CallTypes, ReplyTypes, RepliesOK, ServerOK, QueueOK
    <2>4. CASE BeginDoes(c)
      BY <1>0, Basics, <1>w, <2>4 DEF BeginDoes, Return, NoOp, Op, Holds, Drops, Kept, Dropped,
         CallTypes, ReplyTypes, RepliesOK, ServerOK, QueueOK
    <2> QED BY <1>5, <2>1, <2>2, <2>3, <2>4 DEF SessionDoes
  <1>6. ASSUME NEW c \in Callers, PlainDoes(c) PROVE QueueOK'
    <2>1. CASE CommandDoes(c)
      <3>1. CASE Holds(c) /\ acked' # acked
        <4>1. /\ reply[c].kind = "queued" /\ sess[c] # 0 /\ acked' = [acked EXCEPT ![sess[c]] = @ + 1]
              /\ gate' = gate /\ server' = server
          BY <1>0, <2>1, <3>1 DEF CommandDoes, CommandAcks, Ended, Return, Holds, Kept, Drops,
             SpeakersOK, TxNames
        <4>2. \A d \in Callers : d # c => sess'[d] = sess[d] /\ reply'[d] = reply[d]
          BY <1>0, <2>1, <3>1 DEF CommandDoes, CommandAcks, Ended, Return, Holds, Kept, CallTypes,
             ReplyTypes
        <4>3. reply'[c] = NoReply
          BY <1>0, <3>1 DEF Holds, Kept, ReplyTypes
        <4>4. sess[c] \in Sessions
          BY <1>0, <4>1 DEF CallTypes, Sessions
        <4>5. CASE sess[c] = gate /\ server.multi
          <5>1. acked[gate] \in Nat /\ Len(server.queue) \in Nat
            BY <1>0, <4>4, <4>5 DEF AckTypes, ServerTypes
          <5>2. acked[gate] < Len(server.queue) /\ acked'[gate] = acked[gate] + 1
            BY <1>0, <4>1, <4>4, <4>5 DEF QueueOK, AckTypes
          <5>3. \A d \in Callers : ~ (sess'[d] = gate /\ reply'[d].kind = "queued")
            BY Basics, <1>w, <4>1, <4>2, <4>3, <4>5
          <5> QED BY <4>1, <5>1, <5>2, <5>3 DEF QueueOK
        <4>6. CASE sess[c] # gate /\ server.multi
          <5>1. gate \in Sessions
            BY <1>0, <4>6 DEF ServerOK, ExecutorTypes, Sessions
          <5>2. acked'[gate] = acked[gate]
            BY <1>0, <4>1, <4>4, <4>6, <5>1 DEF AckTypes
          <5> QED BY <1>0, Basics, <4>1, <4>2, <4>3, <4>6, <5>2 DEF QueueOK
        <4> QED BY <4>1, <4>5, <4>6 DEF QueueOK
      <3>2. CASE Holds(c) /\ acked' = acked
        BY <1>0, Basics, <2>1, <3>2 DEF CommandDoes, CommandAcks, Ended, Return, Holds, Kept,
           CallTypes, ReplyTypes, QueueOK, NoOp, Op, RepliesOK
      <3>3. CASE Drops(c) /\ acked' = acked
        BY <1>0, Basics, <2>1, <3>3 DEF CommandDoes, CommandAcks, Ended, Return, Holds, Kept, Drops,
           Dropped, CallTypes, ReplyTypes, QueueOK, NoOp, Op, RepliesOK
      <3> QED BY <2>1, <3>1, <3>2, <3>3 DEF CommandDoes, CommandAcks, Ended, Return, Holds, Kept
    <2>2. CASE PipelineDoes(c)
      <3>1. CASE Holds(c) /\ acked' # acked
        <4>1. /\ reply[c].kind = "queued" /\ sess[c] # 0 /\ acked' = [acked EXCEPT ![sess[c]] = @ + 1]
              /\ gate' = gate /\ server' = server
          BY <1>0, <2>2, <3>1 DEF PipelineDoes, CommandAcks, Holds, Kept, Drops, SpeakersOK, TxNames
        <4>2. \A d \in Callers : d # c => sess'[d] = sess[d] /\ reply'[d] = reply[d]
          BY <1>0, <2>2, <3>1 DEF PipelineDoes, CommandAcks, Holds, Kept, CallTypes, ReplyTypes
        <4>3. reply'[c] = NoReply
          BY <1>0, <3>1 DEF Holds, Kept, ReplyTypes
        <4>4. sess[c] \in Sessions
          BY <1>0, <4>1 DEF CallTypes, Sessions
        <4>5. CASE sess[c] = gate /\ server.multi
          <5>1. acked[gate] \in Nat /\ Len(server.queue) \in Nat
            BY <1>0, <4>4, <4>5 DEF AckTypes, ServerTypes
          <5>2. acked[gate] < Len(server.queue) /\ acked'[gate] = acked[gate] + 1
            BY <1>0, <4>1, <4>4, <4>5 DEF QueueOK, AckTypes
          <5>3. \A d \in Callers : ~ (sess'[d] = gate /\ reply'[d].kind = "queued")
            BY Basics, <1>w, <4>1, <4>2, <4>3, <4>5
          <5> QED BY <4>1, <5>1, <5>2, <5>3 DEF QueueOK
        <4>6. CASE sess[c] # gate /\ server.multi
          <5>1. gate \in Sessions
            BY <1>0, <4>6 DEF ServerOK, ExecutorTypes, Sessions
          <5>2. acked'[gate] = acked[gate]
            BY <1>0, <4>1, <4>4, <4>6, <5>1 DEF AckTypes
          <5> QED BY <1>0, Basics, <4>1, <4>2, <4>3, <4>6, <5>2 DEF QueueOK
        <4> QED BY <4>1, <4>5, <4>6 DEF QueueOK
      <3>2. CASE Holds(c) /\ acked' = acked
        BY <1>0, Basics, <2>2, <3>2 DEF PipelineDoes, CommandAcks, Holds, Kept, CallTypes,
           ReplyTypes, QueueOK, NoOp, Op, RepliesOK
      <3>3. CASE Drops(c) /\ acked' = acked
        BY <1>0, Basics, <2>2, <3>3 DEF PipelineDoes, CommandAcks, Holds, Kept, Drops, Dropped,
           CallTypes, ReplyTypes, QueueOK, NoOp, Op, RepliesOK
      <3> QED BY <2>2, <3>1, <3>2, <3>3 DEF PipelineDoes, CommandAcks, Holds, Kept
    <2> QED BY <1>6, <2>1, <2>2 DEF PlainDoes
  <1>7. ASSUME NEW c \in Callers, TxDoes(c) PROVE QueueOK'
    <2>1. CASE TransactionCommandDoes(c)
      <3>1. CASE Holds(c) /\ acked' # acked
        <4>1. /\ reply[c].kind = "queued" /\ sess[c] # 0 /\ acked' = [acked EXCEPT ![sess[c]] = @ + 1]
              /\ gate' = gate /\ server' = server
          BY <1>0, <2>1, <3>1 DEF TransactionCommandDoes, Ended, Return, Holds, Kept, Drops,
             SpeakersOK, TxNames
        <4>2. \A d \in Callers : d # c => sess'[d] = sess[d] /\ reply'[d] = reply[d]
          BY <1>0, <2>1, <3>1 DEF TransactionCommandDoes, Ended, Return, Holds, Kept, CallTypes,
             ReplyTypes
        <4>3. reply'[c] = NoReply
          BY <1>0, <3>1 DEF Holds, Kept, ReplyTypes
        <4>4. sess[c] \in Sessions
          BY <1>0, <4>1 DEF CallTypes, Sessions
        <4>5. CASE sess[c] = gate /\ server.multi
          <5>1. acked[gate] \in Nat /\ Len(server.queue) \in Nat
            BY <1>0, <4>4, <4>5 DEF AckTypes, ServerTypes
          <5>2. acked[gate] < Len(server.queue) /\ acked'[gate] = acked[gate] + 1
            BY <1>0, <4>1, <4>4, <4>5 DEF QueueOK, AckTypes
          <5>3. \A d \in Callers : ~ (sess'[d] = gate /\ reply'[d].kind = "queued")
            BY Basics, <1>w, <4>1, <4>2, <4>3, <4>5
          <5> QED BY <4>1, <5>1, <5>2, <5>3 DEF QueueOK
        <4>6. CASE sess[c] # gate /\ server.multi
          <5>1. gate \in Sessions
            BY <1>0, <4>6 DEF ServerOK, ExecutorTypes, Sessions
          <5>2. acked'[gate] = acked[gate]
            BY <1>0, <4>1, <4>4, <4>6, <5>1 DEF AckTypes
          <5> QED BY <1>0, Basics, <4>1, <4>2, <4>3, <4>6, <5>2 DEF QueueOK
        <4> QED BY <4>1, <4>5, <4>6 DEF QueueOK
      <3>2. CASE Holds(c) /\ acked' = acked
        BY <1>0, Basics, <2>1, <3>2 DEF TransactionCommandDoes, Ended, Return, Holds, Kept,
           CallTypes, ReplyTypes, QueueOK, NoOp, Op, RepliesOK
      <3>3. CASE Drops(c) /\ acked' = acked
        BY <1>0, Basics, <2>1, <3>3 DEF TransactionCommandDoes, Ended, Return, Holds, Kept, Drops,
           Dropped, CallTypes, ReplyTypes, QueueOK, NoOp, Op, RepliesOK
      <3> QED BY <2>1, <3>1, <3>2, <3>3 DEF TransactionCommandDoes, Ended, Return, Holds, Kept
    <2>2. CASE TransactionDoes(c)
      BY <1>0, Basics, <1>w, <2>2 DEF TransactionDoes, Ended, Return, NoOp, Op, Holds, Drops,
         Frees, Kept, Dropped, CallTypes, ReplyTypes, RepliesOK, ServerOK, QueueOK
    <2> QED BY <1>7, <2>1, <2>2 DEF TxDoes
  <1>8. ASSUME NEW r \in Replies, ServeDoes(r) PROVE QueueOK'
    <2> DEFINE m == wire[1]
    <2>1. Len(wire) \in Nat /\ Len(wire') = Len(wire) - 1 /\ Len(wire) > 0
      BY <1>0, <1>8 DEF WireTypes, ServeDoes
    <2>2. 1 \in 1..Len(wire) /\ \A i \in 1..Len(wire') : wire'[i] = wire[i + 1] /\ i + 1 \in 1..Len(wire)
      BY <2>1, <1>8 DEF ServeDoes
    <2>3. UNCHANGED <<pc, op, sess, gateW, legacy, legacyMulti, gate, txState, cur, sconn, acked>>
      BY <1>8 DEF ServeDoes, client, executor, transactions
    <2>4. m \in Messages
      BY <1>0, <2>1, <2>2 DEF WireTypes
    <2>5. ServeMeans(m, r)
      BY <1>8, Serving DEF TxInv
    <2>6. m.name \notin CommandKinds => m.sess = gate /\ gate # 0 /\ Len(wire) = 1 /\ Quiet
      BY <2>2, SpecialMessage DEF TxInv
    <2> HIDE DEF m
    <2>7. r.kind # "queued" => \A d \in Callers : reply'[d].kind = "queued" => reply[d].kind = "queued"
      BY <1>0, <1>8 DEF ServeDoes, Deliver, ReplyTypes
    <2>8. CASE server'.multi /\ server.multi
      <3>1. server.queue \in Seq(0..MaxSessions) /\ m.sess \in 0..MaxSessions /\ Len(server.queue) \in Nat
        BY <1>0, <2>4 DEF ServerTypes, Messages
      <3>2. gate \in Sessions /\ acked[gate] \in Nat
        BY <1>0, <2>8 DEF ServerOK, ExecutorTypes, Sessions, AckTypes
      <3>3. CASE server'.queue = server.queue /\ r.kind # "queued"
        BY <1>0, <2>3, <2>7, <2>8, <3>3 DEF QueueOK
      <3>4. CASE Taken(m)
        <4>1. Len(server'.queue) = Len(server.queue) + 1
          BY <3>1, <3>4, AppendProperties DEF Taken
        <4>2. acked[gate] < Len(server'.queue)
          BY <1>0, <2>8, <3>1, <3>2, <4>1 DEF QueueOK
        <4>3. acked[gate] <= Len(server'.queue)
          BY <3>1, <3>2, <4>1, <4>2
        <4> QED BY <2>3, <4>2, <4>3 DEF QueueOK
      <3> QED BY <2>5, <2>8, <3>3, <3>4 DEF ServeMeans
    <2>9. CASE server'.multi /\ ~ server.multi
      <3>1. m.name = "multi" /\ server'.queue = <<>> /\ r.kind # "queued"
        BY <2>5, <2>9 DEF ServeMeans
      <3>2. gate \in Sessions
        BY <1>0, <2>6, <3>1 DEF ExecutorTypes, Sessions, CommandKinds
      <3>3. NothingQueued(gate)
        BY <1>0, <2>2, <3>1, <3>2 DEF NotYetOK, NotYet, m
      <3>4. Len(server'.queue) = 0
        BY <3>1
      <3>5. \A d \in Callers : ~ (sess'[d] = gate /\ reply'[d].kind = "queued")
        BY <2>3, <2>7, <3>1, <3>3 DEF NothingQueued
      <3> QED BY <2>3, <3>3, <3>4, <3>5 DEF QueueOK, NothingQueued
    <2> QED BY <2>8, <2>9 DEF QueueOK
  <1>9. CASE Breaks
    BY <1>0, Basics, <1>w, <1>9 DEF Breaks, ContextEnds, ContextAbortsDoes, Drops, Dropped,
       LoseDoes, vars, CallTypes, ReplyTypes, RepliesOK, ServerOK, QueueOK, client, transactions,
       executor, calls, remote
  <1>s. StepDoes
    BY Steps DEF TxInv
  <1> QED BY <1>s, <1>1, <1>2, <1>3, <1>4, <1>5, <1>6, <1>7, <1>8, <1>9 DEF StepDoes

\* EXEC answers with everything that was acknowledged as QUEUED.
LEMMA ExecutedKept ==
    ASSUME TxInv, [Next]_vars
    PROVE  ExecutedOK'
  <1>0. /\ CallTypes /\ ReplyTypes /\ WireTypes /\ ServerTypes /\ AckTypes /\ SpeakersOK
        /\ AwaitedOK /\ RepliesOK /\ TurnsOK /\ QueueOK /\ ExecutedOK
    BY DEF TxInv, TypeOK
  <1>w. ASSUME NEW c \in Callers, NEW d \in Callers, c # d, sess[c] = sess[d],
               reply[c].kind = "queued", reply[d].kind \in {"queued", "array"}
        PROVE  FALSE
    <2>1. pc[c] = "wait" /\ pc[d] = "wait" /\ sess[c] # 0
      BY <1>0, Basics, <1>w DEF RepliesOK
    <2> QED BY <1>0, Basics, <1>w, <2>1 DEF TurnsOK
  <1>1. ASSUME NEW c \in Callers, Enters(c) PROVE ExecutedOK'
    <2>1. ASSUME NEW x \in Txs, BeginTransaction(c, x) PROVE ExecutedOK'
      <3>1. reply' = reply /\ acked' = acked /\ pc[c] = "idle" /\ \A d \in Callers : d # c => sess'[d] = sess[d]
        BY <1>0, <2>1 DEF BeginTransaction, Writer, Enter, SetLegacy, CallTypes
      <3>2. reply[c].kind = "none"
        BY <1>0, Basics, <3>1 DEF RepliesOK
      <3> QED BY <1>0, <3>1, <3>2 DEF ExecutedOK
    <2>2. ASSUME NEW o \in TxOps, UseTransaction(c, o) PROVE ExecutedOK'
      <3>1. reply' = reply /\ acked' = acked /\ pc[c] = "idle" /\ \A d \in Callers : d # c => sess'[d] = sess[d]
        BY <1>0, <2>2 DEF UseTransaction, Enter, TxOps, CallTypes
      <3>2. reply[c].kind = "none"
        BY <1>0, Basics, <3>1 DEF RepliesOK
      <3> QED BY <1>0, <3>1, <3>2 DEF ExecutedOK
    <2>3. CASE Watch(c) \/ Multi(c) \/ TakeLegacy(c) \/ (\E o \in Plain : UseClient(c, o))
      BY <1>0, Basics, <1>w, <2>3 DEF Watch, Writer, Enter, Op, Multi, TakeLegacy, SetLegacy,
         UseClient, Plain, CallTypes, ReplyTypes, RepliesOK, ExecutedOK, transactions, executor,
         remote
    <2> QED BY <1>1, <2>1, <2>2, <2>3 DEF Enters
  <1>2. ASSUME NEW c \in Callers, Acquires(c) PROVE ExecutedOK'
    BY <1>0, Basics, <1>w, <1>2 DEF Acquires, Acquire, Connect, SetLegacy, AcquireFails, Return,
       NoOp, Op, AcquirePlain, CannotSend, CallTypes, ReplyTypes, RepliesOK, ExecutedOK, client,
       transactions, executor, remote
  <1>3. ASSUME NEW c \in Callers, Talks(c) PROVE ExecutedOK'
    BY <1>0, Basics, <1>w, <1>3 DEF Talks, SendDoes, GiveUpDoes, CallTypes, ReplyTypes, RepliesOK,
       ExecutedOK, client, transactions, executor
  <1>4. ASSUME NEW c \in Callers, Closes(c) PROVE ExecutedOK'
    BY <1>0, Basics, <1>w, <1>4 DEF Closes, CloseDoes, Enter, Op, Holds, Drops, Kept, Dropped,
       CloseExecutorDoes, NoOp, CallTypes, ReplyTypes, RepliesOK, ExecutedOK, client, transactions
  <1>5. ASSUME NEW c \in Callers, SessionDoes(c) PROVE ExecutedOK'
    <2>1. CASE WatchDoes(c)
      BY <1>0, Basics, <1>w, <2>1 DEF WatchDoes, Ended, Return, NoOp, Op, Holds, Drops, Kept,
         Dropped, CallTypes, ReplyTypes, RepliesOK, ExecutedOK
    <2>2. CASE MultiDoes(c)
      BY <1>0, Basics, <1>w, <2>2 DEF MultiDoes, Ended, Return, NoOp, Op, Holds, Drops, Kept,
         Dropped, CallTypes, ReplyTypes, RepliesOK, ExecutedOK
    <2>3. CASE LegacyDoes(c)
      BY <1>0, Basics, <1>w, <2>3 DEF LegacyDoes, Ended, Return, NoOp, Op, Drops, Frees, Kept,
         Dropped, CallTypes, ReplyTypes, RepliesOK, ExecutedOK
    <2>4. CASE BeginDoes(c)
      BY <1>0, Basics, <1>w, <2>4 DEF BeginDoes, Return, NoOp, Op, Holds, Drops, Kept, Dropped,
         CallTypes, ReplyTypes, RepliesOK, ExecutedOK
    <2> QED BY <1>5, <2>1, <2>2, <2>3, <2>4 DEF SessionDoes
  <1>6. ASSUME NEW c \in Callers, PlainDoes(c) PROVE ExecutedOK'
    <2>1. CASE CommandDoes(c)
      <3>1. CASE Holds(c) /\ acked' # acked
        <4>1. /\ reply[c].kind = "queued" /\ sess[c] # 0 /\ acked' = [acked EXCEPT ![sess[c]] = @ + 1]
              /\ gate' = gate /\ server' = server
          BY <1>0, <2>1, <3>1 DEF CommandDoes, CommandAcks, Ended, Return, Holds, Kept, Drops,
             SpeakersOK, TxNames
        <4>2. \A d \in Callers : d # c => sess'[d] = sess[d] /\ reply'[d] = reply[d]
          BY <1>0, <2>1, <3>1 DEF CommandDoes, CommandAcks, Ended, Return, Holds, Kept, CallTypes,
             ReplyTypes
        <4>3. reply'[c] = NoReply
          BY <1>0, <3>1 DEF Holds, Kept, ReplyTypes
        <4>4. sess[c] \in Sessions
          BY <1>0, <4>1 DEF CallTypes, Sessions
        <4>5. ASSUME NEW d \in Callers, reply'[d].kind = "array" PROVE acked'[sess'[d]] <= Len(reply'[d].items)
          <5>1. d # c /\ sess'[d] = sess[d] /\ reply'[d] = reply[d]
            BY Basics, <4>2, <4>3, <4>5
          <5>2. sess[d] # sess[c]
            BY <1>w, <4>1, <4>5, <5>1
          <5>3. acked'[sess[d]] = acked[sess[d]]
            <6>1. sess[d] \in Sessions
              BY <1>0, <4>5, <5>1 DEF RepliesOK, CallTypes, Sessions
            <6> QED BY <1>0, <4>1, <4>4, <5>2, <6>1 DEF AckTypes
          <5> QED BY <1>0, <4>5, <5>1, <5>3 DEF ExecutedOK
        <4> QED BY <4>5 DEF ExecutedOK
      <3>2. CASE Holds(c) /\ acked' = acked
        BY <1>0, Basics, <2>1, <3>2 DEF CommandDoes, CommandAcks, Ended, Return, Holds, Kept,
           CallTypes, ReplyTypes, ExecutedOK, NoOp, Op, RepliesOK
      <3>3. CASE Drops(c) /\ acked' = acked
        BY <1>0, Basics, <2>1, <3>3 DEF CommandDoes, CommandAcks, Ended, Return, Holds, Kept, Drops,
           Dropped, CallTypes, ReplyTypes, ExecutedOK, NoOp, Op, RepliesOK
      <3> QED BY <2>1, <3>1, <3>2, <3>3 DEF CommandDoes, CommandAcks, Ended, Return, Holds, Kept
    <2>2. CASE PipelineDoes(c)
      <3>1. CASE Holds(c) /\ acked' # acked
        <4>1. /\ reply[c].kind = "queued" /\ sess[c] # 0 /\ acked' = [acked EXCEPT ![sess[c]] = @ + 1]
              /\ gate' = gate /\ server' = server
          BY <1>0, <2>2, <3>1 DEF PipelineDoes, CommandAcks, Holds, Kept, Drops, SpeakersOK, TxNames
        <4>2. \A d \in Callers : d # c => sess'[d] = sess[d] /\ reply'[d] = reply[d]
          BY <1>0, <2>2, <3>1 DEF PipelineDoes, CommandAcks, Holds, Kept, CallTypes, ReplyTypes
        <4>3. reply'[c] = NoReply
          BY <1>0, <3>1 DEF Holds, Kept, ReplyTypes
        <4>4. sess[c] \in Sessions
          BY <1>0, <4>1 DEF CallTypes, Sessions
        <4>5. ASSUME NEW d \in Callers, reply'[d].kind = "array" PROVE acked'[sess'[d]] <= Len(reply'[d].items)
          <5>1. d # c /\ sess'[d] = sess[d] /\ reply'[d] = reply[d]
            BY Basics, <4>2, <4>3, <4>5
          <5>2. sess[d] # sess[c]
            BY <1>w, <4>1, <4>5, <5>1
          <5>3. acked'[sess[d]] = acked[sess[d]]
            <6>1. sess[d] \in Sessions
              BY <1>0, <4>5, <5>1 DEF RepliesOK, CallTypes, Sessions
            <6> QED BY <1>0, <4>1, <4>4, <5>2, <6>1 DEF AckTypes
          <5> QED BY <1>0, <4>5, <5>1, <5>3 DEF ExecutedOK
        <4> QED BY <4>5 DEF ExecutedOK
      <3>2. CASE Holds(c) /\ acked' = acked
        BY <1>0, Basics, <2>2, <3>2 DEF PipelineDoes, CommandAcks, Holds, Kept, CallTypes,
           ReplyTypes, ExecutedOK, NoOp, Op, RepliesOK
      <3>3. CASE Drops(c) /\ acked' = acked
        BY <1>0, Basics, <2>2, <3>3 DEF PipelineDoes, CommandAcks, Holds, Kept, Drops, Dropped,
           CallTypes, ReplyTypes, ExecutedOK, NoOp, Op, RepliesOK
      <3> QED BY <2>2, <3>1, <3>2, <3>3 DEF PipelineDoes, CommandAcks, Holds, Kept
    <2> QED BY <1>6, <2>1, <2>2 DEF PlainDoes
  <1>7. ASSUME NEW c \in Callers, TxDoes(c) PROVE ExecutedOK'
    <2>1. CASE TransactionCommandDoes(c)
      <3>1. CASE Holds(c) /\ acked' # acked
        <4>1. /\ reply[c].kind = "queued" /\ sess[c] # 0 /\ acked' = [acked EXCEPT ![sess[c]] = @ + 1]
              /\ gate' = gate /\ server' = server
          BY <1>0, <2>1, <3>1 DEF TransactionCommandDoes, Ended, Return, Holds, Kept, Drops,
             SpeakersOK, TxNames
        <4>2. \A d \in Callers : d # c => sess'[d] = sess[d] /\ reply'[d] = reply[d]
          BY <1>0, <2>1, <3>1 DEF TransactionCommandDoes, Ended, Return, Holds, Kept, CallTypes,
             ReplyTypes
        <4>3. reply'[c] = NoReply
          BY <1>0, <3>1 DEF Holds, Kept, ReplyTypes
        <4>4. sess[c] \in Sessions
          BY <1>0, <4>1 DEF CallTypes, Sessions
        <4>5. ASSUME NEW d \in Callers, reply'[d].kind = "array" PROVE acked'[sess'[d]] <= Len(reply'[d].items)
          <5>1. d # c /\ sess'[d] = sess[d] /\ reply'[d] = reply[d]
            BY Basics, <4>2, <4>3, <4>5
          <5>2. sess[d] # sess[c]
            BY <1>w, <4>1, <4>5, <5>1
          <5>3. acked'[sess[d]] = acked[sess[d]]
            <6>1. sess[d] \in Sessions
              BY <1>0, <4>5, <5>1 DEF RepliesOK, CallTypes, Sessions
            <6> QED BY <1>0, <4>1, <4>4, <5>2, <6>1 DEF AckTypes
          <5> QED BY <1>0, <4>5, <5>1, <5>3 DEF ExecutedOK
        <4> QED BY <4>5 DEF ExecutedOK
      <3>2. CASE Holds(c) /\ acked' = acked
        BY <1>0, Basics, <2>1, <3>2 DEF TransactionCommandDoes, Ended, Return, Holds, Kept,
           CallTypes, ReplyTypes, ExecutedOK, NoOp, Op, RepliesOK
      <3>3. CASE Drops(c) /\ acked' = acked
        BY <1>0, Basics, <2>1, <3>3 DEF TransactionCommandDoes, Ended, Return, Holds, Kept, Drops,
           Dropped, CallTypes, ReplyTypes, ExecutedOK, NoOp, Op, RepliesOK
      <3> QED BY <2>1, <3>1, <3>2, <3>3 DEF TransactionCommandDoes, Ended, Return, Holds, Kept
    <2>2. CASE TransactionDoes(c)
      BY <1>0, Basics, <1>w, <2>2 DEF TransactionDoes, Ended, Return, NoOp, Op, Holds, Drops,
         Frees, Kept, Dropped, CallTypes, ReplyTypes, RepliesOK, ExecutedOK
    <2> QED BY <1>7, <2>1, <2>2 DEF TxDoes
  <1>8. ASSUME NEW r \in Replies, ServeDoes(r) PROVE ExecutedOK'
    <2> DEFINE m == wire[1]
    <2>1. Len(wire) \in Nat /\ Len(wire') = Len(wire) - 1 /\ Len(wire) > 0
      BY <1>0, <1>8 DEF WireTypes, ServeDoes
    <2>2. 1 \in 1..Len(wire) /\ \A i \in 1..Len(wire') : wire'[i] = wire[i + 1] /\ i + 1 \in 1..Len(wire)
      BY <2>1, <1>8 DEF ServeDoes
    <2>3. UNCHANGED <<pc, op, sess, gateW, legacy, legacyMulti, gate, txState, cur, sconn, acked>>
      BY <1>8 DEF ServeDoes, client, executor, transactions
    <2>4. m \in Messages
      BY <1>0, <2>1, <2>2 DEF WireTypes
    <2>5. ServeMeans(m, r)
      BY <1>8, Serving DEF TxInv
    <2>6. m.name \notin CommandKinds => m.sess = gate /\ gate # 0 /\ Len(wire) = 1 /\ Quiet
      BY <2>2, SpecialMessage DEF TxInv
    <2> HIDE DEF m
    <2>7. CASE r.kind # "array" \/ m.by = "none"
      <3>1. \A d \in Callers : reply'[d].kind = "array" => reply'[d] = reply[d]
        BY <1>0, <1>8, <2>7 DEF ServeDoes, Deliver, ReplyTypes, m
      <3> QED BY <1>0, <2>3, <3>1 DEF ExecutedOK
    <2>8. CASE r.kind = "array" /\ m.by # "none"
      <3>1. m.name = "exec" /\ server.multi /\ r.items = server.queue
        BY <2>5, <2>8 DEF ServeMeans
      <3>2. m.sess = gate
        BY <2>6, <3>1 DEF CommandKinds
      <3>3. m.by \in Callers /\ sess[m.by] = gate
        BY <1>0, <2>2, <2>4, <2>8, <3>2 DEF AwaitedOK, Messages, m
      <3>4. reply' = [reply EXCEPT ![m.by] = r]
        BY <1>8, <2>8 DEF ServeDoes, Deliver, m
      <3>5. acked[gate] <= Len(r.items)
        BY <1>0, <3>1 DEF QueueOK
      <3> QED BY <1>0, <2>3, <3>3, <3>4, <3>5 DEF ExecutedOK, ReplyTypes
    <2> QED BY <2>7, <2>8
  <1>9. CASE Breaks
    BY <1>0, Basics, <1>w, <1>9 DEF Breaks, ContextEnds, ContextAbortsDoes, Drops, Dropped,
       LoseDoes, vars, CallTypes, ReplyTypes, RepliesOK, ExecutedOK, client, transactions,
       executor, calls, remote
  <1>s. StepDoes
    BY Steps DEF TxInv
  <1> QED BY <1>s, <1>1, <1>2, <1>3, <1>4, <1>5, <1>6, <1>7, <1>8, <1>9 DEF StepDoes

-----------------------------------------------------------------------------
(* The theorems.                                                              *)

\* A new client satisfies the invariant.
LEMMA InvInit == Init => TxInv
  <1> SUFFICES ASSUME Init PROVE TxInv
    OBVIOUS
  <1>1. ClientTypes /\ ExecutorTypes
    <2>1. /\ 0 \in 0..MaxSessions /\ 0 \in 0..MaxConns
          /\ sconn = <<>> /\ sconn \in Seq(Conns) /\ Len(sconn) <= MaxSessions
      BY Basics DEF Init
    <2>2. ClientTypes
      BY <2>1 DEF Init, ClientTypes
    <2>3. ExecutorTypes
      BY <2>1 DEF Init, ExecutorTypes
    <2> QED BY <2>2, <2>3
  <1>2. \A c \in Callers : op[c].name = "none" /\ pc[c] = "idle" /\ sess[c] = 0 /\ reply[c] = NoReply
    BY DEF Init, NoOp, Op
  <1>3. CallTypes /\ ReplyTypes
    BY Basics, ReplyFacts DEF Init, CallTypes, ReplyTypes, Ops, NoOp, Op
  <1>4. WireTypes /\ ServerTypes /\ AckTypes /\ Len(wire) = 0 /\ ~ server.watch /\ ~ server.multi
    BY DEF Init, WireTypes, ServerTypes, AckTypes, Clean
  <1>5. LocksOK /\ PlacesOK /\ ReadersOK
    BY Basics, <1>2 DEF Init, LocksOK, PlacesOK, ReadersOK, LegacyStart, LegacyEnd, PlainNames,
       TxNames, Speaking
  <1>6. SessionsOK /\ SpeakersOK /\ TransactionsOK /\ OwnerOK
    BY <1>2 DEF Init, SessionsOK, SpeakersOK, TransactionsOK, OwnerOK, Active, Owning, LegacyEnd,
       PlainNames, TxNames, Speaking
  <1>7. ConnOK /\ AwaitedOK /\ OrderOK /\ LastOK /\ ServerOK
    BY <1>4 DEF Init, ConnOK, AwaitedOK, OrderOK, LastOK, ServerOK
  <1>8. ReadyOK /\ RepliesOK /\ TurnsOK /\ AcceptedOK /\ LegacyOK
    BY <1>2, ReplyFacts DEF Init, ReadyOK, RepliesOK, TurnsOK, AcceptedOK, LegacyOK
  <1>9. NotYetOK /\ QueueOK /\ ExecutedOK
    BY <1>2, <1>4, ReplyFacts DEF Init, NotYetOK, NothingQueued, QueueOK, ExecutedOK
  <1> QED BY <1>1, <1>3, <1>4, <1>5, <1>6, <1>7, <1>8, <1>9 DEF TxInv, TypeOK

\* Nothing was ever queued in a session that is not there yet.
LEMMA NotYetKept ==
    ASSUME TxInv, [Next]_vars
    PROVE  NotYetOK'
  <1> SUFFICES ASSUME NEW s \in Sessions, NotYet(s)' PROVE NothingQueued(s)'
    BY DEF NotYetOK, Sessions
  <1>1. NotYet(s)
    BY NotYetBefore
  <1>2. NothingQueued(s)
    BY <1>1 DEF TxInv, NotYetOK
  <1> QED BY <1>1, <1>2, NothingQueuedKept

\* And every step keeps it.
LEMMA InvNext == TxInv /\ [Next]_vars => TxInv'
  <1> SUFFICES ASSUME TxInv, [Next]_vars PROVE TxInv'
    OBVIOUS
  <1>1. TypeOK'
    BY ClientTypesKept, ExecutorTypesKept, CallTypesKept, ReplyTypesKept, WireTypesKept,
       ServerTypesKept,
       AckTypesKept DEF TypeOK
  <1>2. LocksOK' /\ PlacesOK' /\ ReadersOK' /\ SessionsOK' /\ SpeakersOK' /\ TransactionsOK' /\ OwnerOK'
    BY LocksKept, PlacesKept, ReadersKept, SessionsKept, SpeakersKept, TransactionsKept, OwnerKept
  <1>3. ConnOK' /\ AwaitedOK' /\ OrderOK' /\ LastOK' /\ ServerOK' /\ ReadyOK' /\ RepliesOK'
    BY ConnKept, AwaitedKept, OrderKept, LastKept, ServerKept, ReadyKept, RepliesKept
  <1>4. TurnsOK' /\ AcceptedOK' /\ LegacyOK' /\ NotYetOK' /\ QueueOK' /\ ExecutedOK'
    BY TurnsKept, AcceptedKept, LegacyKept, NotYetKept, QueueKept, ExecutedKept
  <1> QED BY <1>1, <1>2, <1>3, <1>4 DEF TxInv

\* Every reachable state of a client's sessions satisfies the inductive invariant.
THEOREM TxInvariant == Spec => []TxInv
  <1> QED BY InvInit, InvNext, PTL DEF Spec

\* Every variable of the client, the executor, the calls and the connection keeps its type.
THEOREM TransactionTypes == Spec => []TypeOK
  <1>1. TxInv => TypeOK
    BY DEF TxInv
  <1> QED BY <1>1, TxInvariant, PTL

\* No WATCH, MULTI or queued command outlives the session it was sent on, whichever of
\* Abort, Release and Close ends it (transaction.go:242, native_request.go:418).
THEOREM StateContained == Spec => []SessionStateContained
  <1>1. TxInv => SessionStateContained
    <2> SUFFICES ASSUME TxInv PROVE SessionStateContained
      OBVIOUS
    <2>0. WireTypes /\ ServerTypes /\ OrderOK /\ ServerOK /\ RepliesOK
      BY DEF TxInv, TypeOK
    <2>1. DOMAIN wire = 1..Len(wire) /\ DOMAIN server.queue = 1..Len(server.queue)
      BY <2>0 DEF WireTypes, ServerTypes
    <2>2. gate = 0 => ~ server.watch /\ ~ server.multi /\ \A i \in DOMAIN wire : wire[i].name \in CommandKinds
      BY <2>0, <2>1 DEF ServerOK, OrderOK
    <2>3. \A c \in Callers : sess[c] = 0 => reply[c].kind # "queued"
      BY <2>0 DEF RepliesOK
    <2>4. server.multi => \A i \in DOMAIN server.queue : server.queue[i] = gate
      BY <2>0, <2>1 DEF ServerOK
    <2> QED BY <2>2, <2>3, <2>4 DEF SessionStateContained
  <1> QED BY <1>1, TxInvariant, PTL

\* The session that holds the executor's gate has exactly one owner: the client, an open
\* Transaction or one call under way (transaction.go:123, transaction.go:175).
THEOREM OneOwner == Spec => []SessionHasOneOwner
  <1>1. TxInv => SessionHasOneOwner
    <2> SUFFICES ASSUME TxInv, gate # 0 PROVE SessionHasOneOwner
      BY DEF SessionHasOneOwner
    <2> DEFINE O == {c \in Callers : pc[c] \in {"send", "wait"} /\ sess[c] = gate
                                     /\ op[c].name \in LegacyEnd \cup {"watch", "begin"}}
               X == {x \in Txs : txSess[x] = gate /\ txState[x] \in {"open", "closing"}}
    <2>0. CallTypes /\ LocksOK /\ SpeakersOK /\ TransactionsOK /\ OwnerOK
      BY DEF TxInv, TypeOK
    <2>1. CASE legacy = gate
      <3>1. O = {} /\ X = {}
        BY <2>0, <2>1 DEF SpeakersOK, TransactionsOK, Active, Owning
      <3>2. Cardinality(O) = 0 /\ Cardinality(X) = 0
        BY <3>1, FS_EmptySet
      <3> HIDE DEF O, X
      <3>3. Cardinality(O) + Cardinality(X) + (IF legacy = gate THEN 1 ELSE 0) = 1
        BY <2>1, <3>2
      <3> QED BY <3>3 DEF SessionHasOneOwner, O, X
    <2>2. CASE \E x \in Txs : Active(x)
      <3>1. PICK x \in Txs : Active(x)
        BY <2>2
      <3>2. X = {x} /\ legacy = 0
        BY <2>0, <3>1 DEF TransactionsOK, Active
      <3>3. O = {}
        BY <2>0, <3>1 DEF TransactionsOK, Owning, Speaking
      <3>4. Cardinality(O) = 0 /\ Cardinality(X) = 1
        BY <3>2, <3>3, FS_EmptySet, FS_Singleton
      <3> HIDE DEF O, X
      <3>5. Cardinality(O) + Cardinality(X) + (IF legacy = gate THEN 1 ELSE 0) = 1
        BY <3>2, <3>4
      <3> QED BY <3>5 DEF SessionHasOneOwner, O, X
    <2>3. CASE \E c \in Callers : pc[c] \in Speaking /\ op[c].name \in Owning
      <3>1. PICK c \in Callers : pc[c] \in Speaking /\ op[c].name \in Owning
        BY <2>3
      <3>2. O = {c}
        <4>1. c \in O
          BY <2>0, <3>1 DEF SpeakersOK, Owning, Speaking
        <4>2. \A d \in O : gateW = d
          BY <2>0 DEF LocksOK, LegacyStart
        <4> QED BY <4>1, <4>2
      <3>3. X = {} /\ legacy = 0
        BY <2>0, <3>1 DEF TransactionsOK, SpeakersOK, Active
      <3>4. Cardinality(O) = 1 /\ Cardinality(X) = 0
        BY <3>2, <3>3, FS_EmptySet, FS_Singleton
      <3> HIDE DEF O, X
      <3>5. Cardinality(O) + Cardinality(X) + (IF legacy = gate THEN 1 ELSE 0) = 1
        BY <3>3, <3>4
      <3> QED BY <3>5 DEF SessionHasOneOwner, O, X
    <2> QED BY <2>0, <2>1, <2>2, <2>3 DEF OwnerOK
  <1> QED BY <1>1, TxInvariant, PTL

\* What the client believes of its legacy session is what the server keeps, and an EXEC
\* that succeeds has executed every command that somebody was told is QUEUED in its
\* session (transaction.go:123), through lost connections, given-up requests and Close.
THEOREM ClientAndServerAgree == Spec => []ClientAgreesWithServer
  <1>1. TxInv => LegacyMatchesServer
    <2> SUFFICES ASSUME TxInv, legacy # 0, gateW = "none", cur = sconn[legacy]
                 PROVE  legacyMulti = server.multi /\ (~ legacyMulti => server.watch)
      BY DEF LegacyMatchesServer
    <2>0. ClientTypes /\ ExecutorTypes /\ SessionsOK /\ SpeakersOK /\ LegacyOK
      BY DEF TxInv, TypeOK
    <2>1. legacy \in 1..Len(sconn)
      BY <2>0 DEF ClientTypes, ExecutorTypes, SessionsOK, SpeakersOK
    <2>2. sconn[legacy] \in Conns
      BY <2>0, <2>1 DEF ExecutorTypes
    <2>3. cur # 0
      BY <2>2, TransactionConstants DEF Conns
    <2> QED BY <2>0, <2>3 DEF LegacyOK
  <1>2. TxInv => AcknowledgedIsExecuted
    BY DEF TxInv, ExecutedOK, AcknowledgedIsExecuted
  <1>3. TxInv => ClientAgreesWithServer
    BY <1>1, <1>2 DEF ClientAgreesWithServer
  <1> QED BY <1>3, TxInvariant, PTL
=============================================================================
