----------------------------- MODULE MCSessions -----------------------------
(* The parts that share a client's connection: its transactions and its       *)
(* publish/subscribe view.  MCInit picks one of them and only that one takes  *)
(* steps; the others stay in their initial states.                            *)
(*                                                                            *)
(* transactions: two callers, the legacy session and one explicit             *)
(* Transaction, two sessions, two connections.                                *)
(* subscriptions: a subscriber of two targets, a reader who waits for one     *)
(* kind of event, none of which is sent, three connections.                   *)
(* readers: two readers of two kinds of events, three of them, a queue of     *)
(* one, three connections; nobody subscribes.                                 *)
(* moves: a reader of one kind of event, two of them, and connections enough  *)
(* for the view to leave an executor and to come back.                        *)
EXTENDS Transactions, PubSub, TLC

CONSTANTS
    FirstReader, FirstKind,     \* those of the subscriptions and of the moves
    FewConnections, FewEvents   \* bounds of the parts that need no more

ASSUME FirstReader \in Readers /\ FirstKind \in Kinds

VARIABLE component

MCInit ==
    /\ component \in {"transactions", "subscriptions", "readers", "moves"}
    /\ Init /\ PubSubInit

\* What a part of the view restricts itself to.
OnlyFirst ==
    \A r \in Readers : want'[r] \in {"none", FirstKind} /\ (r # FirstReader => at'[r] = "idle")
NoSubscriber == \A c \in Subscribers : at'[c] = "idle"
OnlySubscriptions == OnlyFirst /\ sent' = <<>> /\ generation' <= FewConnections
OnlyReaders == NoSubscriber /\ generation' <= FewConnections
OnlyMoves ==
    NoSubscriber /\ OnlyFirst /\ Len(sent') <= FewEvents

MCNext ==
    /\ UNCHANGED component
    /\ \/ component = "transactions" /\ Next /\ UNCHANGED pubSubVars
       \/ component = "subscriptions" /\ PubSubNext /\ OnlySubscriptions /\ UNCHANGED vars
       \/ component = "readers" /\ PubSubNext /\ OnlyReaders /\ UNCHANGED vars
       \/ component = "moves" /\ PubSubNext /\ OnlyMoves /\ UNCHANGED vars

MCSpec == MCInit /\ [][MCNext]_<<component, vars, pubSubVars>>

Symmetry == Permutations(Callers) \cup Permutations(Executors)
=============================================================================
