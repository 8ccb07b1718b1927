----------------------------- MODULE MCBatches -----------------------------
(* The executors that hand on commands in batches.  MCInit picks one of them  *)
(* and only that one takes steps; the others stay in their initial states.    *)
(*                                                                            *)
(* automatic: two commands and a flush, a queue and a batch of two: a batch   *)
(* that fills up, one that waits for its timer, one that a flush cuts short,  *)
(* a pipeline that outlives its flush while the next batch is ready, and      *)
(* Close at every point of all of it.                                         *)
(* topology: three layouts of two keys on two leaders, pipelines that mix     *)
(* routed, scatter and control commands, up to two groups at a time.          *)
(* buffered: three writers, one of a command of two bytes, and two flushers.  *)
(* http: two commands and chains of up to four hops.                          *)
EXTENDS AutoBatch, Executors, TLC

CONSTANTS key1, key2, leader1, leader2

VARIABLE component

\* Values of constants.
MCKeys == {key1, key2}
MCLeaders == {leader1, leader2}
MCLayout ==
    0 :> [x \in MCKeys |-> NoRoute] @@ 1 :> [x \in MCKeys |-> leader1]
    @@ 2 :> (key1 :> leader2 @@ key2 :> leader1) @@ 3 :> (key1 :> NoRoute @@ key2 :> leader2)
Routed(x) == [kind |-> "routed", keys |-> {x}, never |-> FALSE, destructive |-> FALSE, typed |-> FALSE]
Never(x) == [Routed(x) EXCEPT !.never = TRUE]
Spread(destructive, typed) ==
    [kind |-> "scatter", keys |-> MCKeys, never |-> FALSE, destructive |-> destructive, typed |-> typed]
Keyless == [kind |-> "control", keys |-> {}, never |-> FALSE, destructive |-> FALSE, typed |-> FALSE]
MCPipelines ==
    {<<Routed(key1), Routed(key2), Routed(key1)>>, <<Routed(key1), Routed(key1)>>,
     <<Routed(key1), Never(key1), Routed(key2)>>,
     <<Routed(key1), Spread(TRUE, FALSE)>>, <<Spread(TRUE, FALSE), Routed(key2)>>,
     <<Spread(TRUE, TRUE)>>,
     <<Spread(FALSE, TRUE), Keyless>>, <<Keyless, Routed(key2)>>}
MCSize == [w \in Writers |-> IF w = CHOOSE x \in Writers : TRUE THEN 2 ELSE 1]

\* Every part is in an initial state; the inputs of one that is not picked are fixed.
MCInit ==
    /\ Init /\ HttpInit /\ BufferedInit /\ BatchInit
    /\ component \in {"automatic", "topology", "buffered", "http"}
    /\ component = "http" \/ (batched = {} /\ ~ custom)
    /\ component = "topology" \/ (pipeline = <<Spread(TRUE, TRUE)>> /\ perShard /\ known = 0)

MCNext ==
    /\ UNCHANGED component
    /\ \/ component = "automatic" /\ Next /\ UNCHANGED <<httpVars, bufferedVars, batchVars>>
       \/ component = "http" /\ HttpNext /\ UNCHANGED <<vars, bufferedVars, batchVars>>
       \/ component = "buffered" /\ BufferedNext /\ UNCHANGED <<vars, httpVars, batchVars>>
       \/ component = "topology" /\ BatchNext /\ UNCHANGED <<vars, httpVars, bufferedVars>>

\* The fairness of AutoBatch, for the behaviours that are its own.
MCFairness ==
    /\ WF_vars(component = "automatic" /\ LoopStep) /\ WF_vars(component = "automatic" /\ Expire)
    /\ \A r \in Requests : /\ WF_vars(component = "automatic" /\ Send(r))
                           /\ WF_vars(component = "automatic" /\ Return(r))

MCSpec ==
    MCInit /\ [][MCNext]_<<component, vars, httpVars, bufferedVars, batchVars>> /\ MCFairness
=============================================================================
