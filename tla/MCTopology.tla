----------------------------- MODULE MCTopology -----------------------------
(* The topology executor, and how it finds out where a command belongs.       *)
(* MCInit picks one part and only that one takes steps; the executor, when    *)
(* not picked, stays in its initial state.                                    *)
(*                                                                            *)
(* executor: one caller, the event loop and the flights they start.  The      *)
(* caller's key is led by the learned endpoint nodeB, then by the seed nodeA: *)
(* one change of the layout reroutes a call and retires an adapter.  Two      *)
(* calls of the caller are needed for a second refresh to meet one the first  *)
(* abandoned.                                                                 *)
(* command: one command of the client's methods, and what the routing and the *)
(* builders of native requests make of it.                                    *)
EXTENDS Topology

CONSTANTS nodeA, nodeB

VARIABLES
    component,
    command,    \* the command, [of, args]
    result      \* <<>>, or the sequence of the one result

MCLayout == << [x \in Callers |-> nodeB], [x \in Callers |-> nodeA] >>

\* The texts of arguments: the grammars have words for some of them.
Slots(first) == [t \in STRING |-> IF t \in {"plain", "BLOCK"} THEN first + 1 ELSE first]
K == INSTANCE CommandConversions WITH
        Slot <- Slots(1), FlowSlot <- Slots(3), AutoSlot <- Slots(5), Reserved <- {"X:"},
        KeyTexts <- {"STREAMS", "BLOCK"}, FreeTexts <- {"STREAMS", "BLOCK"},
        Tricky <- {}, MaxOptions <- 0
F == INSTANCE CommandConversions WITH
        Slot <- Slots(1), FlowSlot <- Slots(3), AutoSlot <- Slots(5), Reserved <- {"X:"},
        KeyTexts <- {"plain"}, FreeTexts <- {"plain"}, Tricky <- {"PARTITION", "ITEMS"}, MaxOptions <- 1

MCInit ==
    /\ Init /\ result = <<>>
    /\ \/ component = "executor" /\ command = <<>>
       \/ /\ component = "command"
          /\ \/ \E args \in K!AllCalls : command = [of |-> "key", args |-> args]
             \/ \E group \in F!FlowCallGroups :
                   \E args \in group : command = [of |-> "flow", args |-> args]

Called(kind) ==
    /\ component = "command" /\ result = <<>> /\ command.of = kind
    /\ UNCHANGED <<component, vars, command>>
RouteCommand == Called("key") /\ result' = <<K!Route(command.args)>>
BuildFlowCommand ==
    /\ Called("flow")
    /\ result' = <<[built |-> F!buildFlowNativeCommand(command.args),
                    slot |-> F!flowRoutingKey(command.args)]>>

MCNext ==
    \/ component = "executor" /\ Next /\ UNCHANGED <<component, command, result>>
    \/ RouteCommand
    \/ BuildFlowCommand

MCSpec == MCInit /\ [][MCNext]_<<component, vars, command, result>>

-----------------------------------------------------------------------------
(* Properties, besides those of the executor.                                 *)

Made(kind) == result # <<>> /\ command.of = kind

\* CommandConversions!RoutedByItsKeys and !WaitsAsAsked: whatever texts the caller uses,
\* the keys of a command are the ones routing and the reserved-key check find
\* (topology_command_policy.go:245), and the blocking time is the one the deadline is
\* extended by (native_command.go:217).
KeysAndTimesFound ==
    Made("key") =>
        K!RoutedByItsKeys(command.args, result[1]) /\ K!WaitsAsAsked(command.args, result[1])

\* CommandConversions!BuiltAsAsked: a FLOW command is turned into a native request that
\* holds each argument in the field the caller meant, although texts may be spelled like
\* options (native_flow_admin.go:88, native_flow_options.go:16).
BuiltAsAsked == Made("flow") => F!BuiltAsAsked(command.args, result[1].built)

\* CommandConversions!RoutedToItsFlow: and it is sent to the node that has the flow
\* (topology_flow_routing.go:11).
RoutedToItsFlow == Made("flow") => F!RoutedToItsFlow(command.args, result[1].slot)
=============================================================================
