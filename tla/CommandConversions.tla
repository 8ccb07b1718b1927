------------------------- MODULE CommandConversions -------------------------
(* The commands the client's methods send, against what the executors read    *)
(* out of them: the roles of the arguments (Stores, FlowCommands) say what    *)
(* was meant; the grammars of KeyRouting and FlowNative see the texts only.   *)
EXTENDS FlowNative, FlowCommands

-----------------------------------------------------------------------------
(* Commands on keys.                                                          *)

Meant(args, role) == {i \in DOMAIN args : args[i].role = role}

\* What the executor makes of a command.
Route(args) ==
    [keys |-> checkedKeys(args), decision |-> Decision(args), budget |-> blockingCommandBudget(args)]

\* Every key of the command is found and nothing else is taken for one; it goes to
\* the slot of all of them, apart, or is refused because they are in several slots;
\* a command that has keys never goes to the control connection, which may be any
\* node.  COMMAND only speaks of keys.
RoutedByItsKeys(args, r) ==
    LET keys == Meant(args, "key")
        d == r.decision
    IN /\ r.keys = keys
       /\ d.to = "control" => keys = {} \/ args[1].v = "COMMAND"
       /\ d.to = "slot" => slotsOf(args, keys) = {d.slot}
       /\ d.to = "scatter" => UNION d.parts = keys
       /\ d.to = "refused" => Cardinality(slotsOf(args, keys)) > 1

\* The client waits longer exactly for the commands that may block, and without
\* end only if the command may.
WaitsAsAsked(args, r) ==
    LET times == {args[i].n : i \in Meant(args, "block")}
    IN r.budget.kind = IF times = {} THEN "none" ELSE IF 0 \in times THEN "endless" ELSE "added"

-----------------------------------------------------------------------------
(* FLOW commands.                                                             *)

allFields ==
    adminFields @@ mapFields @@ listFields @@ putFields @@ typePolicyFields @@ retryPolicyFields
    @@ Table({<<"MODE", "mode">>})
fieldOf(role) == IF role \in DOMAIN allFields THEN allFields[role] ELSE role

given(args) == {i \in DOMAIN args : args[i].role \notin {"word", "number"}}
asked(args) == {<<fieldOf(args[i].role), args[i].item, i>> : i \in given(args)}

\* The native request holds what the caller gave, each argument in its field and its
\* item, whatever its text.  Two commands may go out unparsed.
BuiltAsAsked(args, built) ==
    IF <<"declined", 0, 0>> \in built THEN args[1].v \in {"FLOW.CREATE_MANY", "FLOW.SCHEDULE.LIST"}
    ELSE built = asked(args)

\* The arguments of a role, outside of items, and their texts.
ofRole(args, role) == {i \in given(args) : args[i].role = role /\ args[i].item = 0}
textsOf(args, role) == {args[i].v : i \in ofRole(args, role)}

\* The slot where the flow of the command is.
homeOf(args) ==
    LET name == args[1].v
        one == ofRole(args, "PARTITION")
        any == one \cup ofRole(args, "partition_key") \cup ofRole(args, "partition_keys")
        owner == textsOf(args, "OWNER_FLOW_ID")
    IN CASE name \in {"FLOW.QUERY"} \cup flowScheduleCommands -> Unrouted
         [] name = "FLOW.VALUE.MGET" -> oneSlot({Slot[v] : v \in textsOf(args, "refs")})
         [] name \in scopedByFirst -> FlowSlot[args[2].v]
         [] OTHER ->
              IF any # {} THEN oneSlot({FlowSlot[args[i].v] : i \in IF one # {} THEN one ELSE any})
              ELSE IF name = "FLOW.VALUE.PUT" /\ owner # {} /\ textsOf(args, "NAME") # {}
              THEN AutoSlot[CHOOSE v \in owner : TRUE]
              ELSE IF name \in flowStateIDCommands THEN AutoSlot[args[2].v] ELSE Unrouted

\* Two forms that the grammar of the options misreads (README): the first options of
\* RUN_STEPS_MANY, which has no leading argument, and what follows a claim's PAYLOAD.
misread(args) ==
    \/ args[1].v = "FLOW.RUN_STEPS_MANY" /\ \E i \in given(args) : args[i].v = "PARTITION"
    \/ args[1].v \in claims /\ ofRole(args, "payload") # {} /\ "PARTITION" \in textsOf(args, "values")

\* A command goes to the node of its flow, whatever its texts: a worker, a state or a
\* value may be named like an option.
RoutedToItsFlow(args, slot) == misread(args) \/ slot = homeOf(args)

=============================================================================
