----------------------------- MODULE FlowNative -----------------------------
(***************************************************************************)
(* What becomes of a FLOW command: the slot the topology executor sends it *)
(* to (topology_flow_routing.go, the tables of topology_routing.go) and    *)
(* the native request that is built of it (buildFlowNativeCommand of       *)
(* native_flow.go and the builders it calls).                              *)
(*                                                                         *)
(* Both read the argument list with a grammar of their own, one option     *)
(* after the other, and both must find what the caller put there whatever  *)
(* the texts are.  A built request is the set of <<field, item, position>> *)
(* of the arguments it holds; item counts the items of a batch from 1 and  *)
(* is 0 outside of them.  A builder may decline: the command then goes out *)
(* as it is, unparsed.                                                     *)
(***************************************************************************)
EXTENDS KeyRouting, TLC

CONSTANTS
    FlowSlot,   \* the slot of a partition (flowLogicalPartitionRoutingKey)
    AutoSlot    \* the slot of a flow without partition (flowAutoIDRoutingKey)

Unrouted == -1

token(args, i) == commandPart(args[i])

-----------------------------------------------------------------------------
(* Routing *)

typeScopedFlowCommands ==
    {"FLOW.APPROVAL.LIST", "FLOW.ATTRIBUTE_VALUES", "FLOW.ATTRIBUTES", "FLOW.BUDGET.LIST", "FLOW.GOVERNANCE.OVERVIEW",
     "FLOW.INFO", "FLOW.LIMIT.LIST", "FLOW.POLICY.GET", "FLOW.POLICY.SET", "FLOW.RETENTION_CLEANUP",
     "FLOW.SCHEDULE.FIRE_DUE", "FLOW.SCHEDULE.LIST", "FLOW.STATS"}

flowScheduleCommands ==
    {"FLOW.SCHEDULE.CREATE", "FLOW.SCHEDULE.DELETE", "FLOW.SCHEDULE.FIRE", "FLOW.SCHEDULE.FIRE_DUE",
     "FLOW.SCHEDULE.GET", "FLOW.SCHEDULE.LIST", "FLOW.SCHEDULE.PAUSE", "FLOW.SCHEDULE.RESUME"}

\* flowApprovalIDCommands and flowGovernanceScopeCommands: the first argument is the partition.
scopedByFirst ==
    {"FLOW.APPROVAL.APPROVE", "FLOW.APPROVAL.GET", "FLOW.APPROVAL.REJECT", "FLOW.APPROVAL.REQUEST",
     "FLOW.BUDGET.COMMIT", "FLOW.BUDGET.GET", "FLOW.BUDGET.RELEASE", "FLOW.BUDGET.RESERVE", "FLOW.CIRCUIT.CLOSE",
     "FLOW.CIRCUIT.GET", "FLOW.CIRCUIT.OPEN", "FLOW.LIMIT.GET", "FLOW.LIMIT.LEASE", "FLOW.LIMIT.RELEASE",
     "FLOW.LIMIT.SPEND"}

flowStateIDCommands ==
    {"FLOW.CANCEL", "FLOW.COMPLETE", "FLOW.CREATE", "FLOW.EFFECT.COMPENSATE", "FLOW.EFFECT.CONFIRM",
     "FLOW.EFFECT.FAIL", "FLOW.EFFECT.GET", "FLOW.EFFECT.RESERVE", "FLOW.EXTEND_LEASE", "FLOW.FAIL", "FLOW.GET",
     "FLOW.GOVERNANCE.LEDGER", "FLOW.HISTORY", "FLOW.RETRY", "FLOW.REWIND", "FLOW.SIGNAL", "FLOW.SPAWN_CHILDREN",
     "FLOW.START_AND_CLAIM", "FLOW.STEP_CONTINUE", "FLOW.TRANSITION"}

batchCommands ==
    {"FLOW.CREATE_MANY", "FLOW.COMPLETE_MANY", "FLOW.TRANSITION_MANY", "FLOW.RETRY_MANY", "FLOW.FAIL_MANY",
     "FLOW.CANCEL_MANY"}

claims == {"FLOW.CLAIM_DUE", "FLOW.RECLAIM"}

flowValueReturnCommands == claims \cup {"FLOW.GET"}

\* The position of the first option.
flowOptionStart(name) ==
    CASE name \in {"FLOW.APPROVAL.LIST", "FLOW.GOVERNANCE.OVERVIEW", "FLOW.BUDGET.LIST", "FLOW.LIMIT.LIST"} -> 2
      [] name \in {"FLOW.ATTRIBUTE_VALUES", "FLOW.EXTEND_LEASE", "FLOW.COMPLETE", "FLOW.RETRY", "FLOW.FAIL"} -> 4
      [] name = "FLOW.TRANSITION" -> 5
      [] name = "FLOW.STEP_CONTINUE" -> 6
      [] OTHER -> 3

\* Mutant: every option has one value.
nextFlowOptionByTwo(args, i) == i + 2

\* The position after the option at i; past the end where the list of options ends.
nextFlowOption(args, i) ==
    CASE token(args, i) \in {"ATTRIBUTE", "ATTRIBUTE_MERGE", "VALUE_REF", "STATE_META"} -> i + 3
      [] token(args, i) = "VALUE" -> IF args[1].v \in flowValueReturnCommands THEN i + 2 ELSE i + 3
      [] token(args, i) \in {"ITEMS", "ITEMS_EXT", "ITEMS_MAPS"} -> Len(args) + 1
      [] token(args, i) = "PARTITIONS" ->
             IF i < Len(args) /\ args[i + 1].n \in 0 .. Len(args) - i - 1 THEN i + 2 + args[i + 1].n ELSE Len(args) + 1
      [] OTHER -> i + 2

\* The positions of the options, as that grammar finds them from i on.
RECURSIVE flowOptions(_, _)
flowOptions(args, i) == IF i > Len(args) THEN {} ELSE {i} \cup flowOptions(args, nextFlowOption(args, i))

optionsNamed(args, names) ==
    {i \in flowOptions(args, flowOptionStart(args[1].v)) : token(args, i) \in names}

firstOf(S) == CHOOSE i \in S : \A j \in S : i <= j

\* flowLogicalPartitionRoutingKey and flowClaimPartitionRoutingKey (GLOBAL is a partition like another here).
partitionSlot(args, i) ==
    IF i > Len(args) \/ ~ args[i].text \/ (args[1].v \in claims /\ token(args, i) \in {"AUTO", "ANY"}) THEN Unrouted
    ELSE FlowSlot[args[i].v]

oneSlot(slots) == IF Cardinality(slots) = 1 THEN CHOOSE s \in slots : TRUE ELSE Unrouted

\* flowPartitionRoutingKey: the partition or partitions of the option at i.
partitionOptionSlot(args, i) ==
    IF token(args, i) = "PARTITION" THEN partitionSlot(args, i + 1)
    ELSE IF i = Len(args) \/ args[i + 1].n \notin 0 .. Len(args) - i - 1 THEN Unrouted
    ELSE oneSlot({partitionSlot(args, j) : j \in i + 2 .. i + 1 + args[i + 1].n})

\* flowValueMGetRoutingRefs
valueRefs(args) ==
    LET n == Len(args) IN
    IF n > 2 /\ token(args, n - 1) \in {"MAX_BYTES", "MAXBYTES"} /\ ~ args[n].text THEN 2 .. n - 2 ELSE 2 .. n

\* A value put belongs to its owner when it is named.
valueOwnerSlot(args) ==
    LET owner == optionsNamed(args, {"OWNER_FLOW_ID"})
        named == optionsNamed(args, {"NAME"})
    IN IF owner # {} /\ named # {} /\ \A o \in {owner, named} : firstOf(o) < Len(args) /\ args[firstOf(o) + 1].text
       THEN AutoSlot[args[firstOf(owner) + 1].v] ELSE Unrouted

\* The slot of a FLOW command; Unrouted ones use the control connection.
flowRoutingKey(args) ==
    LET name == args[1].v
        partitions == optionsNamed(args, {"PARTITION", "PARTITIONS"})
    IN CASE Len(args) = 1 \/ name \in {"FLOW.QUERY", "FLOW.QUERY.INDEXES"} \cup flowScheduleCommands -> Unrouted
         [] name = "FLOW.VALUE.MGET" -> oneSlot(slotsOf(args, valueRefs(args)))
         [] name \in scopedByFirst -> FlowSlot[args[2].v]
         [] name \in batchCommands ->
                IF ~ args[2].text \/ token(args, 2) \in {"AUTO", "MIXED"} THEN Unrouted ELSE FlowSlot[args[2].v]
         [] partitions # {} -> partitionOptionSlot(args, firstOf(partitions))
         [] name = "FLOW.VALUE.PUT" -> valueOwnerSlot(args)
         [] name \in typeScopedFlowCommands -> Unrouted
         [] name \in flowStateIDCommands -> AutoSlot[args[2].v]
         [] OTHER -> Unrouted

-----------------------------------------------------------------------------
(* Native requests *)

Table(pairs) == [t \in {p[1] : p \in pairs} |-> (CHOOSE p \in pairs : p[1] = t)[2]]

\* flowAdminMapField and flowAdminListField: options with a name and a value, and options that repeat.
mapFields ==
    Table({<<"ATTRIBUTE", "attributes">>, <<"ATTRIBUTE_MERGE", "attributes_merge">>, <<"STATE_META", "state_meta">>,
           <<"VALUE", "values">>, <<"VALUE_REF", "value_refs">>})

listFields ==
    Table({<<"ATTRIBUTE_DELETE", "attributes_delete">>, <<"DROP_VALUE", "drop_values">>,
           <<"OVERRIDE_VALUE", "override_values">>, <<"IF_STATE", "if_state">>})

scheduleFields ==
    Table({<<"KIND", "kind">>, <<"TARGET", "target">>, <<"AT_MS", "at_ms">>, <<"FIRE_AT_MS", "fire_at_ms">>,
           <<"DELAY_MS", "delay_ms">>, <<"START_AT_MS", "start_at_ms">>, <<"EVERY_MS", "every_ms">>, <<"CRON", "cron">>,
           <<"TIMEZONE", "timezone">>, <<"NOW", "now_ms">>, <<"OVERWRITE", "overwrite">>,
           <<"CATCHUP_POLICY", "catchup_policy">>, <<"OVERLAP_POLICY", "overlap_policy">>,
           <<"OVERLAP_RETRY_MS", "overlap_retry_ms">>, <<"MAX_FIRES", "max_fires">>, <<"END_AT_MS", "end_at_ms">>,
           <<"WORKER", "worker">>, <<"LIMIT", "limit">>, <<"LEASE_MS", "lease_ms">>, <<"BLOCK", "block_ms">>,
           <<"STATE", "state">>, <<"TARGET_TYPE", "target_type">>, <<"FROM_MS", "from_ms">>, <<"TO_MS", "to_ms">>,
           <<"COUNT", "count">>, <<"DEADLINE_MS", "deadline_ms">>})

\* flowAdminNativeField: the options of a flow and its history ...
flowFields ==
    {<<"TYPE", "type">>, <<"INITIAL_STATE", "initial_state">>, <<"WORKER", "worker">>, <<"LEASE_MS", "lease_ms">>,
     <<"COUNT", "count">>, <<"PAYLOAD", "payload">>, <<"RESULT", "result">>, <<"STATES", "states">>,
     <<"SIGNAL", "signal">>, <<"STEPS", "steps">>, <<"ITEMS", "items">>, <<"PARENT_FLOW_ID", "parent_flow_id">>,
     <<"ROOT_FLOW_ID", "root_flow_id">>, <<"CORRELATION_ID", "correlation_id">>, <<"PRIORITY", "priority">>,
     <<"RUN_AT", "run_at_ms">>, <<"IDEMPOTENT", "idempotent">>, <<"INDEPENDENT", "independent">>,
     <<"RETENTION_TTL_MS", "retention_ttl_ms">>, <<"MAX_ACTIVE_MS", "max_active_ms">>, <<"STATE", "state">>,
     <<"FROM_MS", "from_ms">>, <<"TO_MS", "to_ms">>, <<"FROM_EVENT", "from_event">>, <<"FROM_VERSION", "from_version">>,
     <<"TO_VERSION", "to_version">>, <<"EVENT", "event">>, <<"VALUES", "values">>,
     <<"PAYLOAD_MAX_BYTES", "payload_max_bytes">>, <<"MAXBYTES", "payload_max_bytes">>, <<"REV", "rev">>,
     <<"TERMINAL_ONLY", "terminal_only">>, <<"INCLUDE_COLD", "include_cold">>,
     <<"CONSISTENT_PROJECTION", "consistent_projection">>, <<"RECLAIM_EXPIRED", "reclaim_expired">>,
     <<"RECLAIM_RATIO", "reclaim_ratio">>, <<"BLOCK", "block_ms">>, <<"RETURN", "return">>}

\* ... of its mutations and of governance.  Words that no method sends are left out.
governanceFields ==
    {<<"PARTITION", "partition_key">>, <<"LEASE_TOKEN", "lease_token">>, <<"FENCING", "fencing_token">>,
     <<"EFFECT_KEY", "effect_key">>, <<"EFFECT_TYPE", "effect_type">>, <<"OPERATION_DIGEST", "operation_digest">>,
     <<"IDEMPOTENCY", "idempotency_key">>, <<"IDEMPOTENCY_KEY", "idempotency_key">>,
     <<"TRANSITION_TO", "transition_to">>, <<"GOVERNANCE_SCOPE", "governance_scope">>, <<"EXTERNAL_ID", "external_id">>,
     <<"ERROR", "error">>, <<"REASON", "reason">>, <<"LATENCY_MS", "latency_ms">>, <<"FLOW_ID", "flow_id">>,
     <<"SCOPE", "scope">>, <<"REQUESTED_BY", "requested_by">>, <<"ASSIGNEES", "assignees">>,
     <<"POLICY_HASH", "policy_hash">>, <<"POLICY_VERSION", "policy_version">>, <<"TIMEOUT_MS", "timeout_ms">>,
     <<"EXPIRES_AT_MS", "expires_at_ms">>, <<"APPROVER", "approver">>, <<"STATUS", "status">>, <<"OPEN_MS", "open_ms">>,
     <<"FAILURE_THRESHOLD", "failure_threshold">>, <<"MIN_CALLS", "min_calls">>,
     <<"FAILURE_RATE_PCT", "failure_rate_pct">>, <<"LATENCY_THRESHOLD_MS", "latency_threshold_ms">>,
     <<"ERROR_CLASSES", "error_classes">>, <<"HALF_OPEN_MAX_PROBES", "half_open_max_probes">>,
     <<"HALF_OPEN_SUCCESS_THRESHOLD", "half_open_success_threshold">>, <<"AMOUNT", "amount">>, <<"LIMIT", "limit">>,
     <<"WINDOW_MS", "window_ms">>, <<"RESERVATION_ID", "reservation_id">>, <<"RESERVATION_IDS", "reservation_ids">>,
     <<"ACTUAL_AMOUNT", "actual_amount">>, <<"USAGE", "usage">>, <<"SHARD_ID", "shard_id">>, <<"TTL_MS", "ttl_ms">>,
     <<"TTL", "ttl_ms">>, <<"TO_EVENT", "to_event">>, <<"EXPECT_STATE", "expect_state">>, <<"GROUP", "group_id">>,
     <<"WAIT", "wait">>, <<"WAIT_STATE", "wait_state">>, <<"SUCCESS", "success">>, <<"FAILURE", "failure">>,
     <<"FROM_STATE", "from_state">>, <<"ON_CHILD_FAILED", "on_child_failed">>, <<"ON_PARENT_CLOSED", "on_parent_closed">>,
     <<"NOW", "now_ms">>, <<"DEADLINE_MS", "deadline_ms">>}

adminFields == Table(flowFields \cup governanceFields) @@ scheduleFields

\* Fields whose text must read as a boolean (flowAdminNativeValue, scheduleNativeValue).
booleanFields ==
    {"rev", "terminal_only", "include_cold", "consistent_projection", "idempotent", "independent", "override", "values",
     "reclaim_expired", "overwrite", "replace"}

fits(field, a) == field \in booleanFields => a.text /\ a.v \in {"TRUE", "FALSE"}

\* The marks of a list that is not understood, and of one that is an error.
Declined == {<<"declined", 0, 0>>}
Refused == {<<"refused", 0, 0>>}

\* One field: a later value replaces an earlier one.
put(done, field, i) == {x \in done : x[1] # field \/ x[2] # 0} \cup {<<field, 0, i>>}

leading(fields) == {<<fields[i], 0, i + 1>> : i \in DOMAIN fields}

RECURSIVE appendFlowAdminOptions(_, _, _, _)
appendFlowAdminOptions(done, args, i, last) ==
    LET t == token(args, i)
        width == IF t \in DOMAIN mapFields THEN 3 ELSE 2
        more(fields) == appendFlowAdminOptions(fields, args, i + width, last)
    IN IF i > last THEN done
       ELSE IF i + width - 1 > last THEN Refused
       ELSE CASE t \in DOMAIN mapFields -> more(done \cup {<<mapFields[t], 0, i + 1>>, <<mapFields[t], 0, i + 2>>})
              [] t \in DOMAIN listFields -> more(done \cup {<<listFields[t], 0, i + 1>>})
              [] t \in DOMAIN adminFields /\ fits(adminFields[t], args[i + 1]) -> more(put(done, adminFields[t], i + 1))
              [] OTHER -> Declined

buildFlowAdminNative(args, fields) ==
    IF Len(args) <= Len(fields) THEN Refused
    ELSE appendFlowAdminOptions(leading(fields), args, Len(fields) + 2, Len(args))

\* appendFlowQueryOptions: payload words without a value, names of values, partitions and, for claims, several states.
RECURSIVE appendFlowQueryOptions(_, _, _)
appendFlowQueryOptions(done, args, i) ==
    LET t == token(args, i)
        n == Len(args)
        more(fields, width) == IF i + width - 1 > n THEN Refused ELSE appendFlowQueryOptions(fields, args, i + width)
        several == IF i < n /\ args[i + 1].n \in 1 .. n - i - 1 THEN args[i + 1].n ELSE n
        states == t = "STATE" /\ args[1].v \in claims
    IN IF i > n THEN done
       ELSE CASE t \in {"NOPAYLOAD", "PAYLOAD"} -> more(done \cup {<<"payload", 0, i>>}, 1)
              [] t = "VALUE" -> more(done \cup {<<"values", 0, i + 1>>}, 2)
              [] t = "PARTITIONS" -> more(done \cup {<<"partition_keys", 0, j>> : j \in i + 2 .. i + 1 + several}, 2 + several)
              [] states -> more(done \cup {<<"states", 0, i + 1>>}, 2)
              [] t = "ATTRIBUTE" -> more(done \cup {<<"attributes", 0, i + 1>>, <<"attributes", 0, i + 2>>}, 3)
              [] t \in DOMAIN adminFields \ {"PAYLOAD"} /\ ~ states ->
                     IF i < n /\ ~ fits(adminFields[t], args[i + 1]) THEN Declined ELSE more(put(done, adminFields[t], i + 1), 2)
              [] OTHER -> Declined

buildFlowQueryNative(args, fields) ==
    IF Len(args) <= Len(fields) THEN Refused ELSE appendFlowQueryOptions(leading(fields), args, Len(fields) + 2)

\* appendScheduleOptions and buildFlowValuePutNative: pairs of a word and a value, from position i on.
pairsOf(table, args, i) ==
    LET at == {j \in i .. Len(args) : (j - i) % 2 = 0}
        known(j) == token(args, j) \in DOMAIN table /\ fits(table[token(args, j)], args[j + 1])
        later(j, k) == k > j /\ table[token(args, j)] = table[token(args, k)]
    IN IF Len(args) \in at THEN Refused
       ELSE IF \E j \in at : ~ known(j) THEN Declined
       ELSE {<<table[token(args, j)], 0, j + 1>> : j \in {k \in at : \A l \in at : ~ later(k, l)}}

putFields ==
    Table({<<"PARTITION", "partition_key">>, <<"OWNER_FLOW_ID", "owner_flow_id">>, <<"NAME", "name">>,
           <<"OVERRIDE", "override">>, <<"TTL", "ttl_ms">>, <<"NOW", "now_ms">>})

-----------------------------------------------------------------------------
(* Batches: options, a word that opens the items, and the items *)

itemWords == {"ITEMS", "ITEMS_EXT", "ITEMS_MAPS"}

\* Mutant: the marker is looked for at every position, values included.
flowItemMarkerAnywhere(args, i) ==
    LET found == {k \in i .. Len(args) : token(args, k) \in itemWords}
    IN IF found = {} THEN 0 ELSE firstOf(found)

\* The position of that word, 0 when there is none.
RECURSIVE flowItemMarker(_, _)
flowItemMarker(args, i) ==
    LET width == IF token(args, i) \in DOMAIN mapFields THEN 3 ELSE 2
    IN IF i > Len(args) THEN 0
       ELSE IF token(args, i) \in itemWords THEN i
       ELSE IF i + width - 1 > Len(args) THEN 0
       ELSE flowItemMarker(args, i + width)

\* Items of one width, from position i on.
itemsOf(args, i, fields) ==
    IF i > Len(args) \/ (Len(args) - i + 1) % Len(fields) # 0 THEN Refused
    ELSE {<<fields[((j - i) % Len(fields)) + 1], ((j - i) \div Len(fields)) + 1, j>> : j \in i .. Len(args)}

\* parseFlowMappedItems: a count and as many maps.
mappedItems(args, i) ==
    IF i > Len(args) \/ args[i].text \/ args[i].n # Len(args) - i THEN Refused
    ELSE {<<"map", j - i, j>> : j \in i + 1 .. Len(args)}

\* parseFlowCreateManyExtendedItems and parseFlowSpawnExtendedItems: after its fields, an item counts and lists its
\* values and its references; "-" stands for no partition, but not in a mixed batch.
RECURSIVE extendedItems(_, _, _, _, _, _)
extendedItems(args, i, item, count, fields, mixed) ==
    LET n == Len(args)
        v == i + Len(fields)                                             \* the number of values
        r == IF v <= n THEN v + 1 + 2 * args[v].n ELSE n + 1             \* the number of references
        next == IF r <= n THEN r + 1 + 2 * args[r].n ELSE n + 2
    IN IF item > count THEN IF i = n + 1 THEN {} ELSE Refused
       ELSE IF next > n + 1 \/ args[v].text \/ args[r].text THEN Refused
       ELSE {<<fields[j - i + 1], item, j>> :
                j \in {k \in i .. v - 1 : k = i + 1 /\ ~ mixed => args[k].v # "-"}}
            \cup {<<"values", item, j>> : j \in v + 1 .. r - 1}
            \cup {<<"value_refs", item, j>> : j \in r + 1 .. next - 1}
            \cup extendedItems(args, next, item + 1, count, fields, mixed)

countedItems(args, i, fields, mixed) ==
    IF i > Len(args) \/ args[i].text \/ args[i].n <= 0 THEN Refused ELSE extendedItems(args, i + 1, 1, args[i].n, fields, mixed)

\* parseFlowSpawnItems: MIXED says that every child names its partition.
spawnItems(args, i) ==
    IF i <= Len(args) /\ token(args, i) = "MIXED" THEN itemsOf(args, i + 1, <<"id", "partition_key", "type", "payload">>)
    ELSE itemsOf(args, i, <<"id", "type", "payload">>)

buildFlowSpawnChildrenNative(args) ==
    LET at == flowItemMarker(args, 3)
    IN IF Len(args) = 1 THEN Refused
       ELSE IF at = 0 THEN Declined
       ELSE appendFlowAdminOptions(leading(<<"id">>), args, 3, at - 1)
            \cup (CASE token(args, at) = "ITEMS_MAPS" -> mappedItems(args, at + 1)
                    [] token(args, at) = "ITEMS_EXT" ->
                           countedItems(args, at + 1, <<"id", "partition_key", "type", "payload">>, FALSE)
                    [] OTHER -> spawnItems(args, at + 1))

\* The partition of a batch, unless the word in its place says that there is none.
batchPartition(args, words) == IF token(args, 2) \in words THEN {} ELSE {<<"partition_key", 0, 2>>}

buildFlowCreateManyExtendedNative(args, at) ==
    appendFlowAdminOptions({}, args, 3, at - 1)
    \cup (IF token(args, at) = "ITEMS_MAPS" THEN mappedItems(args, at + 1)
          ELSE countedItems(args, at + 1, <<"id", "partition_key", "payload">>, token(args, 2) = "MIXED"))
    \cup batchPartition(args, {"AUTO", "MIXED", "NONE", ""})

\* parseFlowOptionsUntilItems: pairs without repetition; the positions of the options and of the items' word.
RECURSIVE optionsUntilItems(_, _, _)
optionsUntilItems(args, i, seen) ==
    IF i > Len(args) THEN [ok |-> FALSE]
    ELSE IF token(args, i) \in {"ITEMS", "ITEMS_EXT"} THEN [ok |-> token(args, i) = "ITEMS", options |-> seen, items |-> i]
    ELSE IF \E j \in seen : token(args, j) = token(args, i) THEN [ok |-> FALSE]
    ELSE optionsUntilItems(args, i + 2, seen \cup {i})

\* The compact form of a batch: a few options, and items of the given fields.
compactBatch(args, required, allowed, fields) ==
    LET o == optionsUntilItems(args, 3, {})
        names == {token(args, i) : i \in o.options}
        items == itemsOf(args, o.items + 1, fields)
    IN IF \/ ~ o.ok \/ ~ (required \subseteq names /\ names \subseteq required \cup allowed)
          \/ items = Refused
          \/ \E x \in items : args[x[3]].text = (x[1] = "fencing_token")
          \/ \E i \in o.options : token(args, i) \in {"NOW", "RUN_AT"} /\ args[i + 1].text
       THEN Declined
       ELSE {<<adminFields[token(args, i)], 0, i + 1>> : i \in o.options} \cup items

buildFlowCreateManyNative(args) ==
    LET at == flowItemMarker(args, 3)
        mixed == token(args, 2) = "MIXED"
    IN IF Len(args) < 3 THEN Declined
       ELSE IF at # 0 /\ token(args, at) # "ITEMS" THEN buildFlowCreateManyExtendedNative(args, at)
       ELSE compactBatch(args, {"TYPE", "STATE", "NOW"}, {"RUN_AT", "INDEPENDENT"},
                         IF mixed THEN <<"id", "partition_key", "payload">> ELSE <<"id", "payload">>)
            \cup batchPartition(args, {"AUTO", "MIXED", "NONE", ""})

\* The fields of an item of each batch.
manyFields(name) ==
    CASE name = "FLOW.TRANSITION_MANY" -> <<"fencing_token", "lease_token">>
      [] name = "FLOW.CANCEL_MANY" -> <<"fencing_token">>
      [] OTHER -> <<"lease_token", "fencing_token">>

itemFields(args) ==
    (IF token(args, 2) = "MIXED" THEN <<"id", "partition_key">> ELSE <<"id">>) \o manyFields(args[1].v)

buildFlowMutationManyNative(args) ==
    LET first == IF args[1].v = "FLOW.TRANSITION_MANY" THEN 5 ELSE 3
        at == flowItemMarker(args, first)
    IN IF Len(args) < first - 1 THEN Refused
       ELSE IF at = 0 \/ token(args, at) # "ITEMS" THEN Declined
       ELSE appendFlowAdminOptions(IF first = 5 THEN {<<"from_state", 0, 3>>, <<"to_state", 0, 4>>} ELSE {},
                                   args, first, at - 1)
            \cup itemsOf(args, at + 1, itemFields(args)) \cup batchPartition(args, {"MIXED"})

buildFlowCompleteManyAnyNative(args) ==
    LET compact == compactBatch(args, {"NOW"}, {"INDEPENDENT"}, itemFields(args))
    IN IF Len(args) < 3 \/ compact = Declined THEN buildFlowMutationManyNative(args)
       ELSE compact \cup batchPartition(args, {"MIXED"})

-----------------------------------------------------------------------------
(* Claims, values, queries, policies, schedules *)

claimOptions ==
    {"STATE", "WORKER", "LEASE_MS", "LIMIT", "NOW", "PARTITION", "PARTITIONS", "RETURN", "BLOCK", "RECLAIM_EXPIRED",
     "RECLAIM_RATIO", "PRIORITY"}

\* compactClaimReturnMode, in the spellings the client uses.
compactReturns == {"JOBS_COMPACT", "JOBS_COMPACT_STATE", "JOBS_COMPACT_ATTRS", "JOBS_COMPACT_STATE_ATTRS"}

\* buildFlowClaimDueNative: the compact claim has no room for NOW, for a repeated option or for one it does not know;
\* what it declines, NOW first of all, goes the way of the queries.
compactClaim(args) ==
    LET at == flowOptions(args, 3)
        names == {token(args, i) : i \in at}
        plain == {i \in at : token(args, i) # "PARTITIONS"}
        numbers == {"LEASE_MS", "LIMIT", "BLOCK", "RECLAIM_RATIO", "PRIORITY"}
    IN IF \/ Cardinality(names) # Cardinality(at) \/ ~ (names \subseteq claimOptions) \/ "NOW" \in names
          \/ ~ ({"WORKER", "LEASE_MS", "LIMIT"} \subseteq names) \/ {"PARTITION", "PARTITIONS"} \subseteq names
          \/ Len(args) \in at
          \/ \E i \in at \ plain : args[i + 1].n \notin 1 .. Len(args) - i - 1
          \/ \E i \in plain : args[i + 1].text = (token(args, i) \in numbers)
          \/ \E i \in plain : token(args, i) = "RETURN" /\ token(args, i + 1) \notin compactReturns
       THEN Declined
       ELSE {<<"type", 0, 2>>} 
            \cup {<<IF token(args, i) = "STATE" THEN "states" ELSE adminFields[token(args, i)], 0, i + 1>> : i \in plain}
            \cup UNION {{<<"partition_keys", 0, j>> : j \in i + 2 .. i + 1 + args[i + 1].n} : i \in at \ plain}

buildFlowClaimDueAnyNative(args) ==
    IF compactClaim(args) # Declined THEN compactClaim(args) ELSE buildFlowQueryNative(args, <<"type">>)

buildFlowValuePutNative(args) == IF Len(args) = 1 THEN Refused ELSE leading(<<"value">>) \cup pairsOf(putFields, args, 3)

buildFlowValueMGetNative(args) ==
    LET n == Len(args)
        bounded == n > 2 /\ token(args, n - 1) \in {"MAX_BYTES", "MAXBYTES"}
        refs == IF bounded THEN 2 .. n - 2 ELSE 2 .. n
    IN IF refs = {} \/ (bounded /\ args[n].text) \/ \E i \in refs : ~ args[i].text THEN Refused
       ELSE {<<"refs", 0, i>> : i \in refs} \cup (IF bounded THEN {<<"max_bytes", 0, n>>} ELSE {})

\* The names of the parameters are texts that differ.
buildFlowQueryRequestNative(args) ==
    LET names == {i \in 4 .. Len(args) : i % 2 = 0}
    IN IF \/ Len(args) < 3 \/ Len(args) % 2 = 0 \/ ~ args[2].text \/ ~ args[3].text
          \/ \E i \in names : ~ args[i].text \/ \E j \in names : j # i /\ args[j].v = args[i].v
       THEN Refused
       ELSE {<<"version", 0, 2>>, <<"query", 0, 3>>} \cup {<<"params", 0, i>> : i \in 4 .. Len(args)}

\* putFlowPolicyOption: what a type and what a state may set.
typePolicyFields ==
    Table({<<"REPLACE", "replace">>, <<"EXPECTED_GENERATION", "expected_generation">>,
           <<"INDEXED_ATTRIBUTES", "indexed_attributes">>, <<"INDEXED_STATE_META", "indexed_state_meta">>,
           <<"MAX_ACTIVE_MS", "max_active_ms">>})

retryPolicyFields ==
    Table({<<"MAX_RETRIES", "max_retries">>, <<"EXHAUSTED_TO", "exhausted_to">>, <<"BACKOFF", "backoff">>,
           <<"BASE_MS", "base_ms">>, <<"MAX_MS", "max_ms">>, <<"JITTER_PCT", "jitter_pct">>})

\* STATE opens the section of a state, up to the next one; "item" counts the sections.
RECURSIVE policyOptions(_, _, _, _)
policyOptions(done, args, i, item) ==
    LET t == token(args, i)
        table == retryPolicyFields @@ (IF item = 0 THEN typePolicyFields ELSE Table({<<"MODE", "mode">>}))
    IN IF i > Len(args) THEN done
       ELSE IF i = Len(args) THEN Refused
       ELSE IF t = "STATE" THEN policyOptions(done \cup {<<"state", item + 1, i + 1>>}, args, i + 2, item + 1)
       ELSE IF t \notin DOMAIN table \/ ~ fits(table[t], args[i + 1]) THEN Refused
       ELSE policyOptions(done \cup {<<table[t], item, i + 1>>}, args, i + 2, item)

buildFlowPolicySetNative(args) ==
    IF Len(args) = 1 THEN Refused ELSE policyOptions(leading(<<"type">>), args, 3, 0)

buildFlowScheduleNative(args) ==
    IF args[1].v \in {"FLOW.SCHEDULE.FIRE_DUE", "FLOW.SCHEDULE.LIST"} THEN pairsOf(scheduleFields, args, 2)
    ELSE IF Len(args) = 1 THEN Refused
    ELSE leading(<<"id">>) \cup pairsOf(scheduleFields, args, 3)

-----------------------------------------------------------------------------
(* buildFlowNativeCommand *)

\* The commands built by buildFlowAdminNative, and their leading fields.
adminCommands ==
    Table({<<"FLOW.TRANSITION", <<"id", "from_state", "to_state">>>>, <<"FLOW.POLICY.GET", <<"type">>>>,
           <<"FLOW.STEP_CONTINUE", <<"id", "lease_token", "from_state", "to_state">>>>}
          \cup {<<name, <<"id", "lease_token">>>> :
                name \in {"FLOW.COMPLETE", "FLOW.RETRY", "FLOW.FAIL", "FLOW.EXTEND_LEASE"}}
          \cup {<<name, <<"id">>>> :
                name \in {"FLOW.CREATE", "FLOW.CANCEL", "FLOW.REWIND", "FLOW.START_AND_CLAIM", "FLOW.SIGNAL",
                          "FLOW.EFFECT.RESERVE", "FLOW.EFFECT.CONFIRM", "FLOW.EFFECT.FAIL", "FLOW.EFFECT.COMPENSATE",
                          "FLOW.EFFECT.GET", "FLOW.GOVERNANCE.LEDGER", "FLOW.APPROVAL.REQUEST",
                          "FLOW.APPROVAL.APPROVE", "FLOW.APPROVAL.REJECT", "FLOW.APPROVAL.GET"}}
          \cup {<<name, <<"scope">>>> :
                name \in {"FLOW.CIRCUIT.OPEN", "FLOW.CIRCUIT.CLOSE", "FLOW.CIRCUIT.GET", "FLOW.BUDGET.RESERVE",
                          "FLOW.BUDGET.COMMIT", "FLOW.BUDGET.RELEASE", "FLOW.BUDGET.GET", "FLOW.LIMIT.LEASE",
                          "FLOW.LIMIT.SPEND", "FLOW.LIMIT.RELEASE", "FLOW.LIMIT.GET"}}
          \cup {<<name, <<>>>> :
                name \in {"FLOW.RUN_STEPS_MANY", "FLOW.APPROVAL.LIST", "FLOW.GOVERNANCE.OVERVIEW", "FLOW.BUDGET.LIST",
                          "FLOW.LIMIT.LIST"}})

\* The ones built by buildFlowQueryNative.
queryCommands ==
    Table({<<"FLOW.GET", <<"id">>>>, <<"FLOW.HISTORY", <<"id">>>>, <<"FLOW.RECLAIM", <<"type">>>>,
           <<"FLOW.INFO", <<"type">>>>, <<"FLOW.RETENTION_CLEANUP", <<>>>>, <<"FLOW.STATS", <<"type">>>>,
           <<"FLOW.ATTRIBUTES", <<"type">>>>, <<"FLOW.ATTRIBUTE_VALUES", <<"type", "attribute">>>>})

buildFlowNativeCommand(args) ==
    LET name == args[1].v
    IN CASE name \in DOMAIN adminCommands -> buildFlowAdminNative(args, adminCommands[name])
         [] name \in DOMAIN queryCommands -> buildFlowQueryNative(args, queryCommands[name])
         [] name = "FLOW.POLICY.SET" -> buildFlowPolicySetNative(args)
         [] name = "FLOW.SPAWN_CHILDREN" -> buildFlowSpawnChildrenNative(args)
         [] name = "FLOW.CREATE_MANY" -> buildFlowCreateManyNative(args)
         [] name = "FLOW.CLAIM_DUE" -> buildFlowClaimDueAnyNative(args)
         [] name = "FLOW.QUERY" -> buildFlowQueryRequestNative(args)
         [] name = "FLOW.COMPLETE_MANY" -> buildFlowCompleteManyAnyNative(args)
         [] name \in {"FLOW.TRANSITION_MANY", "FLOW.RETRY_MANY", "FLOW.FAIL_MANY", "FLOW.CANCEL_MANY"} ->
                buildFlowMutationManyNative(args)
         [] name = "FLOW.VALUE.PUT" -> buildFlowValuePutNative(args)
         [] name = "FLOW.VALUE.MGET" -> buildFlowValueMGetNative(args)
         [] name \in flowScheduleCommands -> buildFlowScheduleNative(args)
         [] OTHER -> Declined

=============================================================================
