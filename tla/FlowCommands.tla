---------------------------- MODULE FlowCommands ----------------------------
(***************************************************************************)
(* The FLOW commands that the client's methods send: one definition per    *)
(* group of methods, its arguments in the order of the source, each option *)
(* present or absent.  The role of an argument is the option it is the     *)
(* value of, or, for leading arguments and the fields of an item, their    *)
(* name; "item" counts the items of a batch.  One text of a call at a time *)
(* is a word of the grammar (Tricky), the others are plain.                *)
(***************************************************************************)
EXTENDS Stores

CONSTANTS
    Tricky,         \* texts that are words of the grammar
    MaxOptions      \* options of one call

FlowArg(role, item, text, v, n) == [role |-> role, item |-> item, text |-> text, v |-> v, n |-> n]

Txt(role, item) == {<<FlowArg(role, item, TRUE, "plain", 0)>>}
Fixed(role, v) == {<<FlowArg(role, 0, TRUE, v, 0)>>}
Numeric(role, item) == {<<FlowArg(role, item, FALSE, "", 1)>>}

\* What follows each word: two arguments, a boolean (appendBoolPtr), one of a few words, a number, or a text.
Pairwise == {"ATTRIBUTE", "ATTRIBUTE_MERGE", "STATE_META", "VALUE", "VALUE_REF"}

Booleans ==
    {"IDEMPOTENT", "INDEPENDENT", "REV", "TERMINAL_ONLY", "INCLUDE_COLD", "CONSISTENT_PROJECTION", "VALUES",
     "RECLAIM_EXPIRED", "OVERRIDE", "OVERWRITE", "REPLACE"}

Enumerated ==
    {"WAIT", "ON_CHILD_FAILED", "ON_PARENT_CLOSED", "STATUS", "KIND", "CATCHUP_POLICY", "OVERLAP_POLICY", "BACKOFF",
     "MODE"}

Texts ==
    {"TYPE", "STATE", "INITIAL_STATE", "WORKER", "PARTITION", "PAYLOAD", "RESULT", "PARENT_FLOW_ID", "ROOT_FLOW_ID",
     "CORRELATION_ID", "SIGNAL", "IDEMPOTENCY", "TRANSITION_TO", "IF_STATE", "LEASE_TOKEN", "ERROR", "REASON",
     "TO_EVENT", "FROM_EVENT", "EVENT", "EXPECT_STATE", "GROUP", "WAIT_STATE", "SUCCESS", "FAILURE", "FROM_STATE",
     "OWNER_FLOW_ID", "NAME", "ATTRIBUTE_DELETE", "DROP_VALUE", "OVERRIDE_VALUE", "EFFECT_KEY", "EFFECT_TYPE",
     "OPERATION_DIGEST", "IDEMPOTENCY_KEY", "GOVERNANCE_SCOPE", "EXTERNAL_ID", "FLOW_ID", "SCOPE", "REQUESTED_BY",
     "POLICY_HASH", "POLICY_VERSION", "APPROVER", "RESERVATION_ID", "SHARD_ID", "CRON", "TIMEZONE", "TARGET",
     "TARGET_TYPE", "EXHAUSTED_TO", "INDEXED_STATE_META"}

ValueOf(word, item) ==
    CASE word \in Pairwise -> Join(<<Txt(word, item), Txt(word, item)>>)
      [] word \in Booleans -> Fixed(word, "TRUE")
      [] word \in Enumerated -> Fixed(word, "one")
      [] word \in Texts -> Txt(word, item)
      [] OTHER -> Numeric(word, item)

Must(alternatives) == [optional |-> FALSE, alternatives |-> alternatives]
May(alternatives) == [optional |-> TRUE, alternatives |-> alternatives]

Lead(fields) == [i \in DOMAIN fields |-> Must(Txt(fields[i], 0))]
Req(words) == [i \in DOMAIN words |-> Must(Join(<<Word(words[i]), ValueOf(words[i], 0)>>))]
Opts(words) == [i \in DOMAIN words |-> May(Join(<<Word(words[i]), ValueOf(words[i], 0)>>))]

\* The calls with at most MaxOptions of the optional parts.
Plain(name, parts) ==
    LET with(done, part) ==
            {<<d[1] \o a, d[2] + (IF part.optional THEN 1 ELSE 0)>> : d \in done, a \in part.alternatives}
            \cup (IF part.optional THEN done ELSE {})
        start == {<<w, 0>> : w \in Word(name)}
    IN {d[1] : d \in FoldLeft(LAMBDA done, part : {d \in with(done, part) : d[2] <= MaxOptions}, start, parts)}

\* The calls of a method that has several forms, also with a word of the grammar in the place
\* of one text.
FlowCallForms(name, forms) ==
    LET plain == UNION {Plain(name, parts) : parts \in forms}
        positions == 1..Max({Len(c) : c \in plain})
        with(c, i, w) == IF i \in DOMAIN c /\ c[i].v = "plain" THEN [c EXCEPT ![i].v = w] ELSE c
    IN {with(c, i, w) : c \in plain, i \in positions, w \in Tricky \cup {"plain"}}

FlowCall(name, parts) == FlowCallForms(name, {parts})
FlowCallsOf(names, parts) == UNION {FlowCall(name, parts) : name \in names}

NamedValues == <<"VALUE", "VALUE_REF", "DROP_VALUE", "OVERRIDE_VALUE">>
Metadata == <<"ATTRIBUTE", "STATE_META">>
MetadataChange == <<"ATTRIBUTE_MERGE", "ATTRIBUTE_DELETE", "STATE_META">>

\* appendValueReturn and appendPayloadRead: the names of the values to return, and the words about the payload.
ValueReturn == <<May(Join(<<Word("VALUE"), Txt("values", 0)>>))>>
PayloadRead == <<May(Fixed("payload", "NOPAYLOAD") \cup Join(<<Fixed("payload", "PAYLOAD"), Opt(Join(<<Word("MAXBYTES"), Numeric("MAXBYTES", 0)>>))>>))>>

-----------------------------------------------------------------------------
(* Items: one or two of them *)

Items(parts(_)) == parts(1) \cup Join(<<parts(1), parts(2)>>)

\* The partition of a batch, or the word that says that every item names its own (mixedPartition).
Together == Txt("partition_key", 0)
Mixed == Word("MIXED")

\* appendClaimedItems and appendFencedItems, for a batch of one partition and for a mixed one.
ClaimedItems(first) ==
    LET claimed(k) == Join(first[k] \o <<Txt("lease_token", k), Numeric("fencing_token", k)>>)
    IN Join(<<Word("ITEMS"), Items(claimed)>>)

FencedItems(first, lease) ==
    LET fenced(k) == Join(first[k] \o <<Numeric("fencing_token", k)>> \o (IF lease THEN <<Txt("lease_token", k)>> ELSE <<>>))
    IN Join(<<Word("ITEMS"), Items(fenced)>>)

Own == [k \in 1..2 |-> <<Txt("id", k)>>]
OwnPartition == [k \in 1..2 |-> <<Txt("id", k), Txt("partition_key", k)>>]

\* createManyItemMap and childItemMap: a map with all there is to an item.
MappedItems ==
    LET map(k) == {<<FlowArg("map", k, FALSE, "", 0)>>}
    IN UNION {Join(<<Word("ITEMS_MAPS"), {Number(Len(m))}, {m}>>) : m \in Items(map)}

\* appendNamedCounts: the values and the references of an item, counted.
NamedCounts(k) ==
    Join(<<{Number(0)} \cup Join(<<{Number(1)}, Txt("values", k), Txt("values", k)>>),
           {Number(0)} \cup Join(<<{Number(1)}, Txt("value_refs", k), Txt("value_refs", k)>>)>>)

ExtendedItems(first, last) ==
    LET item(k) == Join(first[k] \o [i \in DOMAIN last |-> Txt(last[i], k)] \o <<NamedCounts(k)>>)
    IN Join(<<Word("ITEMS_EXT"), {Number(1)}, item(1)>>) \cup Join(<<Word("ITEMS_EXT"), {Number(2)}, item(1), item(2)>>)

NoPartition == [k \in 1..2 |-> <<Txt("id", k), Word("-")>>]

ItemsOf(first, last) ==
    LET item(k) == Join(first[k] \o [i \in DOMAIN last |-> Txt(last[i], k)]) IN Items(item)

-----------------------------------------------------------------------------
(* Methods *)

\* client_flow.go: Create, then Signal and StartAndClaim.
CreateCalls ==
    FlowCall("FLOW.CREATE",
        Lead(<<"id">>) \o Req(<<"TYPE", "STATE", "NOW">>)
        \o Opts(<<"PARTITION", "PAYLOAD", "PARENT_FLOW_ID", "ROOT_FLOW_ID", "CORRELATION_ID">>) \o Req(<<"RUN_AT">>)
        \o Opts(<<"PRIORITY", "IDEMPOTENT", "RETENTION_TTL_MS", "MAX_ACTIVE_MS">> \o Metadata \o <<"VALUE", "VALUE_REF">>))

SignalCalls ==
    UNION { FlowCall("FLOW.START_AND_CLAIM",
                Lead(<<"id">>) \o Req(<<"TYPE", "INITIAL_STATE", "WORKER", "LEASE_MS", "NOW">>)
                \o Opts(<<"PARTITION", "PAYLOAD", "PARENT_FLOW_ID", "ROOT_FLOW_ID", "CORRELATION_ID", "PRIORITY",
                          "RETENTION_TTL_MS", "MAX_ACTIVE_MS">> \o Metadata \o <<"VALUE", "VALUE_REF">>)),
            FlowCall("FLOW.SIGNAL",
                Lead(<<"id">>) \o Req(<<"SIGNAL">>)
                \o Opts(<<"PARTITION", "IDEMPOTENCY", "IF_STATE", "IF_STATE", "TRANSITION_TO", "RUN_AT">>)
                \o Req(<<"NOW">>) \o Opts(NamedValues)) }

\* CreateMany: the partition of all, AUTO, or MIXED with one per item.
CreateManyCalls ==
    LET options == Req(<<"TYPE", "STATE", "NOW", "RUN_AT">>)
                   \o Opts(<<"PRIORITY", "IDEMPOTENT", "INDEPENDENT", "RETENTION_TTL_MS", "MAX_ACTIVE_MS">> \o Metadata)
        named == Opts(<<"VALUE", "VALUE_REF">>)
        together == Together \cup Word("AUTO")
        plainItems(first) == Must(Join(<<Word("ITEMS"), ItemsOf(first, <<"payload">>)>>))
        extended(first) == Must(ExtendedItems(first, <<"payload">>))
    IN FlowCallForms("FLOW.CREATE_MANY",
           { <<Must(together \cup Mixed)>> \o options \o <<Must(MappedItems)>>,
             <<Must(together)>> \o options \o <<extended(NoPartition)>>,
             <<Must(Mixed)>> \o options \o <<extended(OwnPartition)>>,
             <<Must(together)>> \o options \o named \o <<plainItems(Own)>>,
             <<Must(Mixed)>> \o options \o named \o <<plainItems(OwnPartition)>> })

\* claimDue and reclaim.
ClaimCalls ==
    LET states == [i \in 1 .. 2 |-> May(Join(<<Word("STATE"), Txt("states", 0)>>))]
        partitions == <<May({<<Arg("word", TRUE, "PARTITIONS", 0)>> \o Number(Len(p)) \o p : p \in Some(Txt("partition_keys", 0))})>>
        jobs == {"JOBS_COMPACT", "JOBS_COMPACT_ATTRS", "RECORDS"}
        return(modes) == <<Must(Join(<<Word("RETURN"), UNION {Fixed("RETURN", m) : m \in modes}>>))>>
    IN UNION { FlowCall("FLOW.CLAIM_DUE",
                   Lead(<<"type">>) \o states \o Req(<<"WORKER", "LEASE_MS", "LIMIT", "NOW">>) \o Opts(<<"PARTITION">>)
                   \o partitions \o Opts(<<"PRIORITY">>) \o return(jobs \cup {"JOBS_COMPACT_STATE", "JOBS_COMPACT_STATE_ATTRS"})
                   \o Opts(<<"BLOCK">>) \o PayloadRead \o ValueReturn \o Opts(<<"RECLAIM_EXPIRED", "RECLAIM_RATIO">>)),
               FlowCall("FLOW.RECLAIM",
                   Lead(<<"type">>) \o Req(<<"WORKER", "LEASE_MS", "LIMIT", "NOW">>) \o Opts(<<"PARTITION">>) \o partitions
                   \o Opts(<<"PRIORITY">>) \o return(jobs) \o PayloadRead \o ValueReturn) }

\* client_flow_mutations.go: a flow that goes on or completes, and one that does not.
AdvanceCalls ==
    LET changes == NamedValues \o MetadataChange
    IN UNION { FlowCall("FLOW.EXTEND_LEASE", Lead(<<"id", "lease_token">>) \o Req(<<"FENCING", "LEASE_MS", "NOW">>)
                                             \o Opts(<<"PARTITION">>)),
               FlowCall("FLOW.TRANSITION",
                   Lead(<<"id", "from_state", "to_state">>) \o Opts(<<"LEASE_TOKEN">>) \o Req(<<"FENCING", "NOW">>)
                   \o Opts(<<"PARTITION", "PAYLOAD">>) \o Req(<<"RUN_AT">>) \o Opts(<<"PRIORITY">> \o changes)),
               FlowCall("FLOW.STEP_CONTINUE",
                   Lead(<<"id", "lease_token", "from_state", "to_state">>) \o Req(<<"FENCING", "LEASE_MS", "NOW">>)
                   \o Opts(<<"PARTITION", "WORKER", "PAYLOAD">> \o changes)),
               FlowCall("FLOW.COMPLETE", Lead(<<"id", "lease_token">>) \o Req(<<"FENCING", "NOW">>)
                                         \o Opts(<<"PARTITION", "RESULT", "PAYLOAD", "TTL">> \o changes)) }

SetbackCalls ==
    LET changes == NamedValues \o MetadataChange
    IN UNION { FlowCall("FLOW.RETRY", Lead(<<"id", "lease_token">>) \o Req(<<"FENCING", "NOW">>)
                                      \o Opts(<<"PARTITION", "ERROR", "PAYLOAD", "RUN_AT">> \o MetadataChange)),
               FlowCall("FLOW.FAIL", Lead(<<"id", "lease_token">>) \o Req(<<"FENCING", "NOW">>)
                                     \o Opts(<<"PARTITION", "ERROR", "PAYLOAD", "TTL">> \o changes)),
               FlowCall("FLOW.CANCEL", Lead(<<"id">>) \o Req(<<"FENCING", "NOW">>)
                                       \o Opts(<<"LEASE_TOKEN", "PARTITION", "REASON", "TTL">> \o changes)),
               FlowCall("FLOW.REWIND", Lead(<<"id">>) \o Req(<<"TO_EVENT", "NOW">>)
                                       \o Opts(<<"REASON", "PARTITION", "EXPECT_STATE", "RUN_AT">>)) }

\* client_flow_many.go: RunStepsMany, and the batches of mutations.
BatchCalls ==
    LET changes == NamedValues \o MetadataChange
        batch(name, before, options, together, mixed) ==
            LET middle == before \o Opts(options) \o Req(<<"NOW">>)
                          \o Opts(<<"INDEPENDENT">> \o (IF name = "FLOW.RETRY_MANY" THEN MetadataChange ELSE changes))
            IN FlowCall(name, <<Must(Together)>> \o middle \o <<Must(together)>>)
               \cup FlowCall(name, <<Must(Mixed)>> \o middle \o <<Must(mixed)>>)
        claimed(name, options) == batch(name, <<>>, options, ClaimedItems(Own), ClaimedItems(OwnPartition))
    IN UNION { claimed("FLOW.COMPLETE_MANY", <<"RESULT", "PAYLOAD", "TTL">>),
               claimed("FLOW.RETRY_MANY", <<"ERROR", "PAYLOAD", "RUN_AT">>),
               claimed("FLOW.FAIL_MANY", <<"ERROR", "PAYLOAD", "TTL">>),
               batch("FLOW.TRANSITION_MANY", Lead(<<"from_state", "to_state">>), <<"PAYLOAD", "RUN_AT", "PRIORITY">>,
                     FencedItems(Own, TRUE), FencedItems(OwnPartition, TRUE)),
               batch("FLOW.CANCEL_MANY", <<>>, <<"REASON", "TTL">>, FencedItems(Own, FALSE), FencedItems(OwnPartition, FALSE)),
               FlowCall("FLOW.RUN_STEPS_MANY",
                   Req(<<"TYPE">>) \o <<Must(UNION {Join(<<Word(w), Numeric(w, 0)>>) : w \in {"STATES", "STEPS"}})>>
                   \o Req(<<"WORKER", "LEASE_MS", "NOW">>) \o Opts(<<"PAYLOAD", "RESULT", "RETENTION_TTL_MS">>)
                   \o <<Must(Join(<<Word("ITEMS"), Numeric("ITEMS", 0)>>))>>) }

\* client_flow_spawn.go.
SpawnCalls ==
    LET options == Lead(<<"id">>) \o Req(<<"GROUP", "WAIT", "NOW">>)
                   \o Opts(<<"PARTITION", "LEASE_TOKEN", "FENCING", "WAIT_STATE", "SUCCESS", "FAILURE", "FROM_STATE",
                             "ON_CHILD_FAILED", "ON_PARENT_CLOSED", "MAX_ACTIVE_MS">>)
        child == <<"type", "payload">>
    IN FlowCallForms("FLOW.SPAWN_CHILDREN",
           { options \o <<Must(MappedItems)>>,
             options \o <<Must(ExtendedItems(NoPartition, child) \cup ExtendedItems(OwnPartition, child))>>,
             options \o Opts(<<"VALUE", "VALUE_REF">>)
                 \o <<Must(Join(<<Word("ITEMS"), ItemsOf(Own, child)>>)
                           \cup Join(<<Word("ITEMS"), Mixed, ItemsOf(OwnPartition, child)>>))>> })

\* client_flow_values.go.
ValueCalls ==
    FlowCall("FLOW.VALUE.PUT", Lead(<<"value">>) \o Req(<<"NOW">>)
                               \o Opts(<<"PARTITION", "OWNER_FLOW_ID", "NAME", "OVERRIDE", "TTL">>))
    \cup FlowCall("FLOW.VALUE.MGET", <<Must(Some(Txt("refs", 0))), May(Join(<<Word("MAX_BYTES"), Numeric("max_bytes", 0)>>))>>)

\* client_flow_read.go.  List, Search, Terminals, Failures and the lookups by relation are queries.
ReadCalls ==
    UNION { FlowCall("FLOW.GET", Lead(<<"id">>) \o Opts(<<"PARTITION">>) \o ValueReturn \o ValueReturn),
            FlowCall("FLOW.INFO", Lead(<<"type">>) \o Opts(<<"PARTITION", "INCLUDE_COLD", "CONSISTENT_PROJECTION">>)),
            FlowCall("FLOW.HISTORY",
                Lead(<<"id">>) \o Req(<<"COUNT">>)
                \o Opts(<<"PARTITION", "FROM_EVENT", "TO_EVENT", "FROM_MS", "TO_MS", "FROM_VERSION", "TO_VERSION", "REV",
                          "EVENT", "WORKER", "INCLUDE_COLD", "CONSISTENT_PROJECTION", "VALUES", "PAYLOAD_MAX_BYTES">>)) }

\* flow_admin_read.go.
StatisticsCalls ==
    LET read == Opts(<<"COUNT", "PARTITION", "FROM_MS", "TO_MS", "REV", "STATE", "TERMINAL_ONLY", "INCLUDE_COLD",
                       "CONSISTENT_PROJECTION", "ATTRIBUTE">>)
    IN UNION { FlowCallsOf({"FLOW.STATS", "FLOW.ATTRIBUTES"}, Lead(<<"type">>) \o read),
               FlowCall("FLOW.ATTRIBUTE_VALUES", Lead(<<"type", "attribute">>) \o read),
               FlowCall("FLOW.GOVERNANCE.LEDGER", Lead(<<"id">>) \o Opts(<<"PARTITION", "LIMIT", "FROM_MS", "TO_MS", "REV">>)) }

\* flow_query_request.go: the text and its parameters, sorted by name.
QueryCalls ==
    FlowCall("FLOW.QUERY", <<Must(Fixed("version", "FQL1")), Must(Txt("query", 0)),
                             May(Join(<<Fixed("params", "first"), Txt("params", 0)>>)),
                             May(Join(<<Fixed("params", "second"), Txt("params", 0)>>))>>)

\* client_flow_policy.go.
PolicyCalls ==
    LET retry == Opts(<<"MAX_RETRIES", "BACKOFF", "BASE_MS", "MAX_MS", "JITTER_PCT", "EXHAUSTED_TO">>)
        section(k) == Join(<<Word("STATE"), Txt("state", k),
                             Opt(Join(<<Word("MODE"), {<<FlowArg("MODE", k, TRUE, "FIFO", 0)>>}>>)),
                             Opt(Join(<<Word("MAX_RETRIES"), Numeric("MAX_RETRIES", k)>>)),
                             Opt(Join(<<Word("EXHAUSTED_TO"), Txt("EXHAUSTED_TO", k)>>))>>)
    IN FlowCall("FLOW.POLICY.SET",
           Lead(<<"type">>)
           \o Opts(<<"REPLACE", "EXPECTED_GENERATION", "MAX_ACTIVE_MS", "INDEXED_ATTRIBUTES", "INDEXED_STATE_META">>)
           \o retry \o <<May(Items(section))>>)

RetentionCalls ==
    FlowCall("FLOW.POLICY.GET", Lead(<<"type">>) \o Opts(<<"STATE">>))
    \cup FlowCall("FLOW.RETENTION_CLEANUP", Opts(<<"LIMIT", "NOW">>))

\* appendGovernanceScopeFilter: a scope, or else a partition.
ScopeFilter == <<May(Join(<<Word("SCOPE"), Txt("SCOPE", 0)>>) \cup Join(<<Word("PARTITION"), Txt("PARTITION", 0)>>))>>

\* flow_admin.go.
EffectCalls ==
    UNION { FlowCall("FLOW.EFFECT.RESERVE",
                Lead(<<"id">>) \o Req(<<"EFFECT_KEY", "EFFECT_TYPE">>)
                \o Opts(<<"PARTITION", "LEASE_TOKEN", "FENCING", "OPERATION_DIGEST", "IDEMPOTENCY_KEY", "GOVERNANCE_SCOPE", "NOW">>)),
            FlowCallsOf({"FLOW.EFFECT.CONFIRM", "FLOW.EFFECT.FAIL", "FLOW.EFFECT.COMPENSATE"},
                Lead(<<"id">>) \o Req(<<"EFFECT_KEY">>)
                \o Opts(<<"PARTITION", "LEASE_TOKEN", "FENCING", "EXTERNAL_ID", "ERROR", "REASON", "LATENCY_MS", "NOW">>)),
            FlowCall("FLOW.EFFECT.GET", Lead(<<"id">>) \o Req(<<"EFFECT_KEY">>) \o Opts(<<"PARTITION">>)) }

ApprovalCalls ==
    UNION { FlowCall("FLOW.APPROVAL.REQUEST",
                Lead(<<"id">>) \o Opts(<<"FLOW_ID", "SCOPE", "REASON", "REQUESTED_BY", "ASSIGNEES", "POLICY_HASH",
                                         "POLICY_VERSION", "TIMEOUT_MS", "EXPIRES_AT_MS", "NOW">>)),
            FlowCallsOf({"FLOW.APPROVAL.APPROVE", "FLOW.APPROVAL.REJECT"},
                Lead(<<"id">>) \o Req(<<"APPROVER">>) \o Opts(<<"REASON", "NOW">>)),
            FlowCall("FLOW.APPROVAL.GET", Lead(<<"id">>)),
            FlowCall("FLOW.APPROVAL.LIST", Opts(<<"STATUS">>) \o ScopeFilter \o Opts(<<"FLOW_ID", "LIMIT">>)) }

GovernanceCalls ==
    UNION { FlowCall("FLOW.GOVERNANCE.OVERVIEW", ScopeFilter \o Opts(<<"STATUS", "FLOW_ID", "LIMIT">>)),
            FlowCall("FLOW.CIRCUIT.OPEN",
                Lead(<<"scope">>) \o Opts(<<"OPEN_MS", "FAILURE_THRESHOLD", "WINDOW_MS", "MIN_CALLS", "FAILURE_RATE_PCT",
                    "LATENCY_THRESHOLD_MS", "ERROR_CLASSES", "HALF_OPEN_MAX_PROBES", "HALF_OPEN_SUCCESS_THRESHOLD", "NOW",
                    "DEADLINE_MS">>)),
            FlowCall("FLOW.CIRCUIT.CLOSE", Lead(<<"scope">>) \o Opts(<<"NOW">>)),
            FlowCall("FLOW.CIRCUIT.GET", Lead(<<"scope">>)) }

\* flow_budget_limit.go.
BudgetCalls ==
    UNION { FlowCall("FLOW.BUDGET.RESERVE",
                Lead(<<"scope">>) \o Req(<<"AMOUNT">>) \o Opts(<<"LIMIT", "WINDOW_MS", "RESERVATION_ID", "NOW">>)),
            FlowCall("FLOW.BUDGET.COMMIT",
                Lead(<<"scope">>) \o Req(<<"RESERVATION_ID", "ACTUAL_AMOUNT">>) \o Opts(<<"USAGE", "NOW">>)),
            FlowCall("FLOW.BUDGET.RELEASE", Lead(<<"scope">>) \o Req(<<"RESERVATION_ID">>) \o Opts(<<"NOW">>)),
            FlowCall("FLOW.BUDGET.GET", Lead(<<"scope">>)), FlowCall("FLOW.BUDGET.LIST", ScopeFilter \o Opts(<<"LIMIT">>)) }

LimitCalls ==
    UNION { FlowCall("FLOW.LIMIT.LEASE",
                Lead(<<"scope">>) \o Req(<<"SHARD_ID", "AMOUNT", "TTL_MS">>) \o Opts(<<"LIMIT", "NOW">>)),
            FlowCall("FLOW.LIMIT.SPEND", Lead(<<"scope">>) \o Req(<<"SHARD_ID", "AMOUNT">>) \o Opts(<<"NOW">>)),
            FlowCall("FLOW.LIMIT.RELEASE",
                Lead(<<"scope">>) \o Req(<<"SHARD_ID">>) \o Opts(<<"RESERVATION_IDS", "NOW", "DEADLINE_MS">>)),
            FlowCall("FLOW.LIMIT.GET", Lead(<<"scope">>) \o Opts(<<"NOW">>)),
            FlowCall("FLOW.LIMIT.LIST", ScopeFilter \o Opts(<<"LIMIT", "NOW">>)) }

\* flow_schedule.go.
ScheduleCalls ==
    UNION { FlowCall("FLOW.SCHEDULE.CREATE",
                Lead(<<"id">>) \o Opts(<<"KIND", "AT_MS", "DELAY_MS", "START_AT_MS", "EVERY_MS", "CRON", "TIMEZONE", "TARGET",
                    "CATCHUP_POLICY", "OVERLAP_POLICY", "OVERLAP_RETRY_MS", "MAX_FIRES", "END_AT_MS", "OVERWRITE", "NOW",
                    "DEADLINE_MS">>)),
            FlowCall("FLOW.SCHEDULE.GET", Lead(<<"id">>) \o Opts(<<"DEADLINE_MS">>)),
            FlowCall("FLOW.SCHEDULE.FIRE", Lead(<<"id">>) \o Opts(<<"NOW", "FIRE_AT_MS", "DEADLINE_MS">>)),
            FlowCallsOf({"FLOW.SCHEDULE.PAUSE", "FLOW.SCHEDULE.RESUME", "FLOW.SCHEDULE.DELETE"},
                        Lead(<<"id">>) \o Opts(<<"NOW", "DEADLINE_MS">>)),
            FlowCall("FLOW.SCHEDULE.FIRE_DUE", Opts(<<"NOW", "WORKER", "LEASE_MS", "BLOCK", "LIMIT", "DEADLINE_MS">>)),
            FlowCall("FLOW.SCHEDULE.LIST",
                Opts(<<"KIND", "STATE", "TIMEZONE", "TARGET_TYPE", "FROM_MS", "TO_MS", "COUNT", "REV", "DEADLINE_MS">>)) }

\* By method, as one set of all of them would be large.
FlowCallGroups ==
    {CreateCalls, SignalCalls, CreateManyCalls, ClaimCalls, AdvanceCalls, SetbackCalls, BatchCalls, SpawnCalls,
     ValueCalls, ReadCalls, StatisticsCalls, QueryCalls, PolicyCalls, RetentionCalls, EffectCalls, ApprovalCalls,
     GovernanceCalls, BudgetCalls, LimitCalls, ScheduleCalls}

=============================================================================
