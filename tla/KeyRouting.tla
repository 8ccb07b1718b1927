----------------------------- MODULE KeyRouting -----------------------------
(***************************************************************************)
(* How the topology executor finds the keys of a command: the policy table *)
(* (topology_command_policy.go), the grammars with options, the decision   *)
(* to route, scatter, refuse or use the control connection                 *)
(* (topology_routing.go, topology_snapshot.go), the reserved-key check of  *)
(* every command (internal_key.go) and the time budget of a blocking       *)
(* command (native_command.go).                                            *)
(*                                                                         *)
(* A command is the sequence of its arguments.  The code sees of an        *)
(* argument whether it is text, the text (compared without regard to case) *)
(* and the number; "role" says what the caller meant it to be and is read  *)
(* by the properties only.                                                 *)
(***************************************************************************)
EXTENDS Integers, Sequences, FiniteSets

CONSTANTS
    Slot,       \* the hash slot of a text (routeSlotForString)
    Reserved    \* the texts that name internal keys (reservedInternalKeyString)

commandPart(a) == IF a.text THEN a.v ELSE ""

Scatter == {"MGET", "DEL", "EXISTS", "UNLINK", "TOUCH"}

\* The commands of each key mode, Scatter aside; all of them must stay in one slot.
AllKeys == {"PFCOUNT", "SDIFF", "SINTER", "SUNION", "PFMERGE", "SDIFFSTORE", "SINTERSTORE", "SUNIONSTORE"}

Alternating == {"MSET", "MSETNX"}

FirstTwo == {"RENAME", "RENAMENX", "COPY", "LMOVE", "BLMOVE", "RPOPLPUSH", "BRPOPLPUSH", "SMOVE",
             "GEOSEARCHSTORE", "ZRANGESTORE", "LCS"}

BlockingCounted == {"BLMPOP", "BZMPOP"}

BlockingTrailing == {"BLPOP", "BRPOP", "BZPOPMIN", "BZPOPMAX"}

CountedRead == {"SINTERCARD", "ZINTERCARD", "ZUNION", "ZINTER", "ZDIFF", "ZMPOP", "LMPOP"}

CountedStore == {"ZDIFFSTORE", "ZINTERSTORE", "ZUNIONSTORE", "CMS.MERGE", "TDIGEST.MERGE"}

Streams == {"XREAD", "XREADGROUP"}

SameSlot == AllKeys \cup Alternating \cup FirstTwo \cup BlockingCounted \cup BlockingTrailing
            \cup CountedRead \cup CountedStore \cup Streams \cup {"BITOP", "SORT"}

\* The commands whose only key is their first argument.
First ==
    {"APPEND", "BF.ADD", "BF.CARD", "BF.EXISTS", "BF.INFO", "BF.INSERT", "BF.MADD", "BF.MEXISTS", "BF.RESERVE",
     "BITCOUNT", "BITFIELD", "BITFIELD_RO", "BITPOS", "CAS", "CF.ADD", "CF.ADDNX", "CF.COUNT", "CF.DEL", "CF.EXISTS",
     "CF.INFO", "CF.INSERT", "CF.INSERTNX", "CF.MEXISTS", "CF.RESERVE", "CMS.INCRBY", "CMS.INFO", "CMS.INITBYDIM",
     "CMS.INITBYPROB", "CMS.QUERY", "DECR", "DECRBY", "EXPIRE", "EXPIREAT", "EXPIRETIME", "EXTEND", "FETCH_OR_COMPUTE",
     "FETCH_OR_COMPUTE_ERROR", "FETCH_OR_COMPUTE_RESULT", "FERRICSTORE.KEY_INFO", "GET", "GETBIT", "GETDEL", "GETEX",
     "GETRANGE", "GETSET", "GEOADD", "GEODIST", "GEOHASH", "GEOPOS", "GEOSEARCH", "HDEL", "HEXISTS", "HGET", "HGETALL",
     "HGETDEL", "HGETEX", "HINCRBY", "HINCRBYFLOAT", "HKEYS", "HLEN", "HMGET", "HMSET", "HSET", "HSETEX", "HSETNX",
     "HSTRLEN", "HTTL", "HEXPIRE", "HEXPIREAT", "HEXPIRETIME", "HPERSIST", "HPEXPIRE", "HPEXPIREAT", "HPEXPIRETIME",
     "HPTTL", "HRANDFIELD", "HSCAN", "HVALS", "INCR", "INCRBY", "INCRBYFLOAT", "KEY_INFO", "LINDEX", "LINSERT", "LLEN",
     "LOCK", "LPOP", "LPUSH", "LPUSHX", "LRANGE", "LREM", "LSET", "LTRIM", "LPOS", "PFADD", "PEXPIRE", "PEXPIREAT",
     "PEXPIRETIME", "PERSIST", "PSETEX", "PTTL", "RATELIMIT.ADD", "RPOP", "RPUSH", "RPUSHX", "SADD", "SCARD",
     "SISMEMBER", "SMEMBERS", "SREM", "SET", "SETBIT", "SETEX", "SETNX", "SETRANGE", "SMISMEMBER", "SORT_RO", "SPOP",
     "SRANDMEMBER", "SSCAN", "STRLEN", "TDIGEST.ADD", "TDIGEST.BYRANK", "TDIGEST.BYREVRANK", "TDIGEST.CDF",
     "TDIGEST.CREATE", "TDIGEST.INFO", "TDIGEST.MAX", "TDIGEST.MIN", "TDIGEST.QUANTILE", "TDIGEST.RANK",
     "TDIGEST.RESET", "TDIGEST.REVRANK", "TDIGEST.TRIMMED_MEAN", "TOPK.ADD", "TOPK.COUNT", "TOPK.INCRBY", "TOPK.INFO",
     "TOPK.LIST", "TOPK.QUERY", "TOPK.RESERVE", "TTL", "TYPE", "UNLOCK", "XADD", "XACK", "XAUTOCLAIM", "XCLAIM", "XDEL",
     "XLEN", "XPENDING", "XRANGE", "XREVRANGE", "XSETID", "XTRIM", "ZADD", "ZCARD", "ZCOUNT", "ZINCRBY", "ZLEXCOUNT",
     "ZRANGE", "ZRANGEBYLEX", "ZREMRANGEBYLEX", "ZREMRANGEBYRANK", "ZREMRANGEBYSCORE", "ZREVRANGEBYLEX",
     "ZRANGEBYSCORE", "ZRANDMEMBER", "ZREM", "ZREVRANGE", "ZREVRANGEBYSCORE", "ZMSCORE", "ZPOPMAX", "ZPOPMIN", "ZRANK",
     "ZSCAN", "ZSCORE", "ZREVRANK"}

-----------------------------------------------------------------------------
(* Grammars.  Positions count from 1: args[1] is the command's name. *)

\* The keys that follow the count at position p; none when the count does not fit.
counted(args, p) ==
    IF Len(args) > p /\ args[p].n \in 1 .. Len(args) - p THEN p + 1 .. p + args[p].n ELSE {}

countedStoreKeys(args) == IF counted(args, 3) = {} THEN {} ELSE {2} \cup counted(args, 3)

\* SORT's key and its STORE destination; the values of BY, GET and LIMIT are skipped.
RECURSIVE sortKeys(_, _)
sortKeys(args, i) ==
    IF i > Len(args) THEN {2}
    ELSE CASE commandPart(args[i]) = "STORE" -> ({i + 1} \cap 1 .. Len(args)) \cup sortKeys(args, i + 2)
           [] commandPart(args[i]) \in {"BY", "GET"} -> sortKeys(args, i + 2)
           [] commandPart(args[i]) = "LIMIT" -> sortKeys(args, i + 3)
           [] OTHER -> sortKeys(args, i + 1)

\* The first half of what follows STREAMS, at the end of a well-formed list of options.
RECURSIVE streamKeysFrom(_, _)
streamKeysFrom(args, i) ==
    IF i > Len(args) THEN {}
    ELSE CASE commandPart(args[i]) = "STREAMS" ->
                 LET rest == Len(args) - i IN IF rest = 0 \/ rest % 2 # 0 THEN {} ELSE i + 1 .. i + rest \div 2
           [] commandPart(args[i]) \in {"COUNT", "BLOCK"} -> streamKeysFrom(args, i + 2)
           [] commandPart(args[i]) = "NOACK" /\ args[1].v = "XREADGROUP" -> streamKeysFrom(args, i + 1)
           [] OTHER -> {}

\* Mutant: the group and the consumer of XREADGROUP are read as options.
optionsOfStreamsUnskipped(args) == IF args[1].v = "XREAD" THEN 2 ELSE 3

\* The group and the consumer of XREADGROUP may be named STREAMS: they are skipped.
optionsOfStreams(args) ==
    IF args[1].v = "XREAD" THEN 2
    ELSE IF Len(args) >= 5 /\ commandPart(args[2]) = "GROUP" THEN 5 ELSE Len(args) + 1

\* The positions of a command's keys; none when the grammar does not fit.
topologyPolicyKeys(args) ==
    LET name == args[1].v
        n == Len(args)
    IN CASE name \in First -> 2 .. 2 \cap 1 .. n
         [] name \in Scatter \cup AllKeys -> 2 .. n
         [] name \in Alternating -> IF n >= 3 /\ n % 2 = 1 THEN {i \in 2 .. n : i % 2 = 0} ELSE {}
         [] name \in FirstTwo -> IF n >= 3 THEN {2, 3} ELSE {}
         [] name = "BITOP" -> IF n >= 4 THEN 3 .. n ELSE {}
         [] name \in CountedRead -> counted(args, 2)
         [] name \in CountedStore -> countedStoreKeys(args)
         [] name \in BlockingCounted -> counted(args, 3)
         [] name \in BlockingTrailing -> IF n >= 3 THEN 2 .. n - 1 ELSE {}
         [] name \in Streams -> streamKeysFrom(args, optionsOfStreams(args))
         [] name = "XGROUP" -> {3} \cap 1 .. n
         [] name \in {"XINFO", "OBJECT"} -> IF n > 2 /\ commandPart(args[2]) # "HELP" THEN {3} ELSE {}
         [] name = "MEMORY" -> IF n > 2 /\ commandPart(args[2]) = "USAGE" THEN {3} ELSE {}
         [] name = "SORT" -> IF n >= 2 THEN sortKeys(args, 3) ELSE {}
         [] OTHER -> {}

-----------------------------------------------------------------------------
(* Decisions *)

slotsOf(args, keys) == {Slot[args[i].v] : i \in keys}

singleShardKey(args, keys) == (\A i \in keys : args[i].text) /\ Cardinality(slotsOf(args, keys)) = 1

\* Commands that name keys without being routed by them; COMMAND GETKEYS holds another command.
RECURSIVE introspectionKeys(_)
introspectionKeys(args) ==
    CASE args[1].v \in {"CLUSTER.KEYSLOT", "ROUTE"} -> {2} \cap 1 .. Len(args)
      [] args[1].v = "ROUTE_BATCH" -> 2 .. Len(args)
      [] args[1].v = "COMMAND" /\ Len(args) > 2 /\ commandPart(args[2]) = "GETKEYS" ->
             LET inner == SubSeq(args, 3, Len(args))
                 keys == IF topologyPolicyKeys(inner) # {} THEN topologyPolicyKeys(inner) ELSE introspectionKeys(inner)
             IN {i + 2 : i \in keys}
      [] OTHER -> {}

checkedKeys(args) ==
    IF topologyPolicyKeys(args) # {} THEN topologyPolicyKeys(args) ELSE introspectionKeys(args)

\* No key of a public command names the server's own data, and the four plain string
\* commands take no empty key.
validatePublicCommandKeys(args) ==
    \A i \in checkedKeys(args) :
        commandPart(args[i]) \notin Reserved \cup
            (IF args[1].v \in {"GET", "SET", "MSET", "MSETNX"} /\ args[i].text THEN {""} ELSE {})

\* validateAtomicMSetSlots, which holds without a topology as well.
validateAtomicMSetSlots(args) ==
    args[1].v \in Alternating /\ topologyPolicyKeys(args) # {} => singleShardKey(args, topologyPolicyKeys(args))

\* What doUnlocked does with a command: a slot to send it to, its keys apart, or the control connection.
Decision(args) ==
    LET keys == topologyPolicyKeys(args)
    IN CASE ~ validatePublicCommandKeys(args) \/ ~ validateAtomicMSetSlots(args) -> [to |-> "refused"]
         [] args[1].v \in Scatter /\ keys # {} ->
                [to |-> "scatter", parts |-> {{i \in keys : Slot[args[i].v] = s} : s \in slotsOf(args, keys)}]
         [] args[1].v \in SameSlot /\ keys # {} /\ ~ singleShardKey(args, keys) -> [to |-> "refused"]
         [] keys # {} /\ singleShardKey(args, keys) ->
                [to |-> "slot", slot |-> CHOOSE s \in slotsOf(args, keys) : TRUE]
         [] OTHER -> [to |-> "control"]

-----------------------------------------------------------------------------
(* blockingCommandBudget: how long the server may hold the answer back. *)

RECURSIVE streamBlockingTimeout(_, _)
streamBlockingTimeout(args, i) ==
    IF i > Len(args) THEN {}
    ELSE CASE commandPart(args[i]) = "COUNT" -> streamBlockingTimeout(args, i + 2)
           [] commandPart(args[i]) = "BLOCK" -> {i + 1} \cap 1 .. Len(args)
           [] commandPart(args[i]) = "NOACK" /\ args[1].v = "XREADGROUP" -> streamBlockingTimeout(args, i + 1)
           [] OTHER -> {}

\* The first argument that reads BLOCK, wherever it stands, and what follows it.
claimBlockingTimeout(args) ==
    LET blocks == {i \in 2 .. Len(args) - 1 : commandPart(args[i]) = "BLOCK"}
    IN {i \in 3 .. Len(args) : blocks # {} /\ i - 1 \in blocks /\ \A j \in blocks : i - 1 <= j}

\* The position of the timeout, if the command has one.
timeoutPosition(args) ==
    LET name == args[1].v
    IN CASE name \in BlockingTrailing \cup {"BLMOVE", "BRPOPLPUSH", "WAIT", "WAITAOF"} -> {Len(args)} \ {1}
         [] name \in BlockingCounted -> {2} \cap 1 .. Len(args)
         [] name \in Streams -> streamBlockingTimeout(args, IF name = "XREAD" THEN 2 ELSE optionsOfStreams(args))
         [] name \in {"FLOW.CLAIM_DUE", "FLOW.SCHEDULE.FIRE_DUE"} -> claimBlockingTimeout(args)
         [] OTHER -> {}

\* Nothing, the time added to the client's own deadline, or no deadline at all.
blockingCommandBudget(args) ==
    LET at == timeoutPosition(args)
    IN IF at = {} \/ \E i \in at : args[i].text \/ args[i].n < 0 THEN [kind |-> "none"]
       ELSE LET n == args[CHOOSE i \in at : TRUE].n
            IN IF n > 0 THEN [kind |-> "added", time |-> n]
               ELSE IF args[1].v = "FLOW.CLAIM_DUE" THEN [kind |-> "none"] ELSE [kind |-> "endless"]

=============================================================================
