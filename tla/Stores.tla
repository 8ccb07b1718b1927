------------------------------- MODULE Stores -------------------------------
(***************************************************************************)
(* The commands that the typed stores and the client's own methods send:   *)
(* one definition per source file, the argument list of each method with   *)
(* every combination of its options.  An argument carries its role: a      *)
(* word of the grammar, a key, a text the caller chooses freely, a number, *)
(* or the time the server may block.  Keys and free texts range over small *)
(* sets that contain words of the grammar.                                 *)
(***************************************************************************)
EXTENDS Integers, Sequences, SequencesExt

CONSTANTS
    KeyTexts,       \* keys that callers use
    FreeTexts       \* values, members, identifiers and names that callers use

Arg(role, text, v, n) == [role |-> role, text |-> text, v |-> v, n |-> n]

Word(w) == {<<Arg("word", TRUE, w, 0)>>}
Key == {<<Arg("key", TRUE, k, 0)>> : k \in KeyTexts}
Free == {<<Arg("free", TRUE, f, 0)>> : f \in FreeTexts}
Number(n) == <<Arg("number", FALSE, "", n)>>
Num == {Number(1)}
Timeout == {<<Arg("block", FALSE, "", n)>> : n \in {0, 7}}

Join(parts) == FoldLeft(LAMBDA done, part : {a \o b : a \in done, b \in part}, {<<>>}, parts)

Opt(part) == part \cup {<<>>}
Option(word, part) == Opt(Join(<<Word(word), part>>))
Some(part) == part \cup Join(<<part, part>>)
AnyOf(words) == UNION {Word(w) : w \in words}

\* The number of the parts, then the parts (one argument each).
Counted(part) == {Number(Len(s)) \o s : s \in Some(part)}

Call(name, parts) == Join(<<Word(name)>> \o parts)
Calls(names, parts) == UNION {Call(name, parts) : name \in names}

(* The stores of keys and values, hashes, lists, sets and sorted sets.       *)

\* stores.go, KeyValueStore.
KeyCalls ==
    UNION { Call("SET", <<Key, Free>>), Calls({"MGET", "DEL", "EXISTS"}, <<Some(Key)>>),
            Calls({"GET", "INCR", "DECR", "TTL"}, <<Key>>), Call("EXPIRE", <<Key, Num>>) }

\* stores.go, HashStore to SortedSetStore.
CollectionCalls ==
    UNION { Call("HSET", <<Key, Free, Free>>), Call("HGET", <<Key, Free>>),
            Calls({"HGETALL", "LPOP", "RPOP", "SMEMBERS"}, <<Key>>),
            Calls({"HDEL", "LPUSH", "RPUSH", "SADD", "SREM"}, <<Key, Some(Free)>>),
            Calls({"LRANGE", "ZRANGE"}, <<Key, Num, Num>>), Call("ZADD", <<Key, Some(Join(<<Num, Free>>))>>) }

\* The four ways to state an expiry, and no expiry.
Expiry == Opt(UNION {Join(<<Word(w), Num>>) : w \in {"EX", "PX", "EXAT", "PXAT"}})

\* SetWithOptions.
SetCalls ==
    Call("SET", <<Key, Free, Expiry, Opt(AnyOf({"NX", "XX"})), Opt(Word("GET"))>>)
    \cup Call("SET", <<Key, Free, Opt(AnyOf({"NX", "XX"})), Opt(Word("GET")), Word("KEEPTTL")>>)

\* The other methods of stores_kv_extra.go; MSet and MSetNX sort their keys.
StringCalls ==
    UNION { Calls({"MSET", "MSETNX"}, <<Some(Join(<<Key, Free>>))>>),
            Calls({"INCRBY", "DECRBY", "INCRBYFLOAT"}, <<Key, Num>>),
            Calls({"APPEND", "GETSET", "SETNX"}, <<Key, Free>>), Calls({"STRLEN", "GETDEL"}, <<Key>>),
            Call("GETEX", <<Key, Expiry>>), Call("GETEX", <<Key, Word("PERSIST")>>) }

LifetimeCalls ==
    UNION { Calls({"SETEX", "PSETEX", "SETRANGE"}, <<Key, Num, Free>>), Call("GETRANGE", <<Key, Num, Num>>),
            Calls({"PEXPIRE", "EXPIREAT", "PEXPIREAT"}, <<Key, Num>>),
            Calls({"PTTL", "PERSIST", "EXPIRETIME", "PEXPIRETIME"}, <<Key>>) }

\* stores_kv_expiry.go.
ConditionalExpiryCalls ==
    Calls({"EXPIRE", "PEXPIRE", "EXPIREAT", "PEXPIREAT"}, <<Key, Num, AnyOf({"NX", "XX", "GT", "LT"})>>)

\* The MATCH and COUNT options of the scans (scan.go).
ScanOptions == Join(<<Option("MATCH", Free), Option("COUNT", Num)>>)

\* stores_hash_extra.go.
FieldCalls ==
    UNION { Call("HMGET", <<Key, Some(Free)>>), Calls({"HEXISTS", "HSTRLEN"}, <<Key, Free>>),
            Calls({"HKEYS", "HVALS", "HLEN"}, <<Key>>), Calls({"HINCRBY", "HINCRBYFLOAT"}, <<Key, Free, Num>>),
            Call("HSETNX", <<Key, Free, Free>>),
            Call("HRANDFIELD", <<Key, Opt(Join(<<Num, Opt(Word("WITHVALUES"))>>))>>),
            Call("HSCAN", <<Key, Free, ScanOptions>>) }

\* The methods with a FIELDS clause.  PExpireTime sends nothing.
FieldExpiryCalls ==
    UNION { Call("HGETDEL", <<Key, Word("FIELDS"), Counted(Free)>>),
            Call("HGETEX", <<Key, Opt(Expiry \cup Word("PERSIST")), Word("FIELDS"), Counted(Free)>>),
            Call("HSETEX", <<Key, Num, Some(Join(<<Free, Free>>))>>),
            Calls({"HEXPIRE", "HPEXPIRE"}, <<Key, Num, Word("FIELDS"), Counted(Free)>>),
            Calls({"HTTL", "HPTTL", "HEXPIRETIME", "HPERSIST"}, <<Key, Word("FIELDS"), Counted(Free)>>) }

Directions == AnyOf({"LEFT", "RIGHT"})

\* stores_list_extra.go.
ListCalls ==
    UNION { Call("LLEN", <<Key>>), Call("LINDEX", <<Key, Num>>), Calls({"LSET", "LREM"}, <<Key, Num, Free>>),
            Call("LTRIM", <<Key, Num, Num>>),
            Call("LPOS", <<Key, Free, Option("RANK", Num), Option("COUNT", Num), Option("MAXLEN", Num)>>),
            Call("LINSERT", <<Key, AnyOf({"BEFORE", "AFTER"}), Free, Free>>),
            Call("LMOVE", <<Key, Key, Directions, Directions>>), Call("RPOPLPUSH", <<Key, Key>>),
            Calls({"LPUSHX", "RPUSHX"}, <<Key, Some(Free)>>) }

BlockingListCalls ==
    UNION { Calls({"BLPOP", "BRPOP"}, <<Some(Key), Timeout>>),
            Call("BLMOVE", <<Key, Key, Directions, Directions, Timeout>>),
            Call("BLMPOP", <<Timeout, Counted(Key), Directions, Option("COUNT", Num)>>) }

\* stores_set_extra.go.
MemberCalls ==
    UNION { Call("SISMEMBER", <<Key, Free>>), Call("SMISMEMBER", <<Key, Some(Free)>>), Call("SCARD", <<Key>>),
            Calls({"SRANDMEMBER", "SPOP"}, <<Key, Opt(Num)>>) }

SetAlgebraCalls ==
    UNION { Calls({"SDIFF", "SINTER", "SUNION"}, <<Some(Key)>>),
            Calls({"SDIFFSTORE", "SINTERSTORE", "SUNIONSTORE"}, <<Key, Some(Key)>>),
            Call("SINTERCARD", <<Counted(Key), Option("LIMIT", Num)>>), Call("SMOVE", <<Key, Key, Free>>),
            Call("SSCAN", <<Key, Free, ScanOptions>>) }

\* stores_sorted_set_extra.go.
ScoreCalls ==
    UNION { Call("ZADD", <<Key, Opt(AnyOf({"NX", "XX"})), Opt(AnyOf({"GT", "LT"})), Opt(Word("CH")),
                           Some(Join(<<Num, Free>>))>>),
            Calls({"ZSCORE", "ZRANK", "ZREVRANK"}, <<Key, Free>>), Call("ZREVRANGE", <<Key, Num, Num>>),
            Call("ZCARD", <<Key>>), Call("ZREM", <<Key, Some(Free)>>), Call("ZINCRBY", <<Key, Num, Free>>),
            Call("ZCOUNT", <<Key, Free, Free>>) }

ScoreRangeCalls ==
    UNION { Calls({"ZPOPMIN", "ZPOPMAX"}, <<Key, Opt(Num)>>), Call("ZMSCORE", <<Key, Some(Free)>>),
            Call("ZRANDMEMBER", <<Key, Opt(Join(<<Num, Opt(Word("WITHSCORES"))>>))>>),
            Calls({"ZRANGEBYSCORE", "ZREVRANGEBYSCORE"},
                  <<Key, Free, Free, Opt(Word("WITHSCORES")), Option("LIMIT", Join(<<Num, Num>>))>>),
            Call("ZSCAN", <<Key, Free, ScanOptions>>) }

-----------------------------------------------------------------------------
(* Streams and the specialised stores.                                       *)

Trimming == Join(<<Word("MAXLEN"), Opt(Word("~")), Num>>) \cup Join(<<Word("MINID"), Opt(Word("~")), Free>>)

\* stores_stream_add.go.
AppendCalls ==
    Call("XADD", <<Key, Opt(Word("NOMKSTREAM")), Opt(Trimming), Free, Some(Join(<<Free, Free>>))>>)
    \cup Call("XRANGE", <<Key, Free, Free, Option("COUNT", Num)>>)

\* stores_stream_trim.go.
TrimCalls == Call("XTRIM", <<Key, Trimming>>)
             \cup Call("XTRIM", <<Key, Word("MAXLEN"), Opt(Word("~")), Free, Option("LIMIT", Num)>>)

\* As many identifiers as streams.
StreamList == Join(<<Key, Free>>) \cup Join(<<Key, Key, Free, Free>>)

\* stores_stream_extra.go.
StreamCalls ==
    UNION { Call("XREVRANGE", <<Key, Free, Free, Option("COUNT", Num)>>), Call("XLEN", <<Key>>),
            Call("XREAD", <<Option("COUNT", Num), Option("BLOCK", Timeout), Word("STREAMS"), StreamList>>),
            Call("XDEL", <<Key, Some(Free)>>), Call("XINFO", <<Word("STREAM"), Key>>),
            Call("XGROUP", <<Word("CREATE"), Key, Free, Free, Opt(Word("MKSTREAM"))>>),
            Call("XREADGROUP", <<Word("GROUP"), Free, Free, Option("COUNT", Num), Option("BLOCK", Timeout),
                                 Word("STREAMS"), StreamList>>),
            Call("XACK", <<Key, Free, Some(Free)>>) }

\* geoSearchArgs.
GeoOptions ==
    Join(<<Join(<<Word("FROMMEMBER"), Free>>) \cup Join(<<Word("FROMLONLAT"), Num, Num>>),
           Join(<<Word("BYRADIUS"), Num, AnyOf({"M", "KM"})>>) \cup Join(<<Word("BYBOX"), Num, Num, AnyOf({"M", "KM"})>>),
           Opt(AnyOf({"ASC", "DESC"})), Option("COUNT", Join(<<Num, Opt(Word("ANY"))>>))>>)

\* stores_geo_extra.go.
GeoCalls ==
    UNION { Calls({"GEOPOS", "GEOHASH"}, <<Key, Some(Free)>>),
            Call("GEOSEARCH", <<Key, GeoOptions, Opt(Word("WITHCOORD")), Opt(Word("WITHDIST")), Opt(Word("WITHHASH"))>>),
            Call("GEOSEARCHSTORE", <<Key, Key, GeoOptions>>) }

\* stores_bitmap_extra.go.
BitmapCalls ==
    UNION { Call("BITPOS", <<Key, Num, Opt(Some(Num))>>),
            Call("BITOP", <<AnyOf({"AND", "OR", "XOR"}), Key, Some(Key)>>), Call("BITOP", <<Word("NOT"), Key, Key>>),
            Call("PFMERGE", <<Key, Some(Key)>>) }

\* stores_specialized_core.go: bitmaps, HyperLogLog, geography, Bloom filters.
SpecializedCalls ==
    UNION { Call("SETBIT", <<Key, Num, Num>>), Call("GETBIT", <<Key, Num>>), Call("BITCOUNT", <<Key>>),
            Call("PFADD", <<Key, Opt(Some(Free))>>), Call("PFCOUNT", <<Some(Key)>>),
            Call("GEOADD", <<Key, Num, Num, Free>>), Call("GEODIST", <<Key, Free, Free, Opt(AnyOf({"M", "KM"}))>>),
            Call("BF.RESERVE", <<Key, Num, Num>>), Calls({"BF.ADD", "BF.EXISTS"}, <<Key, Free>>) }

\* The rest of it: cuckoo filters and sketches.
SketchCalls ==
    UNION { Call("CF.RESERVE", <<Key, Num>>), Calls({"CF.ADD", "CF.EXISTS"}, <<Key, Free>>),
            Call("CMS.INITBYDIM", <<Key, Num, Num>>), Call("CMS.INCRBY", <<Key, Free, Num>>),
            Call("TOPK.RESERVE", <<Key, Num>>), Call("TOPK.ADD", <<Key, Some(Free)>>),
            Call("TDIGEST.CREATE", <<Key, Option("COMPRESSION", Num)>>), Call("TDIGEST.ADD", <<Key, Some(Num)>>) }

\* probabilistic_extra.go: filters.
FilterCalls ==
    UNION { Calls({"BF.MADD", "BF.MEXISTS", "CF.MEXISTS"}, <<Key, Some(Free)>>),
            Calls({"BF.CARD", "BF.INFO", "CF.INFO"}, <<Key>>), Calls({"CF.ADDNX", "CF.DEL", "CF.COUNT"}, <<Key, Free>>) }

\* Count-min sketches.
CountMinCalls ==
    UNION { Call("CMS.INITBYPROB", <<Key, Num, Num>>), Call("CMS.INCRBY", <<Key, Some(Join(<<Free, Num>>))>>),
            Call("CMS.QUERY", <<Key, Some(Free)>>), Call("CMS.INFO", <<Key>>),
            Call("CMS.MERGE", <<Key, Counted(Key)>>), Call("CMS.MERGE", <<Key, {Number(1)}, Key, Word("WEIGHTS"), Num>>),
            Call("CMS.MERGE", <<Key, {Number(2)}, Key, Key, Word("WEIGHTS"), Num, Num>>) }

\* Top-k lists.
TopKCalls ==
    UNION { Call("TOPK.RESERVE", <<Key, Num, Opt(Join(<<Num, Num>>))>>), Call("TOPK.LIST", <<Key, Opt(Word("WITHCOUNT"))>>),
            Call("TOPK.INCRBY", <<Key, Some(Join(<<Free, Num>>))>>), Calls({"TOPK.QUERY", "TOPK.COUNT"}, <<Key, Some(Free)>>),
            Call("TOPK.INFO", <<Key>>) }

\* t-digests.
DigestCalls ==
    UNION { Calls({"TDIGEST.RESET", "TDIGEST.MIN", "TDIGEST.MAX", "TDIGEST.INFO"}, <<Key>>),
            Calls({"TDIGEST.QUANTILE", "TDIGEST.CDF", "TDIGEST.RANK", "TDIGEST.REVRANK", "TDIGEST.BYRANK",
                   "TDIGEST.BYREVRANK"}, <<Key, Some(Num)>>),
            Call("TDIGEST.TRIMMED_MEAN", <<Key, Num, Num>>),
            Call("TDIGEST.MERGE", <<Key, Counted(Key), Option("COMPRESSION", Num), Opt(Word("OVERRIDE"))>>) }

-----------------------------------------------------------------------------
(* The methods of the client itself.                                         *)

\* client_coordination.go.
CoordinationCalls ==
    UNION { Call("CAS", <<Key, Free, Free, Option("EX", Num)>>), Calls({"LOCK", "EXTEND"}, <<Key, Free, Num>>),
            Call("UNLOCK", <<Key, Free>>), Call("RATELIMIT.ADD", <<Key, Num, Num, Num>>),
            Call("FERRICSTORE.KEY_INFO", <<Key>>) }

\* client_fetch_or_compute.go.
FetchCalls ==
    UNION { Call("FETCH_OR_COMPUTE", <<Key, Num, Opt(Free)>>), Call("FETCH_OR_COMPUTE_RESULT", <<Key, Free, Free, Num>>),
            Call("FETCH_OR_COMPUTE_ERROR", <<Key, Free, Free>>) }

\* client_extra.go: the keyspace.
KeyspaceCalls ==
    UNION { Call("TYPE", <<Key>>), Calls({"UNLINK", "DEL"}, <<Some(Key)>>), Calls({"RENAME", "RENAMENX"}, <<Key, Key>>),
            Call("COPY", <<Key, Key, Opt(Word("REPLACE"))>>), Calls({"RANDOMKEY", "DBSIZE"}, <<>>),
            Call("SCAN", <<Free, ScanOptions>>), Call("KEYS", <<Free>>) }

\* The server, its commands and its users.
AdministrationCalls ==
    UNION { Call("ECHO", <<Free>>), Calls({"PING", "INFO", "FLUSHDB", "FLUSHALL"}, <<Opt(Free)>>),
            Call("COMMAND", <<AnyOf({"INFO", "DOCS"}), Some(Free)>>), Call("COMMAND", <<AnyOf({"COUNT", "LIST"})>>),
            Call("COMMAND", <<Word("GETKEYS"), AnyOf({"MGET", "DEL"}), Some(Key)>>),
            Call("CONFIG", <<Word("GET"), Free>>), Call("CONFIG", <<Word("SET"), Free, Free>>),
            Call("CONFIG", <<AnyOf({"RESETSTAT", "REWRITE"})>>), Call("ACL", <<Word("SETUSER"), Free, Some(Free)>>),
            Call("ACL", <<AnyOf({"DELUSER", "GETUSER"}), Free>>), Call("ACL", <<AnyOf({"LIST", "SAVE", "WHOAMI", "LOAD"})>>) }

\* managementPairArgs: the fields of a request, sorted by name.
Pairs == Opt(Some(Join(<<Free, Free>>)))

\* Namespaces, quotas and telemetry.
ManagementCalls ==
    UNION { Call("FERRICSTORE.CAPABILITIES", <<>>), Call("FERRICSTORE.NAMESPACE", <<Word("ENSURE"), Free, Pairs>>),
            Call("FERRICSTORE.NAMESPACE", <<Word("LIST")>>), Call("FERRICSTORE.NAMESPACE", <<AnyOf({"GET", "DELETE"}), Free>>),
            Call("FERRICSTORE.QUOTA", <<Word("SET"), Free, Pairs>>), Call("FERRICSTORE.QUOTA", <<AnyOf({"GET", "USAGE"}), Free>>),
            Call("FERRICSTORE.TELEMETRY", <<Word("CLUSTER_INFO")>>), Call("FERRICSTORE.TELEMETRY", <<Word("NAMESPACE_USAGE"), Free>>),
            Call("FERRICSTORE.TELEMETRY", <<Word("FLOW_QUERY"), Pairs>>),
            Call("FERRICSTORE.TELEMETRY", <<Word("FLOW_HISTORY"), Free, Pairs>>) }

\* client_server_misc.go.
ServerCalls ==
    UNION { Call("SLOWLOG", <<Word("GET"), Opt(Num)>>), Call("SLOWLOG", <<AnyOf({"LEN", "RESET"})>>), Call("SELECT", <<Num>>),
            Call("WAIT", <<Num, Timeout>>), Call("WAITAOF", <<Num, Num, Timeout>>),
            Call("OBJECT", <<Word("REFCOUNT"), Key>>), Call("OBJECT", <<Word("HELP")>>),
            Call("MEMORY", <<Word("USAGE"), Key>>), Call("MEMORY", <<Word("DOCTOR")>>),
            Calls({"PUBLISH", "SPUBLISH"}, <<Free, Free>>), Call("PUBSUB", <<AnyOf({"CHANNELS", "SHARDCHANNELS"}), Opt(Free)>>),
            Call("PUBSUB", <<AnyOf({"NUMSUB", "SHARDNUMSUB"}), Opt(Some(Free))>>), Call("PUBSUB", <<Word("NUMPAT")>>),
            Calls({"SAVE", "BGSAVE", "LASTSAVE"}, <<>>), Calls({"FERRICSTORE.DOCTOR", "MODULE"}, <<Opt(Free)>>) }

\* client_cluster.go.
ClusterCalls ==
    UNION { Calls({"CLUSTER.HEALTH", "CLUSTER.STATS", "CLUSTER.SLOTS", "CLUSTER.STATUS", "CLUSTER.ROLE",
                   "CLUSTER.LEAVE"}, <<>>),
            Call("CLUSTER.JOIN", <<Free, Opt(Word("REPLACE"))>>), Call("CLUSTER.FAILOVER", <<Num, Free>>),
            Calls({"CLUSTER.PROMOTE", "CLUSTER.DEMOTE"}, <<Free>>),
            Calls({"FERRICSTORE.CONFIG", "FERRICSTORE.HOTNESS", "FERRICSTORE.METRICS", "FERRICSTORE.BLOBGC"}, <<Opt(Free)>>) }

AllCalls ==
    KeyCalls \cup CollectionCalls \cup SetCalls \cup StringCalls \cup LifetimeCalls
    \cup ConditionalExpiryCalls \cup FieldCalls \cup FieldExpiryCalls \cup ListCalls \cup BlockingListCalls
    \cup MemberCalls \cup SetAlgebraCalls \cup ScoreCalls \cup ScoreRangeCalls \cup AppendCalls \cup TrimCalls
    \cup StreamCalls \cup GeoCalls \cup BitmapCalls \cup SpecializedCalls \cup SketchCalls \cup FilterCalls
    \cup CountMinCalls \cup TopKCalls \cup DigestCalls \cup CoordinationCalls \cup FetchCalls
    \cup KeyspaceCalls \cup AdministrationCalls \cup ManagementCalls \cup ServerCalls \cup ClusterCalls

=============================================================================
