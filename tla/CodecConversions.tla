-------------------------- MODULE CodecConversions --------------------------
(* What goes over the wire and comes back: the inputs over which the codecs   *)
(* of native_codec_wire.go, native_codec_decode.go and native_compact.go are  *)
(* compared with what a value means.  A state of a run holds one input and,   *)
(* one step later, what became of it.                                         *)
EXTENDS CompactCodec

CONSTANT MaxPipeline    \* items of a pipeline answer

Seqs(S, n) == UNION {[1..m -> S] : m \in 0..n}

-----------------------------------------------------------------------------
(* Values, up to two levels deep, and the payloads written without a map.     *)

Zero == <<0, 0, 0, 0, 0, 0, 0, 0>>
Top == <<128, 0, 0, 0, 0, 0, 0, 0>>    \* the first number that is no int64

Few == {NilValue, Text(<<0>>)}
Scalars ==
    Few \cup {Bool(TRUE), Signed(Top), Unsigned(Zero), Unsigned(Top), Float(Zero), Bin(<<>>), Unsupported}

Nested(S) ==
    {Array(s) : s \in Seqs(S, 2)}
    \cup {MapOf(f) : f \in UNION {[K -> S] : K \in SUBSET Texts}}
    \cup {Entries([i \in DOMAIN ks |-> [key |-> ks[i], value |-> v]]) : ks \in Seqs(Texts, 2) \ {<<>>}, v \in S}
    \cup {Pointer(v) : v \in S}

Values == Scalars \cup Nested(Scalars) \cup Nested(Nested(Few))

Field(k, v) == [key |-> k, value |-> v]
QueryScalars == {Text(<<0>>), Bool(TRUE), Signed(Top), Float(Zero), Bin(<<>>)}
Parameters ==
    {<<>>} \cup {<<Field(k, v)>> : k \in Texts, v \in QueryScalars}
    \cup {<<Field(<<0>>, Bool(TRUE)), Field(<<6>>, Bin(<<>>))>>}
Payloads ==
    [kind : {"mget", "command"}, args : Seqs(Few, 3)]
    \cup [kind : {"mset"}, args : Seqs([1..2 -> Few], 2)]
    \cup [kind : {"query"}, args : Parameters, deadline : {<<>>, <<Signed(Zero)>>}]

Name == <<71>>
Query == <<81>>
Payload(p) ==
    CASE p.kind = "mget" -> WriteMGet(p.args)
      [] p.kind = "command" -> WriteCommand(Text(Name), p.args)
      [] p.kind = "mset" -> WriteMSet(p.args)
      [] p.kind = "query" -> WriteQuery(Query, p.args, p.deadline)

\* The map that a payload stands for.
AsValue(p) ==
    CASE p.kind = "mget" -> MapOf(KeysKey :> Array(p.args))
      [] p.kind = "command" -> MapOf((CommandKey :> Text(Name)) @@ (ArgsKey :> Array(p.args)))
      [] p.kind = "mset" -> MapOf(PairsKey :> Array([i \in DOMAIN p.args |-> Array(p.args[i])]))
      [] p.kind = "query" ->
           MapOf((QueryKey :> Text(Query)) @@ (VersionKey :> Text(Version))
                 @@ (IF p.args = <<>> THEN <<>> ELSE ParamsKey :> Entries(p.args))
                 @@ (IF p.deadline = <<>> THEN <<>> ELSE DeadlineKey :> p.deadline[1]))

\* What a value is once it has been read: text has become bytes, a number that
\* fits is signed, a map is a map whatever its type was.
RECURSIVE Plain(_)
Plain(v) ==
    CASE v.t = "string" -> Bin(v.s)
      [] v.t = "uint" /\ v.bits[1] < 128 -> Signed(v.bits)
      [] v.t = "array" -> Array([i \in DOMAIN v.items |-> Plain(v.items[i])])
      [] v.t = "map" -> MapOf([k \in DOMAIN v.f |-> Plain(v.f[k])])
      [] v.t = "entries" ->
           MapOf([k \in {v.items[i].key : i \in DOMAIN v.items} |->
                    Plain((CHOOSE f \in Range(v.items) : f.key = k).value)])
      [] v.t = "pointer" -> Plain(v.to)
      [] OTHER -> v

\* The bytes of the value v, if there are any, are read back as that value, and no
\* beginning of them is taken for a value.
ReadBack(v, bytes) ==
    /\ Decode(bytes).ok /\ Decode(bytes).value = Plain(v)
    /\ \A n \in 0..(Len(bytes) - 1) : ~ Decode(SubSeq(bytes, 1, n)).ok

\* A payload is refused exactly when its map would be, and it is as long as the
\* size computed before it is written.
PayloadTrue(p, written) ==
    /\ written.ok <=> Encode(AsValue(p), 1000).ok
    /\ written.ok /\ p.kind = "query" => Len(written.bytes) = QuerySize(Query, p.args, p.deadline)

-----------------------------------------------------------------------------
(* Compact answers.                                                           *)

Attributes == MapOf(<<0>> :> Bool(TRUE))
Claims ==
    {[id |-> <<7>>, partition |-> p, lease |-> <<>>, fence |-> Zero, layout |-> l,
      runState |-> IF l \in {"state", "stateAttributes"} THEN s ELSE NilValue,
      attributes |-> IF l \in {"attributes", "stateAttributes"} THEN Attributes ELSE NilValue] :
        l \in Range(Layouts), p \in {NilValue, Bin(<<0>>)}, s \in {NilValue, Bin(<<0>>), Bin(<<0, 6>>)}}

Record(id) == [id |-> id, name |-> <<5>>, value |-> Bin(<<>>)]
Records == Seqs({Record(0), Record(1), Record(KnownFields + 1)}, 1)

Items ==
    {NilValue, Bin(<<>>), Bin(<<0>>), [t |-> "record", fields |-> <<Record(1)>>],
     [t |-> "records", records |-> <<<<Record(0)>>>>], [t |-> "busy", s |-> <<>>], [t |-> "error", s |-> <<0>>],
     [t |-> "ref", ref |-> <<>>, partition |-> NilValue, owner |-> Bin(<<>>)], [t |-> "list", list |-> <<<<>>>>],
     [t |-> "binmap", map |-> (<<>> :> <<0>>)]}
    \cup {[t |-> "claim", claim |-> c] : c \in {d \in Claims : d.partition = NilValue}}

Present == {NilValue, Bin(<<>>), Bin(<<1>>)}

Answers ==
    [form : {"pipeline"}, items : Seqs(Items, MaxPipeline)]
    \cup [form : {"claims"}, claims : UNION {Seqs({c \in Claims : c.layout = l}, 2) : l \in Range(Layouts)}]
    \cup [form : {"ok"}, count : 0..3]
    \cup [form : {"get"}, value : Present]
    \cup [form : {"mget"}, values : Seqs(Present, 3)]
    \cup [form : {"fixed"}, values : Seqs({Bin(<<0>>), Bin(<<1>>)}, 3), size : {1}]
    \cup [form : {"integers"}, values : Seqs({Signed(Zero), Signed(Top)}, 2)]
    \cup [form : {"lists"}, lists : Seqs(Seqs({<<>>, <<0>>}, 2), 2)]
    \cup [form : {"maps"}, maps : Seqs(UNION {[K -> {<<>>, <<0>>}] : K \in SUBSET Texts}, 2)]
    \cup [form : {"record"}, fields : Records \cup {<<Record(1), Record(0), Record(KnownFields + 1)>>}]
    \cup [form : {"records"}, records : Seqs(Records, 2)]

\* What the caller is to get.  The name of a record's field is its number's.
RecordOf(fields) ==
    LET known == SelectSeq(fields, LAMBDA f : f.id <= KnownFields)
    IN [k \in {IF known[i].id = 0 THEN known[i].name ELSE <<known[i].id>> : i \in DOMAIN known} |-> Bin(<<>>)]
RecordsOf(records) == [i \in DOMAIN records |-> RecordOf(records[i])]
MeantItem(x) ==
    CASE x.t = "record" -> [x EXCEPT !.fields = RecordOf(@)]
      [] x.t = "records" -> [x EXCEPT !.records = RecordsOf(@)]
      [] OTHER -> x
Meant(a) ==
    CASE a.form = "pipeline" -> [i \in DOMAIN a.items |-> MeantItem(a.items[i])]
      [] a.form = "claims" -> a.claims
      [] a.form = "ok" -> a.count
      [] a.form = "get" -> a.value
      [] a.form \in {"mget", "fixed", "integers"} -> a.values
      [] a.form = "lists" -> a.lists
      [] a.form = "maps" -> a.maps
      [] a.form = "record" -> RecordOf(a.fields)
      [] a.form = "records" -> RecordsOf(a.records)

\* The reader of an answer, whose layouts it must guess, finds what was written.
ReadAsMeant(a, read) == read.ok /\ read.value = Meant(a)

=============================================================================
