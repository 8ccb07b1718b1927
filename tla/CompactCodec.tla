---------------------------- MODULE CompactCodec ----------------------------
(* The compact forms in which a server may answer: native_compact.go,         *)
(* native_compact_collections.go, native_compact_flow_record.go and           *)
(* native_compact_pipeline.go.                                                *)
(*                                                                            *)
(* Some forms do not say what they hold.  A claimed job may or may not end    *)
(* with its run state and its attributes, and the reader finds out by trying: *)
(* the first layout that fits the whole answer is taken.  In a pipeline every *)
(* job may have its own layout, and the reader goes back when a choice leads  *)
(* nowhere.                                                                   *)
EXTENDS Codec

\* Markers; their values do not matter here, their differences do.
OKList == 129
KVGet == 130
KVMGet == 131
KVMGetFixed == 132
IntegerList == 133
BinaryListList == 134
BinaryMapList == 135
ClaimJobs == 136
FlowRecord == 137
FlowRecordList == 138
PipelineResponse == 139

Nothing == <<255, 255, 255, 255>>
Layouts == <<"base", "attributes", "state", "stateAttributes">>

-----------------------------------------------------------------------------
(* What the server writes, as the readers below expect it.                    *)

PutBinary(s) == Word(Len(s)) \o s
PutOptional(v) == IF v = NilValue THEN Nothing ELSE PutBinary(v.s)
PutValue(v) == WriteValue(v, MaxItems, 0).bytes
PutClaim(c) ==
    PutBinary(c.id) \o PutOptional(c.partition) \o PutBinary(c.lease) \o c.fence
    \o (IF c.layout \in {"state", "stateAttributes"} THEN PutOptional(c.runState) ELSE <<>>)
    \o (IF c.layout \in {"attributes", "stateAttributes"} THEN PutValue(c.attributes) ELSE <<>>)
PutRecord(fields) ==
    Header(FlowRecord, Len(fields))
    \o FlattenSeq([i \in DOMAIN fields |-> <<fields[i].id>>
                     \o (IF fields[i].id = 0 THEN PutBinary(fields[i].name) ELSE <<>>) \o PutValue(fields[i].value)])
PutRecords(records) == Header(FlowRecordList, Len(records)) \o FlattenSeq([i \in DOMAIN records |-> PutRecord(records[i])])
PutList(l) == Word(Len(l)) \o FlattenSeq([i \in DOMAIN l |-> PutBinary(l[i])])
PutMap(f) ==
    LET keys == SortedKeys(DOMAIN f)
    IN Word(Len(keys)) \o FlattenSeq([i \in DOMAIN keys |-> PutBinary(keys[i]) \o PutBinary(f[keys[i]])])
PutItem(x) ==
    CASE x.t = "busy" -> <<1>> \o PutBinary(x.s)
      [] x.t = "error" -> <<2>> \o PutBinary(x.s)
      [] x.t = "nil" -> <<0, 0>>
      [] x.t = "bytes" -> <<0, 1>> \o PutBinary(x.s)
      [] x.t = "record" -> <<0, 2>> \o PutRecord(x.fields)
      [] x.t = "records" -> <<0, 3>> \o PutRecords(x.records)
      [] x.t = "claim" -> <<0, 4>> \o PutClaim(x.claim)
      [] x.t = "ref" -> <<0, 5>> \o PutBinary(x.ref) \o PutOptional(x.partition) \o PutOptional(x.owner)
      [] x.t = "list" -> <<0, 6>> \o PutList(x.list)
      [] x.t = "binmap" -> <<0, 7>> \o PutMap(x.map)
Put(a) ==
    CASE a.form = "ok" -> Header(OKList, a.count)
      [] a.form = "get" -> IF a.value = NilValue THEN <<KVGet, 0>> ELSE <<KVGet, 1>> \o PutBinary(a.value.s)
      [] a.form = "mget" ->
           Header(KVMGet, Len(a.values))
           \o FlattenSeq([i \in DOMAIN a.values |-> IF a.values[i] = NilValue THEN <<0>> ELSE <<1>> \o PutBinary(a.values[i].s)])
      [] a.form = "fixed" ->
           Header(KVMGetFixed, Len(a.values)) \o Word(a.size) \o FlattenSeq([i \in DOMAIN a.values |-> a.values[i].s])
      [] a.form = "integers" -> Header(IntegerList, Len(a.values)) \o FlattenSeq([i \in DOMAIN a.values |-> a.values[i].bits])
      [] a.form = "lists" -> Header(BinaryListList, Len(a.lists)) \o FlattenSeq([i \in DOMAIN a.lists |-> PutList(a.lists[i])])
      [] a.form = "maps" -> Header(BinaryMapList, Len(a.maps)) \o FlattenSeq([i \in DOMAIN a.maps |-> PutMap(a.maps[i])])
      [] a.form = "claims" -> Header(ClaimJobs, Len(a.claims)) \o FlattenSeq([i \in DOMAIN a.claims |-> PutClaim(a.claims[i])])
      [] a.form = "record" -> PutRecord(a.fields)
      [] a.form = "records" -> PutRecords(a.records)
      [] a.form = "pipeline" -> Header(PipelineResponse, Len(a.items)) \o FlattenSeq([i \in DOMAIN a.items |-> PutItem(a.items[i])])

-----------------------------------------------------------------------------
(* The readers.  A reader takes a prefix of the data and returns the rest; the *)
(* answer as a whole must leave nothing.                                      *)

Got(value, rest) == [ok |-> TRUE, value |-> value, rest |-> rest, left |-> 0]

\* What comes next, if r could be read.
Then(r, Next(_)) == IF r.ok THEN Next(r) ELSE Refused

\* readNativeCompactBinary, readNativeCompactOptionalBinary
TakeBinary(data) ==
    IF Len(data) < 4 \/ Number(data) > Len(data) - 4 THEN Refused
    ELSE Got(SubSeq(data, 5, 4 + Number(data)), From(data, 5 + Number(data)))
TakeOptional(data) ==
    IF Len(data) >= 4 /\ SubSeq(data, 1, 4) = Nothing THEN Got(NilValue, From(data, 5))
    ELSE Then(TakeBinary(data), LAMBDA b : Got(Bin(b.value), b.rest))

Whole(r) == IF r.ok /\ r.rest = <<>> THEN r ELSE Refused
\* A count, its items against the bytes and against the allowance.
Counted(data, left, bytesPerItem, Take(_, _)) ==
    IF Len(data) < 4 \/ ~ CountFits(Number(data), From(data, 5), bytesPerItem) \/ Number(data) > left THEN Refused
    ELSE ReadAll(Number(data), From(data, 5), left - Number(data), Take)

\* takeNativeCompactBinaryList, takeNativeCompactBinaryMap
TakeText(data, left) == Then(TakeBinary(data), LAMBDA b : Read(b.value, b.rest, left))
TakeList(data, left) == Counted(data, left, 4, TakeText)
TakePair(data, left) ==
    Then(TakeBinary(data), LAMBDA k :
    Then(TakeBinary(k.rest), LAMBDA v :
         Read([key |-> k.value, value |-> v.value], v.rest, left)))
TakeMap(data, left) ==
    Then(Counted(data, left, 8, TakePair), LAMBDA r :
         IF DuplicateKeys(r.value) THEN Refused ELSE Read(AsMap(r.value), r.rest, r.left))

\* takeNativeCompactFlowRecordWithBudget: field 0 has its name with it; a field
\* with a number above the ones known is read and left out.
KnownFields == 41
FieldName(data) ==
    IF data = <<>> THEN Refused
    ELSE IF data[1] # 0 THEN Got(<<data[1]>>, Tail(data))
    ELSE Then(TakeBinary(Tail(data)), LAMBDA name : IF name.value = <<>> THEN Refused ELSE name)
TakeField(data, left) ==
    Then(FieldName(data), LAMBDA name :
    Then(ReadValue(name.rest, left, 0), LAMBDA v :
         Read([key |-> name.value, known |-> data[1] <= KnownFields, value |-> v.value], v.rest, v.left)))
TakeRecord(data, left) ==
    IF data = <<>> \/ data[1] # FlowRecord THEN Refused
    ELSE Then(Counted(Tail(data), left, 2, TakeField), LAMBDA r :
              LET known == SelectSeq(r.value, LAMBDA f : f.known)
              IN IF DuplicateKeys(known) THEN Refused ELSE Read(AsMap(known), r.rest, r.left))
TakeRecords(data, left) ==
    IF data = <<>> \/ data[1] # FlowRecordList THEN Refused
    ELSE Counted(Tail(data), left, 5, TakeRecord)

\* The attributes of a job: a value that is a map.
TakeAttributes(data, left) ==
    Then(ReadValue(data, left, 0), LAMBDA v : IF v.value.t = "map" THEN v ELSE Refused)

\* The fields that every layout begins with.
TakeBase(data, left) ==
    Then(TakeBinary(data), LAMBDA id :
    Then(TakeOptional(id.rest), LAMBDA partition :
    Then(TakeBinary(partition.rest), LAMBDA lease :
         IF Len(lease.rest) < 8 \/ lease.rest[1] >= 128 THEN Refused
         ELSE Read([id |-> id.value, partition |-> partition.value, lease |-> lease.value,
                    fence |-> SubSeq(lease.rest, 1, 8), layout |-> "base",
                    runState |-> NilValue, attributes |-> NilValue],
                   From(lease.rest, 9), left))))

\* tryDecodeNativeCompactClaimJobsLayout, for one job
TakeState(job) ==
    Then(TakeOptional(job.rest), LAMBDA s :
         Read([job.value EXCEPT !.runState = s.value], s.rest, job.left))
TakeJobAttributes(job) ==
    Then(TakeAttributes(job.rest, job.left), LAMBDA a :
         Read([job.value EXCEPT !.attributes = a.value], a.rest, a.left))
TakeClaim(layout, data, left) ==
    Then(TakeBase(data, left), LAMBDA base :
    Then(IF layout \in {"state", "stateAttributes"} THEN TakeState(base) ELSE base, LAMBDA stated :
    Then(IF layout \in {"attributes", "stateAttributes"} THEN TakeJobAttributes(stated) ELSE stated,
         LAMBDA job : [job EXCEPT !.value.layout = layout])))

\* decodeNativeCompactClaimJobs: the first layout that reads it all
DecodeClaims(data) ==
    LET try == [i \in DOMAIN Layouts |-> Whole(Counted(data, MaxItems, 16, LAMBDA d, l : TakeClaim(Layouts[i], d, l)))]
        fits == {i \in DOMAIN Layouts : try[i].ok}
    IN IF fits = {} THEN Refused ELSE try[CHOOSE i \in fits : \A j \in fits : i <= j]

\* decodeNativeCompactPipelineItem: the ways to read an item, in the order in
\* which they are tried.
PipelineLayouts == <<"stateAttributes", "attributes", "state", "base">>
Item(r, Make(_)) == IF r.ok THEN <<[value |-> Make(r.value), rest |-> r.rest, left |-> r.left]>> ELSE <<>>
TakeRef(data, left) ==
    Then(TakeBinary(data), LAMBDA ref :
    Then(TakeOptional(ref.rest), LAMBDA partition :
    Then(TakeOptional(partition.rest), LAMBDA owner :
         Read([t |-> "ref", ref |-> ref.value, partition |-> partition.value, owner |-> owner.value],
              owner.rest, left))))
TakeOK(tag, data, left) ==
    CASE tag = 0 -> <<[value |-> NilValue, rest |-> data, left |-> left]>>
      [] tag = 1 -> Item(TakeText(data, left), Bin)
      [] tag = 2 -> Item(TakeRecord(data, left), LAMBDA v : [t |-> "record", fields |-> v])
      [] tag = 3 -> Item(TakeRecords(data, left), LAMBDA v : [t |-> "records", records |-> v])
      [] tag = 4 -> FlattenSeq([i \in DOMAIN PipelineLayouts |->
                      Item(TakeClaim(PipelineLayouts[i], data, left), LAMBDA v : [t |-> "claim", claim |-> v])])
      [] tag = 5 -> Item(TakeRef(data, left), LAMBDA v : v)
      [] tag = 6 -> Item(TakeList(data, left), LAMBDA v : [t |-> "list", list |-> v])
      [] tag = 7 -> Item(TakeMap(data, left), LAMBDA v : [t |-> "binmap", map |-> v])
      [] OTHER -> <<>>
Candidates(data, left) ==
    IF data = <<>> THEN <<>>
    ELSE IF data[1] = 0 THEN IF Len(data) = 1 THEN <<>> ELSE TakeOK(data[2], From(data, 3), left)
    ELSE IF data[1] = 1 THEN Item(TakeText(Tail(data), left), LAMBDA v : [t |-> "busy", s |-> v])
    ELSE IF data[1] = 2 THEN Item(TakeText(Tail(data), left), LAMBDA v : [t |-> "error", s |-> v])
    ELSE <<>>

\* decodeNativeCompactPipelineResponse: depth first, the first choices that read
\* n items and leave nothing.  Remembering what failed saves time only; the
\* bound on the attempts is far above what a pipeline this short needs.
RECURSIVE DecodeItems(_, _, _)
DecodeOneOf(candidates, n) ==
    LET after == [i \in DOMAIN candidates |-> DecodeItems(n - 1, candidates[i].rest, candidates[i].left)]
        good == {i \in DOMAIN candidates : after[i].ok}
        i == CHOOSE x \in good : \A y \in good : x <= y
    IN IF good = {} THEN Refused
       ELSE Read(<<candidates[i].value>> \o after[i].value, <<>>, after[i].left)
DecodeItems(n, data, left) ==
    IF n > 0 THEN DecodeOneOf(Candidates(data, left), n)
    ELSE IF data = <<>> THEN Read(<<>>, data, left) ELSE Refused

\* One item of a compact MGET
TakePresent(data, left) ==
    IF data = <<>> \/ data[1] > 1 THEN Refused
    ELSE IF data[1] = 0 THEN Read(NilValue, Tail(data), left)
    ELSE Then(TakeText(Tail(data), left), LAMBDA b : Read(Bin(b.value), b.rest, left))
TakeInteger(data, left) ==
    IF Len(data) < 8 THEN Refused ELSE Read(Signed(SubSeq(data, 1, 8)), From(data, 9), left)
\* The lists that are not charged to an allowance
Uncharged(data, bytesPerItem, Take(_, _)) ==
    IF Len(data) < 4 \/ ~ CountFits(Number(data), From(data, 5), bytesPerItem) THEN Refused
    ELSE ReadAll(Number(data), From(data, 5), MaxItems, Take)

Fixed(data) ==
    LET n == Number(data)
        size == Number(From(data, 5))
    IN IF Len(data) < 8 \/ n > MaxItems THEN Refused
       ELSE IF n * size # Len(data) - 8 THEN Refused
       ELSE Got([i \in 1..n |-> Bin(SubSeq(data, 9 + (i - 1) * size, 8 + i * size))], <<>>)

\* decodeNativeCompactValueWithCodecs
DecodeCompact(data) ==
    LET marker == data[1]
        body == Tail(data)
    IN CASE marker = OKList -> IF Len(body) = 4 /\ Number(body) <= MaxItems THEN Got(Number(body), <<>>) ELSE Refused
         [] marker = KVGet -> Whole(TakePresent(body, MaxItems))
         [] marker = KVMGet -> Whole(Uncharged(body, 1, TakePresent))
         [] marker = KVMGetFixed -> Fixed(body)
         [] marker = IntegerList -> Whole(Uncharged(body, 8, TakeInteger))
         [] marker = BinaryListList -> Whole(Counted(body, MaxItems, 4, TakeList))
         [] marker = BinaryMapList -> Whole(Counted(body, MaxItems, 4, TakeMap))
         [] marker = ClaimJobs -> DecodeClaims(body)
         [] marker = FlowRecord -> Whole(TakeRecord(data, MaxItems))
         [] marker = FlowRecordList -> Whole(TakeRecords(data, MaxItems))
         [] marker = PipelineResponse ->
              IF Len(body) < 4 \/ ~ CountFits(Number(body), From(body, 5), 2) THEN Refused
              ELSE DecodeItems(Number(body), From(body, 5), MaxItems - Number(body))
         [] OTHER -> Refused
=============================================================================
