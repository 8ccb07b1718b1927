-------------------------------- MODULE Codec --------------------------------
(* The native wire format of values: native_codec_wire.go,                    *)
(* native_codec_reflect.go, native_codec_kv_wire.go, native_codec_decode.go   *)
(* and the FLOW.QUERY payload of native_flow_query_request.go.                *)
(*                                                                            *)
(* A body is a sequence of bytes.  Writing and reading a value both count the *)
(* nesting and the items, so that the library never sends what a server with  *)
(* the same limits refuses, and never reads more than its share.  The         *)
(* payloads of frequent commands are written without building the map that    *)
(* they stand for.                                                            *)
(*                                                                            *)
(* Numbers are their eight bytes; text is a sequence of bytes.                *)
EXTENDS Integers, Sequences, SequencesExt, FiniteSets

CONSTANTS
    MaxDepth,       \* nativeMaxEncodeDepth, nativeMaxDecodeDepth
    MaxItems,       \* nativeMaxContainerItems
    Texts           \* the strings and keys of the inputs

Refused == [ok |-> FALSE]
NilValue == [t |-> "nil"]
Bool(b) == [t |-> "bool", b |-> b]
Signed(bits) == [t |-> "int", bits |-> bits]
Unsigned(bits) == [t |-> "uint", bits |-> bits]
Float(bits) == [t |-> "float", bits |-> bits]
Text(s) == [t |-> "string", s |-> s]
Bin(s) == [t |-> "bytes", s |-> s]
Array(items) == [t |-> "array", items |-> items]
MapOf(f) == [t |-> "map", f |-> f]
\* A map of another type than map[string]any: its entries, in no order; two keys
\* of different types may have the same text.
Entries(items) == [t |-> "entries", items |-> items]
Pointer(v) == [t |-> "pointer", to |-> v]
Unsupported == [t |-> "unsupported"]

-----------------------------------------------------------------------------
(* Writing.                                                                   *)

\* A length or a count: four bytes.  No input here is longer than one can say.
Word(n) == <<0, 0, n \div 256, n % 256>>
Header(tag, n) == <<tag>> \o Word(n)
MapKey(k) == Word(Len(k)) \o k

Written(bytes, left) == [ok |-> TRUE, bytes |-> bytes, left |-> left]

Before(a, b) ==
    \/ IsPrefix(a, b) /\ a # b
    \/ \E i \in 1..Len(a) : /\ i <= Len(b) /\ a[i] < b[i]
                            /\ \A j \in 1..(i - 1) : a[j] = b[j]
SortedKeys(K) == SetToSortSeq(K, Before)

\* sortedNativeReflectMapEntries
SortedEntries(items) == SortSeq(items, LAMBDA x, y : Before(x.key, y.key))
DuplicateKeys(items) == \E i, j \in DOMAIN items : i # j /\ items[i].key = items[j].key

\* nativeEncodeState.enter
Entered(left, depth) == depth <= MaxDepth /\ left > 0

\* Mutant: an unsigned value is written as a signed one of the same bits.
WriteUintSigned(bits) == <<3>> \o bits

\* writeNativeInt, writeNativeUint: a value that fits is an integer
WriteUint(bits) == <<IF bits[1] < 128 THEN 3 ELSE 8>> \o bits

\* The parts of a container, one after the other, while they are accepted.
WriteAll(parts, left, Write(_, _)) ==
    FoldLeft(LAMBDA done, part :
               LET w == Write(part, done.left)
               IN IF ~ done.ok THEN Refused
                  ELSE IF ~ w.ok THEN Refused
                  ELSE Written(done.bytes \o w.bytes, w.left),
             Written(<<>>, left), parts)

Headed(tag, n, body) == IF body.ok THEN Written(Header(tag, n) \o body.bytes, body.left) ELSE Refused

RECURSIVE WriteValue(_, _, _)
WriteItems(items, left, depth) == WriteAll(items, left, LAMBDA v, l : WriteValue(v, l, depth))
WriteField(field, left, depth) ==
    LET w == WriteValue(field.value, left, depth)
    IN IF w.ok THEN Written(MapKey(field.key) \o w.bytes, w.left) ELSE Refused
WriteFields(fields, left, depth) == WriteAll(fields, left, LAMBDA f, l : WriteField(f, l, depth))
WriteValue(v, left, depth) ==
    LET l == left - 1
        n == IF v.t \in {"array", "entries"} THEN Len(v.items)
             ELSE IF v.t = "map" THEN Cardinality(DOMAIN v.f) ELSE 0
    IN IF ~ Entered(left, depth) \/ n > l THEN Refused
       ELSE CASE v.t = "nil" -> Written(<<0>>, l)
              [] v.t = "bool" -> Written(<<IF v.b THEN 1 ELSE 2>>, l)
              [] v.t = "int" -> Written(<<3>> \o v.bits, l)
              [] v.t = "uint" -> Written(WriteUint(v.bits), l)
              [] v.t = "float" -> Written(<<7>> \o v.bits, l)
              [] v.t \in {"string", "bytes"} -> Written(Header(4, Len(v.s)) \o v.s, l)
              [] v.t = "array" -> Headed(5, n, WriteItems(v.items, l, depth + 1))
              [] v.t = "map" ->
                   LET keys == SortedKeys(DOMAIN v.f)
                   IN Headed(6, n, WriteFields([i \in DOMAIN keys |-> [key |-> keys[i], value |-> v.f[keys[i]]]],
                                               l, depth + 1))
              [] v.t = "entries" ->
                   IF DuplicateKeys(v.items) THEN Refused
                   ELSE Headed(6, n, WriteFields(SortedEntries(v.items), l, depth + 1))
              [] v.t = "pointer" -> WriteValue(v.to, l, depth + 1)
              [] v.t = "unsupported" -> Refused

\* encodeNativeValueWithLimit
Encode(v, limit) ==
    LET w == WriteValue(v, MaxItems, 0)
    IN IF w.ok /\ Len(w.bytes) <= limit THEN w ELSE Refused

-----------------------------------------------------------------------------
(* The payloads that are written without their map.                           *)

CommandKey == <<99>>        \* "command"
ArgsKey == <<97>>           \* "args"
KeysKey == <<107>>          \* "keys"
PairsKey == <<112>>         \* "pairs"
DeadlineKey == <<100>>      \* "deadline_ms"
ParamsKey == <<112>>        \* "params"
QueryKey == <<113>>         \* "query"
VersionKey == <<118>>       \* "version"
Version == <<70>>           \* flowQueryLanguageVersion

\* An inner container: entered at its own depth, its n items counted against what
\* is left; body is what they are written as, one level further down.
WriteInner(tag, n, left, depth, body) ==
    IF ~ Entered(left, depth) \/ n > left - 1 THEN Refused
    ELSE Headed(tag, n, body)

\* writeNativeMGetPayload: {"keys": [...]}
WriteMGet(keys) ==
    LET l == MaxItems - 1
        inner == WriteInner(5, Len(keys), l, 1, WriteItems(keys, l - 1, 2))
    IN IF ~ Entered(MaxItems, 0) \/ 1 > l \/ ~ inner.ok THEN Refused
       ELSE Written(Header(6, 1) \o MapKey(KeysKey) \o inner.bytes, inner.left)

\* writeNativeMSetPayload: {"pairs": [[key, value], ...]}
WritePair(pair, left) == WriteInner(5, 2, left, 2, WriteItems(pair, left - 1, 3))
WriteMSet(pairs) ==
    LET l == MaxItems - 1
        inner == WriteInner(5, Len(pairs), l, 1, WriteAll(pairs, l - 1, WritePair))
    IN IF ~ Entered(MaxItems, 0) \/ 1 > l \/ ~ inner.ok THEN Refused
       ELSE Written(Header(6, 1) \o MapKey(PairsKey) \o inner.bytes, inner.left)

\* writeNativeKeyCommandPayload and writeNativeKeyValueCommandPayload:
\* {"command": name, "args": [...]}, with the keys, or keys and values in turn.
WriteCommand(name, args) ==
    LET l == MaxItems - 1
        command == WriteValue(name, l, 1)
        inner == WriteInner(5, Len(args), command.left, 1, WriteItems(args, command.left - 1, 2))
    IN IF ~ Entered(MaxItems, 0) \/ 2 > l THEN Refused
       ELSE IF ~ command.ok THEN Refused
       ELSE IF ~ inner.ok THEN Refused
       ELSE Written(Header(6, 2) \o MapKey(CommandKey) \o command.bytes
                    \o MapKey(ArgsKey) \o inner.bytes, inner.left)

\* writeNativeFlowQueryPayload; deadline and parameters may be missing.
WriteQuery(query, params, deadline) ==
    LET n == 2 + Len(deadline) + IF params = <<>> THEN 0 ELSE 1
        l == MaxItems - 1
        due == IF deadline = <<>> THEN Written(<<>>, l) ELSE WriteValue(deadline[1], l, 1)
        inner == IF params = <<>> THEN Written(<<>>, due.left)
                 ELSE WriteInner(6, Len(params), due.left, 1, WriteFields(params, due.left - 1, 2))
        text == WriteValue(Text(query), inner.left, 1)
        version == WriteValue(Text(Version), text.left, 1)
    IN IF ~ Entered(MaxItems, 0) \/ n > l THEN Refused
       ELSE IF ~ due.ok THEN Refused
       ELSE IF ~ inner.ok THEN Refused
       ELSE IF ~ text.ok THEN Refused
       ELSE IF ~ version.ok THEN Refused
       ELSE Written(Header(6, n)
                    \o (IF deadline = <<>> THEN <<>> ELSE MapKey(DeadlineKey) \o due.bytes)
                    \o (IF params = <<>> THEN <<>> ELSE MapKey(ParamsKey) \o inner.bytes)
                    \o MapKey(QueryKey) \o text.bytes \o MapKey(VersionKey) \o version.bytes,
                    version.left)

\* nativeFlowQueryPayload.nativeEncodedSize, which sizes the buffer and refuses a
\* payload over the limit before anything is written.
ValueSize(v) ==
    CASE v.t \in {"string", "bytes"} -> 5 + Len(v.s)
      [] v.t = "bool" -> 1
      [] v.t \in {"int", "float"} -> 9
QuerySize(query, params, deadline) ==
    5 + (IF deadline = <<>> THEN 0 ELSE 4 + Len(DeadlineKey) + 9)
      + (IF params = <<>> THEN 0
         ELSE FoldSeq(LAMBDA p, n : 4 + Len(p.key) + ValueSize(p.value) + n, 4 + Len(ParamsKey) + 5, params))
      + 4 + Len(QueryKey) + 5 + Len(query) + 4 + Len(VersionKey) + 5 + Len(Version)

-----------------------------------------------------------------------------
(* Reading: decodeNativeValueBudget.                                          *)

\* A number too large for any body here stands for all of them.
TooMany == 65536
Number(b) == IF b[1] > 0 \/ b[2] > 0 THEN TooMany ELSE 256 * b[3] + b[4]

Read(value, rest, left) == [ok |-> TRUE, value |-> value, rest |-> rest, left |-> left]
From(s, n) == SubSeq(s, n, Len(s))

\* nativeBoundedItemCount
CountFits(n, rest, bytesPerItem) == n <= MaxItems /\ n * bytesPerItem <= Len(rest)

\* n parts of the data, one after the other, while they can be read.
ReadAll(n, data, left, Take(_, _)) ==
    FoldLeft(LAMBDA done, i :
               LET part == Take(done.rest, done.left)
               IN IF ~ done.ok THEN Refused
                  ELSE IF ~ part.ok THEN Refused
                  ELSE Read(Append(done.value, part.value), part.rest, part.left),
             Read(<<>>, data, left), [i \in 1..n |-> i])
AsMap(fields) == [k \in {fields[i].key : i \in DOMAIN fields} |-> (CHOOSE f \in Range(fields) : f.key = k).value]

RECURSIVE ReadValue(_, _, _)
ReadField(data, left, depth) ==
    LET first == ReadValue(From(data, 5 + Number(data)), left, depth)
    IN IF Len(data) < 4 \/ Number(data) > Len(data) - 4 THEN Refused
       ELSE IF ~ first.ok THEN Refused
       ELSE Read([key |-> SubSeq(data, 5, 4 + Number(data)), value |-> first.value], first.rest, first.left)
ReadValue(data, left, depth) ==
    LET rest == Tail(data)
        n == Number(rest)
        body == From(rest, 5)
        l == left - 1
        items == ReadAll(n, body, l, LAMBDA d, k : ReadValue(d, k, depth + 1))
        fields == ReadAll(n, body, l, LAMBDA d, k : ReadField(d, k, depth + 1))
    IN IF data = <<>> \/ depth > MaxDepth \/ left = 0 THEN Refused
       ELSE IF data[1] > 8 \/ (data[1] \in {3, 7, 8} /\ Len(rest) < 8) \/ (data[1] \in 4..6 /\ Len(rest) < 4)
       THEN Refused
       ELSE CASE data[1] = 0 -> Read(NilValue, rest, l)
              [] data[1] \in {1, 2} -> Read(Bool(data[1] = 1), rest, l)
              [] data[1] = 3 -> Read(Signed(SubSeq(rest, 1, 8)), From(rest, 9), l)
              [] data[1] = 7 -> Read(Float(SubSeq(rest, 1, 8)), From(rest, 9), l)
              [] data[1] = 8 -> Read(Unsigned(SubSeq(rest, 1, 8)), From(rest, 9), l)
              [] data[1] = 4 -> IF Len(body) < n THEN Refused
                                ELSE Read(Bin(SubSeq(body, 1, n)), From(body, n + 1), l)
              [] data[1] = 5 -> IF ~ CountFits(n, body, 1) \/ n > l THEN Refused
                                ELSE IF ~ items.ok THEN Refused
                                ELSE Read(Array(items.value), items.rest, items.left)
              [] data[1] = 6 -> IF ~ CountFits(n, body, 5) \/ n > l THEN Refused
                                ELSE IF ~ fields.ok THEN Refused
                                ELSE IF DuplicateKeys(fields.value) THEN Refused
                                ELSE Read(MapOf(AsMap(fields.value)), fields.rest, fields.left)

\* decodeNativeValue, of a body that is one value
Decode(data) ==
    LET r == ReadValue(data, MaxItems, 0)
    IN IF r.ok /\ r.rest = <<>> THEN r ELSE Refused
=============================================================================
