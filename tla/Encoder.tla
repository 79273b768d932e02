------------------------------- MODULE Encoder -------------------------------
(***************************************************************************)
(* encode/0.4.ts and encode/0.5.ts: the buffer of an agent writer, made of *)
(* MessagePack bytes in chunks that grow (encode/chunk.ts).                *)
(*                                                                         *)
(* A chunk is a sequence of items, one for each MessagePack value, of some *)
(* size in bytes.  Every string is written once, to stringBytes, and       *)
(* found again through stringMap: 0.4 copies its bytes to where the string *)
(* occurs, 0.5 writes its number and sends the strings along.              *)
(***************************************************************************)
EXTENDS Integers, Sequences, FiniteSets, SequencesExt

CONSTANTS
    Versions,   \* the encoders: a subset of {"0.4", "0.5"}
    Traces,     \* the traces appended: sequences of spans
    SizeOf(_),  \* the length of a string in bytes
    Inherited,  \* strings that name properties of Object.prototype
    Cut,        \* a key over MAX_META_KEY_LENGTH -> what remains of it
    Limit,      \* SOFT_LIMIT of the encoder
    MaxLength   \* bound: traces since the last reset

\* A span as format.ts leaves it.
FormattedSpans ==
    [id : Int, service : STRING, name : STRING, resource : STRING, type : STRING,
     meta : Seq(STRING \X ({"string"} \X STRING)), metrics : Seq(STRING \X ({"float"} \X Int))]

ASSUME TracesAssumption ==
    /\ Traces \subseteq Seq(FormattedSpans)
    /\ Cut \in [DOMAIN Cut -> STRING]

\* The empty string stands for a missing one.
DEFAULT_SERVICE_NAME == "unnamed-service"
DEFAULT_SPAN_NAME == "unnamed_operation"

VARIABLES
    version,     \* which encoder it is
    traceBytes,  \* _traceBytes, the items of one chunk
    stringBytes, \* _stringBytes, the items of the other
    stringMap,   \* _stringMap: string -> where it is in stringBytes
    appended,    \* the traces encoded since the last reset, counted by _traceCount
    payload      \* the last payload, and the traces it should hold

encoderVars ==
    <<version, traceBytes, stringBytes, stringMap, appended, payload>>

-----------------------------------------------------------------------------
(* The strings: each is written once and found again through the map.      *)

Item(type, value, size) == [type |-> type, value |-> value, size |-> size]

\* Chunk.write: a short string takes one byte more than its own, others five.
StringItem(s) == Item("string", s, IF SizeOf(s) < 32 THEN SizeOf(s) + 1 ELSE SizeOf(s) + 5)

\* _cacheString: in says yes to what an object inherits, too.
CacheString(buffer, s) ==
    IF s \in DOMAIN buffer.map \cup Inherited THEN buffer
    ELSE [buffer EXCEPT !.strings = Append(@, StringItem(s)),
                        !.map = [x \in DOMAIN @ \cup {s} |->
                                    IF x = s THEN Len(buffer.strings) + 1 ELSE @[x]]]

\* _encodeString.  For an inherited property the map gives a function: 0.4
\* copies no bytes, and 0.5 writes it as the number 0.
StringIn(map, strings, s) ==
    IF version = "0.5" THEN <<Item("ref", IF s \in DOMAIN map THEN map[s] ELSE 1, 5)>>
    ELSE IF s \in DOMAIN map /\ map[s] \in DOMAIN strings THEN <<strings[map[s]]>> ELSE <<>>

\* _encodeInteger, _encodeId, _encodeLong, _encodeFloat and the prefixes.  A
\* value to encode is a pair of a type and a value.
ItemsOf(map, strings, v) ==
    CASE v[1] = "string" -> StringIn(map, strings, v[2])
      [] v[1] = "mark" -> <<Item("mark", v[2], 1)>>
      [] v[1] \in {"array", "map", "int"} -> <<Item(v[1], v[2], 5)>>
      [] OTHER -> <<Item(v[1], v[2], 9)>>

\* A value is written after its string was cached, all of a trace in turn.
EncodeValue(buffer, v) ==
    LET cached == IF v[1] = "string" THEN CacheString(buffer, v[2]) ELSE buffer
    IN  [cached EXCEPT !.bytes = @ \o ItemsOf(cached.map, cached.strings, v)]

Encoded(values) ==
    LET buffer[k \in 0 .. Len(values)] ==
            IF k = 0 THEN [bytes |-> traceBytes, strings |-> stringBytes, map |-> stringMap]
            ELSE EncodeValue(buffer[k - 1], values[k])
    IN  buffer[Len(values)]

-----------------------------------------------------------------------------
(* Spans.                                                                  *)

\* truncateSpan: an entry of meta under a long key is moved to metrics, where
\* it stays a string.  That long names and values are cut makes other names
\* and values of them, which no property tells apart.
CutKey(entry) == IF entry[1] \in DOMAIN Cut THEN <<Cut[entry[1]], entry[2]>> ELSE entry
IsLong(entry) == entry[1] \in DOMAIN Cut

Moved(span, entry) ==
    IF IsLong(entry) THEN [span EXCEPT !.metrics = Append(@, CutKey(entry))]
    ELSE [span EXCEPT !.meta = Append(@, entry)]

Truncated(span) ==
    LET moved[k \in 0 .. Len(span.meta)] ==
            IF k = 0 THEN [span EXCEPT !.meta = <<>>] ELSE Moved(moved[k - 1], span.meta[k])
    IN  [moved[Len(span.meta)] EXCEPT !.metrics = [k \in DOMAIN @ |-> CutKey(@[k])]]

\* normalizeSpan.
Normalized(span) ==
    [span EXCEPT !.service = IF @ = "" THEN DEFAULT_SERVICE_NAME ELSE @,
                 !.name = IF @ = "" THEN DEFAULT_SPAN_NAME ELSE @,
                 !.resource = IF @ # "" THEN @
                              ELSE IF span.name = "" THEN DEFAULT_SPAN_NAME ELSE span.name]

StrValue(s) == <<"string", s>>

\* _encodeMap: keys and values in turn, strings or numbers.
MapValues(entries) ==
    <<<<"map", Len(entries)>>>>
    \o FlattenSeq([k \in DOMAIN entries |-> <<StrValue(entries[k][1]), entries[k][2]>>])

Field(name, value) == <<StrValue(name), value>>

\* 0.4: a map of named fields.
Values04(span) ==
    <<<<"mark", IF span.type = "" THEN 11 ELSE 12>>>>
    \o (IF span.type = "" THEN <<>> ELSE Field("type", StrValue(span.type)))
    \o Field("trace_id", <<"id", span.id>>) \o Field("span_id", <<"id", span.id>>)
    \o Field("parent_id", <<"id", 0>>)
    \o Field("name", StrValue(span.name)) \o Field("resource", StrValue(span.resource))
    \o Field("service", StrValue(span.service))
    \o Field("error", <<"int", 0>>) \o Field("start", <<"long", span.id>>)
    \o Field("duration", <<"long", 1>>)
    \o <<StrValue("meta")>> \o MapValues(span.meta)
    \o <<StrValue("metrics")>> \o MapValues(span.metrics)

\* 0.5: an array of twelve values.
Values05(span) ==
    <<<<"mark", 12>>, StrValue(span.service), StrValue(span.name), StrValue(span.resource),
      <<"id", span.id>>, <<"id", span.id>>, <<"id", 0>>,
      <<"long", span.id>>, <<"long", 1>>, <<"int", 0>>>>
    \o MapValues(span.meta) \o MapValues(span.metrics)
    \o <<StrValue(span.type)>>

SpanValues(span) ==
    IF version = "0.4" THEN Values04(Normalized(Truncated(span)))
    ELSE Values05(Normalized(Truncated(span)))

\* What a trace consists of.
ValuesOf(trace) ==
    <<<<"array", Len(trace)>>>>
    \o FlattenSeq([k \in DOMAIN trace |-> SpanValues(trace[k])])

-----------------------------------------------------------------------------
(* The encoder.                                                            *)

BytesOf(items) == UNION {{k} \X (1 .. items[k].size) : k \in DOMAIN items}
OverLimit(items) == Cardinality(BytesOf(items)) > Limit

\* A variant of ResetMap: the map outlives the strings.
ResetMapStale == stringMap

\* _reset caches the empty string first, which makes it number 0 in 0.5.
ResetMap == [s \in {""} |-> 1]

Reset ==
    /\ traceBytes' = <<>>
    /\ stringBytes' = <<StringItem("")>>
    /\ stringMap' = ResetMap
    /\ appended' = <<>>
    /\ UNCHANGED version

EncoderInit ==
    /\ version \in Versions
    /\ traceBytes = <<>>
    /\ stringBytes = <<StringItem("")>>
    /\ stringMap = [s \in {""} |-> 1]
    /\ appended = <<>>
    /\ payload = [strings |-> <<>>, bytes |-> <<>>, of |-> <<>>]

Payload(bytes, strings, traces) == [strings |-> strings, bytes |-> bytes, of |-> traces]

\* encode.  A buffer over its limit is flushed: Writer.flush makes a payload
\* of it, or resets it at the limit of active requests.
Encode(trace) ==
    LET encoded == Encoded(ValuesOf(trace))
    IN /\ Len(appended) < MaxLength
       /\ IF OverLimit(encoded.bytes) \/ OverLimit(encoded.strings)
          THEN /\ Reset
               /\ \/ payload' = Payload(encoded.bytes, encoded.strings, Append(appended, trace))
                  \/ UNCHANGED payload
          ELSE /\ traceBytes' = encoded.bytes
               /\ stringBytes' = encoded.strings
               /\ stringMap' = encoded.map
               /\ appended' = Append(appended, trace)
               /\ UNCHANGED <<version, payload>>

\* makePayload, called by a flush with traces in the buffer.
MakePayload ==
    /\ appended # <<>>
    /\ payload' = Payload(traceBytes, stringBytes, appended)
    /\ Reset

\* reset, called by a flush at the limit of active requests.
Discard ==
    /\ Reset
    /\ UNCHANGED payload

EncoderNext == (\E trace \in Traces : Encode(trace)) \/ MakePayload \/ Discard

EncoderSpec == EncoderInit /\ [][EncoderNext]_encoderVars

-----------------------------------------------------------------------------
(* Properties.                                                             *)

\* The agent's reading of an item.
Read(item) ==
    IF item.type # "ref" THEN <<item.type, item.value>>
    ELSE IF item.value \in DOMAIN payload.strings
    THEN StrValue(payload.strings[item.value].value)
    ELSE <<"nothing">>

Strings(values) == {values[k][2] : k \in {k \in DOMAIN values : values[k][1] = "string"}}

\* A payload reads back as the traces appended since the last one: the strings
\* in the map, the offsets or numbers it gives and the bytes they are about
\* are reset together, at every flush, flush over the limit and discard.  The
\* code breaks this for strings that name a property every object has.
PayloadDecodes ==
    LET values == FlattenSeq([k \in DOMAIN payload.of |-> ValuesOf(payload.of[k])])
    IN Strings(values) \cap Inherited = {} =>
         [k \in DOMAIN payload.bytes |-> Read(payload.bytes[k])] = values
=============================================================================
