--------------------------- MODULE GreeterMessage ---------------------------
(***************************************************************************)
(* The messages of the browser client of example/boot/grpc-web             *)
(* (api/gen/v1/greeter_pb.js), and what they use of the protobuf runtime   *)
(* that is bundled with them (bundle.js:837-992).                          *)
(*                                                                         *)
(* A JavaScript string is the sequence of its UTF-16 code units, a byte a  *)
(* number below 256.  A message is the array a jspb.Message keeps: empty,  *)
(* or its one field, a text or null.  A cursor counts from 0.  An          *)
(* assertion of the runtime throws: Throw.  The runtime is compiled with   *)
(* assertions on (goog.DEBUG).                                             *)
(***************************************************************************)
EXTENDS Integers, SequencesExt

Throw == [ok |-> FALSE]
At(cursor) == [ok |-> TRUE, cursor |-> cursor]

(* What follows, unless it throws. *)
Then(result, Rest(_)) == IF result.ok THEN Rest(result) ELSE Throw

Varint     == 0
Fixed64    == 1
Delimited  == 2
StartGroup == 3
EndGroup   == 4
Fixed32    == 5

-----------------------------------------------------------------------------
(* Writing. *)

(* Seven bits a byte, the lowest first, all but the last with the top bit. *)
WriteUnsignedVarint32(n) ==
    LET bytes[v \in Nat] == IF v < 128 THEN <<v>>
                            ELSE <<(v % 128) + 128>> \o bytes[v \div 128]
    IN  bytes[n]

CodeUnits == 0..65535

High(u) == u \in 55296..56319
Low(u)  == u \in 56320..57343

Tail6(u) == (u % 64) + 128

(* UTF-8 of the code unit at position i of s.  A pair of surrogates is one *)
(* character of four bytes, written at its first half; a high surrogate    *)
(* before anything else is dropped, and a lone one at the end or a lone    *)
(* low one is written as if it were a character.                           *)
WriteUnit(s, i) ==
    LET u == s[i]
        paired == i > 1 /\ Low(u) /\ High(s[i - 1])
    IN  IF u < 128 THEN <<u>>
        ELSE IF u < 2048 THEN <<(u \div 64) + 192, Tail6(u)>>
        ELSE IF High(u) /\ i < Len(s) THEN
            IF ~Low(s[i + 1]) THEN <<>>
            ELSE LET c == 1024 * (u - 55296) + s[i + 1] - 56320 + 65536
                 IN  <<(c \div 262144) + 240, Tail6(c \div 4096),
                       Tail6(c \div 64), Tail6(c)>>
        ELSE IF paired THEN <<>>
        ELSE <<(u \div 4096) + 224, Tail6(u \div 64), Tail6(u)>>

EncodeString(s) == FlattenSeq([i \in 1..Len(s) |-> WriteUnit(s, i)])

(* A writer has finished blocks, and the bytes its encoder holds. *)
NewWriter == [blocks |-> <<>>, buffer |-> <<>>]

(* The encoder gives its bytes away. *)
End(writer) ==
    [blocks |-> Append(writer.blocks, writer.buffer), buffer |-> <<>>]

Write(writer, bytes) == [writer EXCEPT !.buffer = @ \o bytes]

WriteFieldHeader(writer, field, wireType) ==
    Write(writer, WriteUnsignedVarint32(8 * field + wireType))

(* The block in front of what is delimited ends with the field's header... *)
BeginDelimited(writer, field) == End(WriteFieldHeader(writer, field, Delimited))

(* ...and gets the length of what the encoder holds since. *)
EndDelimited(writer) ==
    [writer EXCEPT !.blocks[Len(writer.blocks)] =
         @ \o WriteUnsignedVarint32(Len(writer.buffer))]

WriteString(writer, field, s) ==
    EndDelimited(Write(BeginDelimited(writer, field), EncodeString(s)))

GetResultBuffer(writer) == FlattenSeq(End(writer).blocks)

-----------------------------------------------------------------------------
(* Reading. *)

(* A decoder stands in front of the first of its bytes. *)
SetBlock(decoder, bytes) == [decoder EXCEPT !.bytes = bytes, !.cursor = 0]

NewDecoder(bytes) == SetBlock([bytes |-> <<>>, cursor |-> 0], bytes)

(* A reader has a decoder, and stands where that does. *)
NewReader(bytes) == [decoder |-> NewDecoder(bytes)]

AtEnd(bytes, cursor) == cursor = Len(bytes)

(* A varint of n bytes.  Five of them count, with 32 bits in all. *)
VarintOf(bytes, cursor, n) ==
    LET bits(k, m) == IF k < n THEN bytes[cursor + k + 1] % m ELSE 0
    IN  [ok |-> TRUE, cursor |-> cursor + n,
         value |-> bits(0, 128) + bits(1, 128) * 128 + bits(2, 128) * 16384
                       + bits(3, 128) * 2097152 + bits(4, 16) * 268435456]

(* It has up to ten bytes.  A byte that is not there does not end it.  A   *)
(* value is below 2^31 here.                                               *)
ReadUnsignedVarint32(bytes, cursor) ==
    LET ends == {k \in 0..9 : /\ cursor + k < Len(bytes)
                              /\ bytes[cursor + k + 1] < 128}
    IN  IF ends = {} THEN Throw ELSE VarintOf(bytes, cursor, Min(ends) + 1)

(* A byte that is not there: it begins no character, and adds no bits. *)
Lead(bytes, i) == IF i < Len(bytes) THEN bytes[i + 1] ELSE 128
Low6(bytes, i) == IF i < Len(bytes) THEN bytes[i + 1] % 64 ELSE 0

(* The bytes of the character that begins with b. *)
Width(b) ==
    IF b < 192 \/ b >= 248 THEN 1 ELSE IF b < 224 THEN 2 ELSE IF b < 240 THEN 3 ELSE 4

(* The code units of the character at i.  A byte that begins none has no   *)
(* units.                                                                  *)
Units(bytes, i) ==
    LET b == Lead(bytes, i)
        c == (b % 8) * 262144 + Low6(bytes, i + 1) * 4096
                 + Low6(bytes, i + 2) * 64 + Low6(bytes, i + 3) - 65536
    IN  CASE b < 128 -> <<b>>
          [] 192 <= b /\ b < 224 -> <<(b % 32) * 64 + Low6(bytes, i + 1)>>
          [] 224 <= b /\ b < 240 ->
                 <<(b % 16) * 4096 + Low6(bytes, i + 1) * 64 + Low6(bytes, i + 2)>>
          [] 240 <= b /\ b < 248 ->
                 <<((c \div 1024) % 1024) + 55296, (c % 1024) + 56320>>
          [] OTHER -> <<>>

(* Characters from cursor on until length bytes are read.  The last one    *)
(* may reach past them.                                                    *)
DecodeString(bytes, cursor, length) ==
    LET chars[i \in Nat] ==
            IF i >= cursor + length
            THEN [ok |-> TRUE, cursor |-> i, value |-> <<>>]
            ELSE LET rest == chars[i + Width(Lead(bytes, i))]
                 IN  [ok |-> TRUE, cursor |-> rest.cursor,
                      value |-> Units(bytes, i) \o rest.value]
    IN  chars[cursor]

(* The cursor is past the end. *)
GetError(bytes, cursor) == cursor > Len(bytes)

(* The tag at a cursor that is not the end. *)
NextField(bytes, cursor) ==
    IF GetError(bytes, cursor) THEN Throw
    ELSE Then(ReadUnsignedVarint32(bytes, cursor), LAMBDA tag :
             IF tag.value % 8 > Fixed32 THEN Throw
             ELSE [ok |-> TRUE, cursor |-> tag.cursor,
                   field |-> tag.value \div 8, wireType |-> tag.value % 8])

IsEndGroup(tag) == tag.wireType = EndGroup

Advance(bytes, cursor) == IF GetError(bytes, cursor) THEN Throw ELSE At(cursor)

SkipVarint(bytes, cursor) ==
    At(Min({i \in cursor..Len(bytes) : i < Len(bytes) => bytes[i + 1] < 128}) + 1)

SkipDelimited(bytes, cursor) ==
    Then(ReadUnsignedVarint32(bytes, cursor), LAMBDA length :
        Advance(bytes, length.cursor + length.value))

SkipScalar(bytes, tag) ==
    CASE tag.wireType = Varint    -> SkipVarint(bytes, tag.cursor)
      [] tag.wireType = Fixed64   -> Advance(bytes, tag.cursor + 8)
      [] tag.wireType = Delimited -> SkipDelimited(bytes, tag.cursor)
      [] tag.wireType = Fixed32   -> Advance(bytes, tag.cursor + 4)

(* The fields of a group up to its end tag; groups nest. *)
SkipGroup(bytes, start) ==
    LET group[at \in [cursor : Nat, number : Nat]] ==
            IF AtEnd(bytes, at.cursor) THEN Throw
            ELSE Then(NextField(bytes, at.cursor), LAMBDA tag :
                IF ~IsEndGroup(tag)
                THEN Then(IF tag.wireType = StartGroup
                          THEN group[[cursor |-> tag.cursor, number |-> tag.field]]
                          ELSE SkipScalar(bytes, tag),
                          LAMBDA inner : group[[at EXCEPT !.cursor = inner.cursor]])
                ELSE IF tag.field = at.number THEN At(tag.cursor) ELSE Throw)
    IN  group[[cursor |-> start.cursor, number |-> start.field]]

SkipField(bytes, tag) ==
    IF tag.wireType = StartGroup THEN SkipGroup(bytes, tag)
    ELSE SkipScalar(bytes, tag)

ReadString(bytes, tag) ==
    IF tag.wireType # Delimited THEN Throw
    ELSE Then(ReadUnsignedVarint32(bytes, tag.cursor), LAMBDA length :
             DecodeString(bytes, length.cursor, length.value))

-----------------------------------------------------------------------------
(* jspb.Message: an array, where a field that is not there is as null.     *)

Null == <<-1>>

Initialize == <<>>

GetField(msg) == IF msg = <<>> THEN Null ELSE msg[1]

GetFieldWithDefault(msg, default) ==
    IF GetField(msg) = Null THEN default ELSE GetField(msg)

SetField(msg, value) == <<value>>

(* The empty text is the default: null takes its place. *)
SetFieldIgnoringDefault(msg, value, default) ==
    IF value = default THEN <<Null>> ELSE SetField(msg, value)

SetProto3StringField(msg, value) == SetFieldIgnoringDefault(msg, value, <<>>)

CompareFields(value, other) == value = other

(* A field that was never set equals one that was set to the empty text. *)
Equals(msg, other) == CompareFields(GetField(msg), GetField(other))

-----------------------------------------------------------------------------
(* GreeterRequest, and GreeterResponse, which is generated likewise. *)

GreeterRequest == Initialize

GetMessage(msg) == GetFieldWithDefault(msg, <<>>)

SetMessage(msg, value) == SetProto3StringField(msg, value)

ToObject(msg) == [message |-> GetFieldWithDefault(msg, <<>>)]

SerializeBinary(msg) ==
    LET writer == NewWriter
    IN  GetResultBuffer(IF Len(GetMessage(msg)) > 0
                        THEN WriteString(writer, 1, GetMessage(msg)) ELSE writer)

(* An end tag outside of a group stops the reader, whatever is behind it.  *)
(* A field that comes again replaces the text.                             *)
DeserializeBinary(bytes) ==
    LET done(msg) == [ok |-> TRUE, msg |-> msg]
        fields[at \in [cursor : Nat, msg : Seq(Seq(Int))]] ==
            IF AtEnd(bytes, at.cursor) THEN done(at.msg)
            ELSE Then(NextField(bytes, at.cursor), LAMBDA tag :
                IF IsEndGroup(tag) THEN done(at.msg)
                ELSE IF tag.field = 1
                THEN Then(ReadString(bytes, tag), LAMBDA read :
                         fields[[cursor |-> read.cursor,
                                 msg |-> SetMessage(at.msg, read.value)]])
                ELSE Then(SkipField(bytes, tag), LAMBDA skip :
                         fields[[at EXCEPT !.cursor = skip.cursor]]))
    IN  fields[[cursor |-> NewReader(bytes).decoder.cursor, msg |-> Initialize]]

GreeterResponse == Initialize

ResponseGetMessage(msg) == GetFieldWithDefault(msg, <<>>)

ResponseSetMessage(msg, value) == SetProto3StringField(msg, value)

ResponseToObject(msg) == ToObject(msg)

ResponseSerializeBinary(msg) == SerializeBinary(msg)

ResponseDeserializeBinary(bytes) == DeserializeBinary(bytes)

-----------------------------------------------------------------------------
(* What a text and its message are measured by. *)

(* Each half of a pair of surrogates has its other half. *)
WellFormed(text) ==
    \A i \in 1..Len(text) :
        /\ High(text[i]) => i < Len(text) /\ Low(text[i + 1])
        /\ Low(text[i]) => i > 1 /\ High(text[i - 1])

(* Bytes of a text in UTF-8: one for a code unit, one more for those that  *)
(* are not ASCII, and a third for the others from 2048 on, but for halves  *)
(* of a pair of surrogates.                                                *)
Utf8Size(text) ==
    Len(text) + Cardinality({i \in 1..Len(text) : text[i] >= 128})
        + Cardinality({i \in 1..Len(text) :
                          text[i] >= 2048 /\ ~High(text[i]) /\ ~Low(text[i])})

(* A field has its tag and its size in front, seven bits of that a byte.   *)
(* An empty text is no field.                                              *)
FieldSize(size) ==
    IF size = 0 THEN 0
    ELSE 1 + Cardinality({n \in {1, 128, 16384, 2097152, 268435456} : n <= size}) + size
=============================================================================
