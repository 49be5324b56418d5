----------------------------- MODULE JsonBinary -----------------------------
(***************************************************************************)
(* CBOR and MessagePack as the JSON library writes and reads them: the     *)
(* binary_writer and the binary_reader of src/lib/cpp/json.hpp.  A         *)
(* document is a sequence of bytes.  The writer is an operator on values;  *)
(* the reader is one on a document and a place in it, and gives the value  *)
(* there with the place behind it, or the error that it throws.            *)
(***************************************************************************)
EXTENDS JsonValue

(* write_number: a size in some bytes behind the byte that tells it.       *)
Sized(byte, size, width) == <<byte>> \o Padded(size, width)

(* The narrowest of the widths that holds a size.                          *)
Narrowest(size, widths) ==
    CHOOSE w \in widths : Len(size) <= w /\ \A u \in widths : Len(size) <= u => w <= u

Log2(width) == CASE width = 1 -> 0 [] width = 2 -> 1 [] width = 4 -> 2 [] width = 8 -> 3
-----------------------------------------------------------------------------
(* CBOR, written.  A head is the kind, in the upper three bits, and a size: *)
(* below 24 in the same byte, or in one, two, four or eight more.          *)

CborHead(kind, size) ==
    IF Len(size) <= 1 /\ Small(size) <= 23 THEN <<kind + Small(size)>>
    ELSE LET width == Narrowest(size, {1, 2, 4, 8})
         IN  Sized(kind + 24 + Log2(width), size, width)

CborUnsigned(v) == CborHead(0, v[3])

MagnitudeOnly(v) == CborHead(0, v[3]) \* slip: the sign is lost
CborInteger(v) == CborHead(IF v[2] THEN 32 ELSE 0, v[3])

CborString(bytes) == CborHead(96, Size(Len(bytes))) \o bytes

RECURSIVE WriteCbor(_)
CborArray(elements) ==
    CborHead(128, Size(Len(elements)))
    \o FlattenSeq([i \in DOMAIN elements |-> WriteCbor(elements[i])])

CborObject(members) ==
    LET keys == Keys(members)
    IN  CborHead(160, Size(Len(keys)))
        \o FlattenSeq([i \in DOMAIN keys |-> CborString(keys[i]) \o WriteCbor(members[keys[i]])])

WriteCbor(v) ==
    CASE v[1] = "null" -> <<246>>
      [] v[1] = "boolean" -> <<IF v[2] THEN 245 ELSE 244>>
      [] v[1] = "integer" -> CborInteger(v)
      [] v[1] = "unsigned" -> CborUnsigned(v)
      [] v[1] = "float" -> <<251>> \o v[2]
      [] v[1] = "string" -> CborString(v[2])
      [] v[1] = "array" -> CborArray(v[2])
      [] v[1] = "object" -> CborObject(v[2])
-----------------------------------------------------------------------------
(* MessagePack, written.                                                   *)

MsgpackUnsigned(v) ==
    IF Len(v[3]) <= 1 /\ Small(v[3]) < 128 THEN <<Small(v[3])>>
    ELSE LET width == Narrowest(v[3], {1, 2, 4, 8})
         IN  Sized(204 + Log2(width), v[3], width)

(* A number below zero in the fewest bytes that hold it with its sign.     *)
MsgpackNegative(size) ==
    LET width == CHOOSE w \in {1, 2, 4, 8} :
                    /\ FitsSigned(size, w)
                    /\ \A u \in {1, 2, 4, 8} : FitsSigned(size, u) => w <= u
    IN  IF Len(size) <= 1 /\ Small(size) < 32 THEN <<255 - Small(size)>>
        ELSE <<208 + Log2(width)>> \o Complement(Padded(size, width))

MsgpackInteger(v) == IF v[2] THEN MsgpackNegative(v[3]) ELSE MsgpackUnsigned(v)

MsgpackString(bytes) ==
    LET size == Size(Len(bytes))
        width == Narrowest(size, {1, 2, 4})
    IN  (IF Len(bytes) <= 31 THEN <<160 + Len(bytes)>> ELSE Sized(217 + Log2(width), size, width))
        \o bytes

\* The head of a container: of an array from 144, of an object from 128.
MsgpackHead(fix, wide, n) ==
    LET width == Narrowest(Size(n), {2, 4})
    IN  IF n <= 15 THEN <<fix + n>> ELSE Sized(wide + Log2(width) - 1, Size(n), width)

RECURSIVE WriteMsgpack(_)
MsgpackArray(elements) ==
    MsgpackHead(144, 220, Len(elements))
    \o FlattenSeq([i \in DOMAIN elements |-> WriteMsgpack(elements[i])])

MsgpackObject(members) ==
    LET keys == Keys(members)
    IN  MsgpackHead(128, 222, Len(keys))
        \o FlattenSeq([i \in DOMAIN keys |->
                            MsgpackString(keys[i]) \o WriteMsgpack(members[keys[i]])])

WriteMsgpack(v) ==
    CASE v[1] = "null" -> <<192>>
      [] v[1] = "boolean" -> <<IF v[2] THEN 195 ELSE 194>>
      [] v[1] = "integer" -> MsgpackInteger(v)
      [] v[1] = "unsigned" -> MsgpackUnsigned(v)
      [] v[1] = "float" -> <<203>> \o v[2]
      [] v[1] = "string" -> MsgpackString(v[2])
      [] v[1] = "array" -> MsgpackArray(v[2])
      [] v[1] = "object" -> MsgpackObject(v[2])
-----------------------------------------------------------------------------
(* Reading.                                                                *)

EndOfInput == -1

(* get(): the byte at a place, which may be behind the last one.           *)
ByteAt(doc, at) == IF at <= Len(doc) THEN doc[at] ELSE EndOfInput

(* get_number: a number of some bytes, which must all be there.            *)
GetNumber(doc, at, width) ==
    IF at + width - 1 > Len(doc) THEN Error("end of input")
    ELSE Result(SubSeq(doc, at, at + width - 1), at + width)

Sizes(read) == Then(read, LAMBDA r : Result(Normal(r.value), r.next))

(* How many elements or bytes a size tells: too many for any document if   *)
(* it is above 65535.                                                      *)
Count(size) == IF Len(size) > 2 THEN 65536 ELSE Small(size)

(* get_string: as many bytes as it is told.                                *)
GetString(doc, at, count) ==
    Then(GetNumber(doc, at, count), LAMBDA r : Result(<<"string", r.value>>, r.next))

Half(doc) == \* the half-precision number of two bytes
    LET negative == doc[1] >= 128
        exponent == (doc[1] % 128) \div 4
        mantissa == (doc[1] % 4) * 256 + doc[2]
    IN  CASE exponent = 0 -> Ldexp(negative, mantissa, -24)
          [] exponent \in 1 .. 30 -> Ldexp(negative, mantissa + 1024, exponent - 25)
          [] exponent = 31 /\ mantissa = 0 -> Infinity(negative)
          [] exponent = 31 /\ mantissa # 0 -> QuietNaN(negative)

Single(doc) == \* the single-precision number of four bytes
    LET negative == doc[1] >= 128
        exponent == (doc[1] % 128) * 2 + doc[2] \div 128
        mantissa == (doc[2] % 128) * 65536 + doc[3] * 256 + doc[4]
    IN  CASE exponent = 0 -> Ldexp(negative, mantissa, -149)
          [] exponent \in 1 .. 254 -> Ldexp(negative, mantissa + 8388608, exponent - 150)
          [] exponent = 255 /\ mantissa = 0 -> Infinity(negative)
          [] exponent = 255 /\ mantissa # 0 -> QuietNaN(negative)

GetFloat(doc, at, width) ==
    LET Double(bytes) ==
            CASE width = 2 -> Half(bytes) [] width = 4 -> Single(bytes) [] width = 8 -> bytes
    IN  Then(GetNumber(doc, at, width), LAMBDA r : Result(<<"float", Double(r.value)>>, r.next))

(* The elements of an array, and the members of an object, one behind the  *)
(* other until there are as many as announced, or up to a break in CBOR.   *)
Indefinite == -1
Break(doc, at, left) == left = Indefinite /\ ByteAt(doc, at) = 255
OneLess(left) == IF left = Indefinite THEN left ELSE left - 1

RECURSIVE Read(_, _, _), Elements(_, _, _, _, _), Members(_, _, _, _, _)

Elements(format, doc, at, left, read) ==
    IF left = 0 THEN Result(<<"array", read>>, at)
    ELSE IF Break(doc, at, left) THEN Result(<<"array", read>>, at + 1)
    ELSE Then(Read(format, doc, at),
              LAMBDA r : Elements(format, doc, r.next, OneLess(left), Append(read, r.value)))

\* A key must be a string: anything else is an error of its own.
IsStringHead(format, byte) ==
    byte \in (IF format = "cbor" THEN (96 .. 123) \union {127} ELSE (160 .. 191) \union (217 .. 219))

Key(format, doc, at) ==
    CASE ByteAt(doc, at) = EndOfInput -> Error("end of input")
      [] IsStringHead(format, ByteAt(doc, at)) -> Read(format, doc, at)
      [] OTHER -> Error("no string")

Members(format, doc, at, left, read) ==
    IF left = 0 THEN Result(<<"object", read>>, at)
    ELSE IF Break(doc, at, left) THEN Result(<<"object", read>>, at + 1)
    ELSE Then(Key(format, doc, at),
              LAMBDA k : Then(Read(format, doc, k.next),
                  LAMBDA v : Members(format, doc, v.next, OneLess(left),
                                 IF left = Indefinite THEN Assign(read, k.value[2], v.value)
                                 ELSE Insert(read, k.value[2], v.value))))

Container(type, format, doc, at, left) ==
    IF type = "array" THEN Elements(format, doc, at, left, <<>>)
    ELSE Members(format, doc, at, left, <<>>)
-----------------------------------------------------------------------------
(* CBOR, read.                                                             *)

(* -1 - n; if n does not fit a signed number, it has wrapped around.       *)
MinusOneMinus(size) ==
    IF FitsSigned(size, 8) THEN <<"integer", TRUE, size>>
    ELSE <<"integer", FALSE, Normal(Complement(size))>>

\* The size in a head: in its lower five bits, or in the bytes behind it.
HeadSize(doc, at) ==
    LET low == doc[at] % 32
    IN  IF low < 24 THEN Result(Size(low), at + 1)
        ELSE Sizes(GetNumber(doc, at + 1, 2 ^ (low - 24)))

(* The bytes up to the break, whatever they are.                           *)
GetIndefiniteString(doc, at) ==
    LET breaks == {i \in at .. Len(doc) : doc[i] = 255}
    IN  IF breaks = {} THEN Error("end of input")
        ELSE LET end == CHOOSE i \in breaks : \A k \in breaks : i <= k
             IN  Result(<<"string", SubSeq(doc, at, end - 1)>>, end + 1)

GetCborString(doc, at) ==
    IF doc[at] = 127 THEN GetIndefiniteString(doc, at + 1)
    ELSE Then(HeadSize(doc, at), LAMBDA n : GetString(doc, n.next, Count(n.value)))

GetCborContainer(type, doc, at) ==
    IF doc[at] % 32 = 31 THEN Container(type, "cbor", doc, at + 1, Indefinite)
    ELSE Then(HeadSize(doc, at), LAMBDA n : Container(type, "cbor", doc, n.next, Count(n.value)))

CborFloat(doc, at) ==
    CASE doc[at] = 249 -> GetFloat(doc, at + 1, 2)
      [] doc[at] = 250 -> GetFloat(doc, at + 1, 4)
      [] doc[at] = 251 -> GetFloat(doc, at + 1, 8)

\* Kinds of items: byte strings (2) and tags (6) are unsupported.
ParseCborInternal(doc, at) ==
    LET byte == ByteAt(doc, at)
        kind == byte \div 32
        low == byte % 32
    IN  CASE byte = EndOfInput -> Error("end of input")
          [] kind = 0 /\ low < 28 ->
                Then(HeadSize(doc, at), LAMBDA n : Result(Unsigned(n.value), n.next))
          [] kind = 1 /\ low < 28 ->
                Then(HeadSize(doc, at), LAMBDA n : Result(MinusOneMinus(n.value), n.next))
          [] kind = 3 /\ low \notin 28 .. 30 -> GetCborString(doc, at)
          [] kind = 4 /\ low \notin 28 .. 30 -> GetCborContainer("array", doc, at)
          [] kind = 5 /\ low \notin 28 .. 30 -> GetCborContainer("object", doc, at)
          [] byte \in {244, 245} -> Result(<<"boolean", byte = 245>>, at + 1)
          [] byte = 246 -> Result(<<"null">>, at + 1)
          [] byte \in 249 .. 251 -> CborFloat(doc, at)
          [] OTHER -> Error("unsupported byte")
-----------------------------------------------------------------------------
(* MessagePack, read.                                                      *)

GetMsgpackString(doc, at) ==
    IF doc[at] \in 160 .. 191 THEN GetString(doc, at + 1, doc[at] % 32)
    ELSE Then(Sizes(GetNumber(doc, at + 1, 2 ^ (doc[at] - 217))),
              LAMBDA n : GetString(doc, n.next, Count(n.value)))

\* The heads of containers: in one byte, or with two or four behind it.
GetMsgpackContainer(type, doc, at, wide) ==
    IF doc[at] \in 128 .. 159 THEN Container(type, "msgpack", doc, at + 1, doc[at] % 16)
    ELSE Then(Sizes(GetNumber(doc, at + 1, 2 ^ (doc[at] - wide + 1))),
              LAMBDA n : Container(type, "msgpack", doc, n.next, Count(n.value)))

MsgpackNumber(doc, at) ==
    LET byte == doc[at]
    IN  CASE byte \in 0 .. 127 -> Result(Unsigned(Size(byte)), at + 1)
          [] byte \in 224 .. 255 -> Result(Integer(<<byte>>), at + 1)
          [] byte \in 204 .. 207 ->
                Then(Sizes(GetNumber(doc, at + 1, 2 ^ (byte - 204))),
                     LAMBDA n : Result(Unsigned(n.value), n.next))
          [] byte \in 208 .. 211 ->
                Then(GetNumber(doc, at + 1, 2 ^ (byte - 208)),
                     LAMBDA n : Result(Integer(n.value), n.next))
          [] byte = 202 -> GetFloat(doc, at + 1, 4)
          [] byte = 203 -> GetFloat(doc, at + 1, 8)

ParseMsgpackInternal(doc, at) ==
    LET byte == ByteAt(doc, at)
    IN  CASE byte = EndOfInput -> Error("end of input")
          [] byte \in (128 .. 143) \union {222, 223} -> GetMsgpackContainer("object", doc, at, 222)
          [] byte \in (144 .. 159) \union {220, 221} -> GetMsgpackContainer("array", doc, at, 220)
          [] byte \in (160 .. 191) \union 217 .. 219 -> GetMsgpackString(doc, at)
          [] byte = 192 -> Result(<<"null">>, at + 1)
          [] byte \in {194, 195} -> Result(<<"boolean", byte = 195>>, at + 1)
          [] byte \in (0 .. 127) \union (202 .. 211) \union (224 .. 255) -> MsgpackNumber(doc, at)
          [] OTHER -> Error("unsupported byte")

Read(format, doc, at) ==
    IF format = "cbor" THEN ParseCborInternal(doc, at) ELSE ParseMsgpackInternal(doc, at)

(* from_cbor and from_msgpack: strictly, nothing may follow the value.     *)
FromBinary(format, doc) ==
    Then(Read(format, doc, 1),
         LAMBDA r : IF r.next > Len(doc) THEN r ELSE Error("end of input expected"))
=============================================================================
