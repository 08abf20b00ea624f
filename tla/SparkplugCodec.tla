---------------------------- MODULE SparkplugCodec ----------------------------
(* How a reading becomes the value field of a Sparkplug B metric and comes back: *)
(* uns_spb_enums.py, and the second decoder of uns_spb_helper.py.  A byte has    *)
(* ByteBits bits (8 in the program); strings are sequences of bytes.             *)
EXTENDS Integers, Sequences, FiniteSetsExt, SequencesExt

CONSTANT ByteBits

Base == 2 ^ ByteBits
Signed == {"Int8", "Int16"}
Arrays == {"Int16Array", "BooleanArray", "StringArray"}

\* The width of a type in bits: the "factor" of the integer types.
Bits(type) == IF type = "Int16" THEN 2 * ByteBits ELSE ByteBits

---- \* A signed integer travels in an unsigned field.

ToUnsigned(v, bits) == IF v < 0 THEN v + 2 ^ bits ELSE v
ToSigned(u, bits) == IF u >= 2 ^ (bits - 1) THEN u - 2 ^ bits ELSE u

---- \* Arrays travel as bytes.

Bytes(u, n) == [i \in 1..n |-> (u \div Base ^ (i - 1)) % Base]
Number(bs) == MapThenSumSet(LAMBDA i : bs[i] * Base ^ (i - 1), DOMAIN bs)

PackInts(vs, n) == FlattenSeq([i \in DOMAIN vs |-> Bytes(ToUnsigned(vs[i], n * ByteBits), n)])
UnpackInts(bs, n) == [k \in 1..(Len(bs) \div n) |->
  ToSigned(Number(SubSeq(bs, (k - 1) * n + 1, k * n)), n * ByteBits)]

\* The count, then the bits from the highest of the first byte; i counts from 0.
PackBooleans(vs) ==
  LET Byte(b) == MapThenSumSet(LAMBDA i : 2 ^ (ByteBits - 1 - (i % ByteBits)),
                   {i \in 0..(Len(vs) - 1) : i \div ByteBits = b /\ vs[i + 1]})
  IN <<Len(vs)>> \o [b \in 1..((Len(vs) + ByteBits - 1) \div ByteBits) |-> Byte(b - 1)]
FaultUnpackBooleans(bs) == [i \in 1..bs[1] |->
  (bs[2 + (i - 1) \div ByteBits] \div 2 ^ ((i - 1) % ByteBits)) % 2 = 1]

UnpackBooleans(bs) == [i \in 1..bs[1] |->
  (bs[2 + (i - 1) \div ByteBits] \div 2 ^ (ByteBits - 1 - ((i - 1) % ByteBits))) % 2 = 1]

\* A byte is written as two digits, no digit is the terminator, so a string may
\* hold any byte.
Digit == 2 ^ (ByteBits \div 2)
Terminator == -1
Hex(string) == FlattenSeq([i \in DOMAIN string |-> <<string[i] \div Digit, string[i] % Digit>>])
UnHex(digits) == [i \in 1..(Len(digits) \div 2) |-> digits[2 * i - 1] * Digit + digits[2 * i]]
PackStrings(vs) == FlattenSeq([i \in DOMAIN vs |-> Append(Hex(vs[i]), Terminator)])
UnpackStrings(bs) ==
  LET ends == SetToSortSeq({i \in DOMAIN bs : bs[i] = Terminator}, <)
      Start(k) == IF k = 1 THEN 1 ELSE ends[k - 1] + 1
  IN [k \in DOMAIN ends |-> UnHex(SubSeq(bs, Start(k), ends[k] - 1))]

---- \* The value field of a metric, and the two ways it is read.

SetValue(r) ==
  CASE r.type \in Signed -> ToUnsigned(r.value, Bits(r.type))
    [] r.type = "Int16Array" -> PackInts(r.value, 2)
    [] r.type = "BooleanArray" -> PackBooleans(r.value)
    [] r.type = "StringArray" -> PackStrings(r.value)
    [] OTHER -> r.value

ArrayValue(type, field) ==
  CASE type = "Int16Array" -> UnpackInts(field, 2)
    [] type = "BooleanArray" -> UnpackBooleans(field)
    [] type = "StringArray" -> UnpackStrings(field)

GetValue(type, field) ==
  CASE type \in Signed -> ToSigned(field, Bits(type))
    [] type \in Arrays -> ArrayValue(type, field)
    [] OTHER -> field

\* The dictionary form decodes the arrays and leaves the integers as they travel.
FixValue(type, field) == IF type \in Arrays THEN ArrayValue(type, field) ELSE field

=============================================================================
