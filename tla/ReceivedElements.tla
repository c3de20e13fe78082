--------------------------- MODULE ReceivedElements ---------------------------
(***************************************************************************)
(* How oscpack reads the bytes of a packet                                 *)
(* (oscpack/osc/OscReceivedElements.cpp): words, strings and arguments.    *)
(*                                                                         *)
(* Pointers, which are wider than 32 bits, are offsets in the buffer "b",  *)
(* a sequence of bytes that begins with the received packet.  A null       *)
(* pointer is 0, where only the packet itself begins.                      *)
(***************************************************************************)
EXTENDS Integers, Sequences

\* How many values a byte has: 256.  TLC counts in 32 bits itself and gets bytes of
\* half as many, the least that ASCII needs: all that is said of words of four bytes
\* holds for both.
CONSTANT Radix

ASSUME RadixAssumption == Radix \in {128, 256}

Bytes == 0..(Radix - 1)

\* 2^32: a uint32 is counted modulo the number of words.
Wrap == Radix * Radix * Radix * Radix

Int32Max == Wrap \div 2 - 1

Null == 0

Least(S) == CHOOSE x \in S : \A y \in S : x <= y

\* ASCII
Slash == 47
Hash  == 35
Comma == 44

BundleHeader == <<35, 98, 117, 110, 100, 108, 101, 0>>    \* "#bundle"

\* The type tags (oscpack/osc/OscTypes.h).
TrueTag       == 84
FalseTag      == 70
NilTag        == 78
InfinitumTag  == 73
Int32Tag      == 105
FloatTag      == 102
CharTag       == 99
RgbaTag       == 114
MidiTag       == 109
Int64Tag      == 104
TimeTagTag    == 116
DoubleTag     == 100
StringTag     == 115
SymbolTag     == 83
BlobTag       == 98
ArrayBeginTag == 91
ArrayEndTag   == 93

EmptyTags  == {TrueTag, FalseTag, NilTag, InfinitumTag}
WordTags   == {Int32Tag, FloatTag, CharTag, RgbaTag, MidiTag}
DoubleTags == {Int64Tag, TimeTagTag, DoubleTag}
StringTags == {StringTag, SymbolTag}
ArrayTags  == {ArrayBeginTag, ArrayEndTag}

-----------------------------------------------------------------------------
\* Only the size of a blob is ever read behind the buffer, and not as a Byte: see
\* PacketListener.
Byte(b, o) == IF o < Len(b) THEN b[o + 1] ELSE 0

\* ToUInt32: big endian.
BigEndian(c1, c2, c3, c4) == Radix * (Radix * (Radix * c1 + c2) + c3) + c4

Word(b, o) == BigEndian(Byte(b, o), Byte(b, o + 1), Byte(b, o + 2), Byte(b, o + 3))

\* ToInt32: the same bits in two's complement.
SignedWord(b, o) ==
  BigEndian(IF Byte(b, o) < Radix \div 2 THEN Byte(b, o) ELSE Byte(b, o) - Radix,
            Byte(b, o + 1), Byte(b, o + 2), Byte(b, o + 3))

\* In 32 bits.
RoundUp4(n) == (4 * ((n + 3) \div 4)) % Wrap

\* The bytes that FindStr4End looks at for the NUL of a string at p.
LastBytes(b, p, end) == {q \in p..(end - 1) : (q - p) % 4 = 3 /\ Byte(b, q) = 0}

\* The next 4 byte boundary after the string at p, Null if it has no end.
FindStr4End(b, p, end) ==
  IF p >= end THEN Null
  ELSE IF Byte(b, p) = 0 THEN p + 4
  ELSE IF LastBytes(b, p, end) = {} THEN Null
  ELSE Least(LastBytes(b, p, end)) + 1

\* The same for a string that is known to end.
FindStr4EndUnbounded(b, p) ==
  IF Byte(b, p) = 0 THEN p + 4
  ELSE Least({q \in p..(Len(b) + 3) : (q - p) % 4 = 3 /\ Byte(b, q) = 0}) + 1

\* The characters of a C string.
CString(b, p) ==
  SubSeq(b, p + 1, Least({q \in p..Len(b) : Byte(b, q) = 0}))

-----------------------------------------------------------------------------
\* The word at the argument is read as the size of the blob.
BlobEnd(argument, word) == argument + 4 + RoundUp4(word)

MutantArgumentEndPacked(b, tag, argument, word) ==
  IF tag \in WordTags THEN argument + 4
  ELSE IF tag \in DoubleTags THEN argument + 8
  ELSE IF tag \in StringTags THEN FindStr4EndUnbounded(b, argument)
  ELSE IF tag = BlobTag THEN argument + 4 + word
  ELSE argument

\* ReceivedMessageArgumentIterator::Advance, for the type tags Init accepts.
ArgumentEnd(b, tag, argument, word) ==
  IF tag \in WordTags THEN argument + 4
  ELSE IF tag \in DoubleTags THEN argument + 8
  ELSE IF tag \in StringTags THEN FindStr4EndUnbounded(b, argument)
  ELSE IF tag = BlobTag THEN BlobEnd(argument, word)
  ELSE argument

(***************************************************************************)
(* What oscmsg_data makes of an argument: a value for an integer, a float, *)
(* a string or a bool, and false for all other types, the brackets of an   *)
(* array included.  A float is given by its bits.                          *)
(***************************************************************************)
ValueOf(b, tag, argument) ==
  IF tag = Int32Tag THEN <<"int", SignedWord(b, argument)>>
  ELSE IF tag = FloatTag THEN <<"float", SignedWord(b, argument)>>
  ELSE IF tag = StringTag THEN <<"string", CString(b, argument)>>
  ELSE <<"bool", tag = TrueTag>>
====
