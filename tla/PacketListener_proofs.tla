------------------------- MODULE PacketListener_proofs -------------------------
(***************************************************************************)
(* Theorems about PacketListener, for every set of datagrams, any sequence *)
(* of them, every size of the receive buffer that an int32 represents and  *)
(* anything that memory outside of it may hold.                            *)
(***************************************************************************)
EXTENDS PacketListener, SequenceTheorems, FiniteSetTheorems, WellFoundedInduction, TLAPS

-----------------------------------------------------------------------------
(***************************************************************************)
(* Bytes, words and strings                                                *)
(***************************************************************************)
(* Every non-empty set of natural numbers has a least element. *)
LEMMA LeastIsLeast ==
  ASSUME NEW T \in SUBSET Nat, T # {}
  PROVE  Least(T) \in T /\ \A y \in T : Least(T) <= y
<1> DEFINE R == {p \in Nat \X Nat : p[1] < p[2]}
<1>1. IsWellFoundedOn(R, Nat)
  BY NatLessThanWellFounded DEF OpToRel
<1> HIDE DEF R
<1>2. PICK x \in T : \A y \in T : ~(<<y, x>> \in R)
  BY <1>1, WFMin
<1>3. \A y \in T : ~(y < x)
  BY <1>2 DEF R
<1>4. \E z \in T : \A y \in T : z <= y
  BY <1>3
<1> QED
  BY <1>4 DEF Least

(* The numbers that the radix makes. *)
LEMMA Powers ==
  /\ Radix = 128 => Wrap = 268435456 /\ Int32Max = 134217727
  /\ Radix = 256 => Wrap = 4294967296 /\ Int32Max = 2147483647
<1>1. ASSUME Radix = 128 PROVE Wrap = 268435456 /\ Int32Max = 134217727
  BY <1>1, SMT DEF Wrap, Int32Max
<1>2. ASSUME Radix = 256 PROVE Wrap = 4294967296 /\ Int32Max = 2147483647
  BY <1>2, SMT DEF Wrap, Int32Max
<1> QED
  BY <1>1, <1>2, SMT

LEMMA Numbers ==
  /\ Radix \in Nat /\ Radix > 0
  /\ Wrap \in Nat \ {0} /\ Wrap > 4 /\ Wrap % 4 = 0
  /\ Int32Max \in Nat /\ Int32Max < Wrap - 4
<1>1. CASE Radix = 128
  BY <1>1, Powers, SMT
<1>2. CASE Radix = 256
  BY <1>2, Powers, SMT
<1> QED
  BY <1>1, <1>2, RadixAssumption

(* A byte is a byte, on both sides of the end of the buffer. *)
LEMMA ByteType ==
  ASSUME NEW b \in Seq(Bytes), NEW o \in Nat
  PROVE  Byte(b, o) \in Bytes
<1>1. CASE o < Len(b)
  <2>1. o + 1 \in 1..Len(b)
    BY <1>1
  <2> QED
    BY <1>1, <2>1, ElementOfSeq DEF Byte
<1>2. CASE ~(o < Len(b))
  BY <1>2, Numbers DEF Byte, Bytes
<1> QED
  BY <1>1, <1>2

(* The arithmetic of four bytes. *)
LEMMA FourBytes ==
  ASSUME NEW c1 \in 0..(Radix - 1), NEW c2 \in 0..(Radix - 1),
         NEW c3 \in 0..(Radix - 1), NEW c4 \in 0..(Radix - 1)
  PROVE  /\ BigEndian(c1, c2, c3, c4) \in 0..(Wrap - 1)
         /\ ~(c1 < Radix \div 2) => BigEndian(c1, c2, c3, c4) > Int32Max
<1>1. CASE Radix = 128
  <2>1. BigEndian(c1, c2, c3, c4) = 128 * (128 * (128 * c1 + c2) + c3) + c4
    BY <1>1 DEF BigEndian
  <2> QED
    BY <1>1, <2>1, Powers, SMT
<1>2. CASE Radix = 256
  <2>1. BigEndian(c1, c2, c3, c4) = 256 * (256 * (256 * c1 + c2) + c3) + c4
    BY <1>2 DEF BigEndian
  <2> QED
    BY <1>2, <2>1, Powers, SMT
<1> QED
  BY <1>1, <1>2, RadixAssumption

(* A size in 32 bits, whatever it is made of. *)
LEMMA RoundType ==
  ASSUME NEW n \in Nat
  PROVE  RoundUp4(n) \in Nat /\ RoundUp4(n) % 4 = 0
<1> DEFINE m == 4 * ((n + 3) \div 4)
<1>1. m \in Nat /\ m % 4 = 0
  OBVIOUS
<1> HIDE DEF m
<1>2. ASSUME Radix = 128 PROVE (m % Wrap) \in Nat /\ (m % Wrap) % 4 = 0
  BY <1>1, <1>2, Powers, SMT
<1>3. ASSUME Radix = 256 PROVE (m % Wrap) \in Nat /\ (m % Wrap) % 4 = 0
  BY <1>1, <1>3, Powers, SMT
<1>4. (m % Wrap) \in Nat /\ (m % Wrap) % 4 = 0
  BY <1>2, <1>3, RadixAssumption
<1> QED
  BY <1>4 DEF RoundUp4, m

(* A word has 32 bits, and the signed reading of a small one is itself. *)
LEMMA WordType ==
  ASSUME NEW b \in Seq(Bytes), NEW o \in Nat
  PROVE  /\ Word(b, o) \in 0..(Wrap - 1) /\ Word(b, o) \in Nat
         /\ Word(b, o) <= Int32Max => SignedWord(b, o) = Word(b, o)
<1>1. /\ Byte(b, o) \in 0..(Radix - 1) /\ Byte(b, o + 1) \in 0..(Radix - 1)
      /\ Byte(b, o + 2) \in 0..(Radix - 1) /\ Byte(b, o + 3) \in 0..(Radix - 1)
  BY ByteType DEF Bytes
<1>2. /\ Word(b, o) \in 0..(Wrap - 1)
      /\ ~(Byte(b, o) < Radix \div 2) => Word(b, o) > Int32Max
  BY <1>1, FourBytes DEF Word
<1>3. Word(b, o) <= Int32Max => SignedWord(b, o) = Word(b, o)
  <2>1. CASE Byte(b, o) < Radix \div 2
    BY <2>1 DEF Word, SignedWord
  <2>2. CASE ~(Byte(b, o) < Radix \div 2)
    BY <1>2, <2>2, Numbers
  <2> QED
    BY <2>1, <2>2
<1> QED
  BY <1>2, <1>3, Numbers

(* A string that is found to end does so inside, at a multiple of four. *)
LEMMA FindType ==
  ASSUME NEW b \in Seq(Bytes), NEW p \in Nat, NEW last \in Nat,
         p % 4 = 0, last % 4 = 0, FindStr4End(b, p, last) # Null
  PROVE  LET q == FindStr4End(b, p, last)
         IN  q \in Nat /\ q > p /\ q <= last /\ q % 4 = 0
<1>1. p < last
  BY DEF FindStr4End
<1>2. CASE Byte(b, p) = 0
  BY <1>1, <1>2 DEF FindStr4End
<1>3. CASE Byte(b, p) # 0
  <2>1. LastBytes(b, p, last) # {}
    BY <1>1, <1>3 DEF FindStr4End
  <2>2. LastBytes(b, p, last) \in SUBSET Nat
    BY DEF LastBytes
  <2>3. Least(LastBytes(b, p, last)) \in LastBytes(b, p, last)
    BY <2>1, <2>2, LeastIsLeast
  <2>4. FindStr4End(b, p, last) = Least(LastBytes(b, p, last)) + 1
    BY <1>1, <1>3, <2>1 DEF FindStr4End
  <2>5. PICK q \in p..(last - 1) : (q - p) % 4 = 3 /\ q = Least(LastBytes(b, p, last))
    BY <2>3 DEF LastBytes
  <2> QED
    BY <2>4, <2>5
<1> QED
  BY <1>2, <1>3

(* The least element of a set, when it is in a part of the set below a bound. *)
LEMMA LeastOfPart ==
  ASSUME NEW T \in SUBSET Nat, NEW V \in SUBSET Nat, NEW n \in Nat,
         T # {}, T \subseteq V, \A q \in V : q \in T \/ q >= n, \A q \in T : q < n
  PROVE  Least(V) = Least(T)
<1>1. Least(T) \in T /\ \A y \in T : Least(T) <= y
  BY LeastIsLeast
<1>2. Least(V) \in V /\ \A y \in V : Least(V) <= y
  BY LeastIsLeast
<1>3. Least(V) <= Least(T) /\ Least(V) \in Nat /\ Least(T) \in Nat
  BY <1>1, <1>2
<1>4. Least(V) \in T
  BY <1>1, <1>2, <1>3
<1> QED
  BY <1>1, <1>3, <1>4

(* The careless search finds what the careful one has found. *)
LEMMA FindAgrees ==
  ASSUME NEW b \in Seq(Bytes), NEW p \in Nat, NEW last \in 0..Len(b),
         FindStr4End(b, p, last) # Null
  PROVE  FindStr4EndUnbounded(b, p) = FindStr4End(b, p, last)
<1> DEFINE U == {q \in p..(Len(b) + 3) : (q - p) % 4 = 3 /\ Byte(b, q) = 0}
<1>1. CASE Byte(b, p) = 0
  BY <1>1 DEF FindStr4End, FindStr4EndUnbounded
<1>2. CASE Byte(b, p) # 0
  <2>1. LastBytes(b, p, last) # {} /\ FindStr4End(b, p, last) = Least(LastBytes(b, p, last)) + 1
    BY <1>2 DEF FindStr4End
  <2>2. LastBytes(b, p, last) \in SUBSET Nat /\ U \in SUBSET Nat
    BY DEF LastBytes
  <2>3. LastBytes(b, p, last) \subseteq U /\ \A q \in U : q \in LastBytes(b, p, last) \/ q >= last
    BY LenProperties DEF LastBytes
  <2>4. \A q \in LastBytes(b, p, last) : q < last
    BY DEF LastBytes
  <2>5. Least(U) = Least(LastBytes(b, p, last))
    <3>1. last \in Nat
      BY LenProperties
    <3> HIDE DEF U
    <3> QED
      BY <2>1, <2>2, <2>3, <2>4, <3>1, LeastOfPart
  <2> QED
    BY <1>2, <2>1, <2>5 DEF FindStr4EndUnbounded
<1> QED
  BY <1>1, <1>2

-----------------------------------------------------------------------------
(***************************************************************************)
(* The inductive invariant.  Slots: what ReceivedBundle::Init has found is *)
(* a set of slots, each of which leads to another one or to where it has   *)
(* come, unless the slot it has come to leads nowhere.                     *)
(* Frames: so it stays for the bundles that are iterated, each nested in   *)
(* the slot at which the iterator of the outer one stands.                 *)
(* Arguments: where ReceivedMessage::Init has found the arguments, and     *)
(* that each was fine there.                                               *)
(***************************************************************************)
SlotsLead(S, to) ==
  \A s \in S : /\ s % 4 = 0 /\ s < NextSlot(s) /\ NextSlot(s) <= to /\ NextSlot(s) % 4 = 0
              /\ NextSlot(s) \in S \cup {to}

FrameOK(f) ==
  /\ f.end <= size /\ f.end % 4 = 0
  /\ f.at \in f.slots \cup {f.end}
  /\ SlotsLead(f.slots, f.end)

FramesOK(st) ==
  \A k \in 1..Len(st) :
    /\ FrameOK(st[k])
    /\ k > 1 => st[k - 1].at \in st[k - 1].slots /\ st[k].end = NextSlot(st[k - 1].at)

Frames ==
  /\ FramesOK(stack)
  /\ pc \in {"idle", "packet"} => stack = <<>>
  /\ pc = "elements" => stack # <<>>

Inside(S) == S # <<>> => S[Len(S)].at \in S[Len(S)].slots

Opened ==
  pc \in {"bundle", "slots", "message", "tags", "level", "convert", "crashed"} =>
    /\ from <= end /\ end <= size /\ from % 4 = 0 /\ end % 4 = 0
    /\ Inside(stack)
    /\ stack # <<>> => end = NextSlot(Top.at)

Slots ==
  pc = "slots" =>
    /\ cursor % 4 = 0 /\ cursor <= end
    /\ from + 16 \in slots \cup {cursor}
    /\ SlotsLead(slots \ {cursor}, cursor)
    /\ cursor \in slots => NextSlot(cursor) = cursor /\ cursor < end

\* From the argument at a place Init comes to the next.
Leads(t, place, next) == \E word \in SizeWords(t, place) : next = CheckedEnd(t, place, word)

ArgumentsLead ==
  \A i \in 1..Len(checked) :
    /\ TagIsFine(tags.begin + i - 1, checked[i])
    /\ from < checked[i] /\ checked[i] % 4 = 0
    /\ i < Len(checked) => Leads(tags.begin + i - 1, checked[i], checked[i + 1])

Looking ==
  /\ tags.begin # Null /\ tag = tags.begin + Len(checked)
  /\ from < cursor /\ cursor % 4 = 0
  /\ Len(checked) > 0 => /\ checked[1] = tags.arguments
                         /\ Leads(tag - 1, checked[Len(checked)], cursor)
  /\ Len(checked) = 0 => cursor = tags.arguments
  /\ pc = "level" => Len(checked) > 0
  /\ ArgumentsLead

\* The iterator is where Init has been, or both are nowhere in the buffer.
SameOrOutside(x, y) == x = y \/ (x > BufferSize /\ y > BufferSize)

Converting ==
  \/ tag = Null /\ tags.stop = Null
  \/ /\ tags.stop = tags.begin + Len(checked)
     /\ tag \in tags.begin..tags.stop
     /\ tag # tags.stop => SameOrOutside(cursor, checked[tag - tags.begin + 1])
     /\ ArgumentsLead

Arguments ==
  /\ pc \in {"tags", "level"} => Looking
  /\ pc = "convert" => Converting

IInv == TypeOK /\ Frames /\ Opened /\ Slots /\ Arguments

Frame == [at : Nat, end : Nat, slots : SUBSET Nat]

-----------------------------------------------------------------------------
(***************************************************************************)
(* Slots and arguments                                                     *)
(***************************************************************************)
(* A sum in 32 bits that is a multiple of four and not 0 has not turned over. *)
LEMMA TurnsOver ==
  ASSUME NEW w \in 0..(Wrap - 1)
  PROVE  LET sum == (4 + w) % Wrap
         IN  /\ sum \in Nat
             /\ w % 4 = 0 => IF w = Wrap - 4 THEN sum = 0 ELSE sum = 4 + w
             /\ sum % 4 = 0 /\ sum > 0 => sum = 4 + w
<1>1. CASE Radix = 128
  BY <1>1, Powers, SMT
<1>2. CASE Radix = 256
  BY <1>2, Powers, SMT
<1> QED
  BY <1>1, <1>2, RadixAssumption

(* Where a slot leads. *)
LEMMA NextSlotType ==
  ASSUME TypeOK, NEW s \in Nat
  PROVE  /\ W(s) \in 0..(Wrap - 1) /\ W(s) \in Nat
         /\ NextSlot(s) \in Nat /\ s <= NextSlot(s)
         /\ W(s) % 4 = 0 =>
              IF W(s) = Wrap - 4 THEN NextSlot(s) = s ELSE NextSlot(s) = s + 4 + W(s)
<1>1. W(s) \in 0..(Wrap - 1) /\ W(s) \in Nat
  BY WordType DEF TypeOK, W
<1> DEFINE sum == (4 + W(s)) % Wrap
<1>2. /\ sum \in Nat
      /\ W(s) % 4 = 0 => IF W(s) = Wrap - 4 THEN sum = 0 ELSE sum = 4 + W(s)
  BY <1>1, TurnsOver
<1>3. NextSlot(s) = s + sum
  BY DEF NextSlot
<1> HIDE DEF sum
<1> QED
  BY <1>1, <1>2, <1>3

(* The slot of an element that Init has checked says the same when it is   *)
(* read again as a signed number.                                          *)
LEMMA NextIsNext ==
  ASSUME TypeOK, NEW s \in Nat, s % 4 = 0,
         s < NextSlot(s), NextSlot(s) % 4 = 0, NextSlot(s) <= size
  PROVE  /\ s + 4 + SignedWord(buffer, s) = NextSlot(s) /\ NextSlot(s) \in Nat
         /\ s + 4 <= NextSlot(s) /\ NextSlot(s) = s + 4 + W(s)
<1> DEFINE sum == (4 + W(s)) % Wrap
<1>1. /\ W(s) \in 0..(Wrap - 1) /\ W(s) \in Nat
      /\ W(s) <= Int32Max => SignedWord(buffer, s) = W(s)
  BY WordType DEF TypeOK, W
<1>2. sum \in Nat /\ (sum % 4 = 0 /\ sum > 0 => sum = 4 + W(s))
  BY <1>1, TurnsOver
<1>3. NextSlot(s) = s + sum
  BY DEF NextSlot
<1> HIDE DEF sum
<1>4. sum = 4 + W(s)
  BY <1>2, <1>3
<1>5. size \in Nat /\ size <= Int32Max /\ Int32Max \in Nat
  BY BufferAssumption, Numbers DEF TypeOK
<1>6. W(s) <= Int32Max
  BY <1>1, <1>3, <1>4, <1>5
<1> QED
  BY <1>1, <1>3, <1>4, <1>6

(* The kinds of type tags do not overlap. *)
LEMMA TagKinds ==
  /\ \A x \in WordTags \cup DoubleTags \cup StringTags :
       x \notin EmptyTags \cup ArrayTags \cup {BlobTag}
  /\ WordTags \cap DoubleTags = {} /\ WordTags \cap StringTags = {}
  /\ DoubleTags \cap StringTags = {}
  /\ Int32Tag \in WordTags /\ FloatTag \in WordTags /\ StringTag \in StringTags
  BY SMT DEF WordTags, DoubleTags, StringTags, EmptyTags, ArrayTags, BlobTag, Int32Tag, FloatTag,
         CharTag, RgbaTag, MidiTag, Int64Tag, TimeTagTag, DoubleTag, StringTag, SymbolTag, TrueTag,
         FalseTag, NilTag, InfinitumTag, ArrayBeginTag, ArrayEndTag

(* What is read as the size of a blob, wherever it is, has 32 bits. *)
LEMMA SizeType ==
  ASSUME TypeOK, NEW t \in Nat, NEW c \in Nat, NEW word \in SizeWords(t, c)
  PROVE  word \in Nat /\ word \in 0..(Wrap - 1)
<1>1. W(c) \in 0..(Wrap - 1)
  BY NextSlotType
<1>2. word \in 0..(Wrap - 1)
  BY <1>1, GarbageAssumption DEF SizeWords
<1> QED
  BY <1>2, Numbers

(* An argument that Init has found to be fine: where it ends, that the     *)
(* iterator sees the same end, and that it is inside unless it is a blob.  *)
LEMMA FineArgument ==
  ASSUME TypeOK, end <= size, end % 4 = 0,
         NEW t \in Nat, NEW c \in Nat, c % 4 = 0, TagIsFine(t, c), NEW word \in Nat
  PROVE  /\ CheckedEnd(t, c, word) \in Nat /\ c <= CheckedEnd(t, c, word)
         /\ CheckedEnd(t, c, word) % 4 = 0
         /\ ArgumentEnd(buffer, B(t), c, word) = CheckedEnd(t, c, word)
         /\ B(t) \in WordTags \cup DoubleTags \cup StringTags => CheckedEnd(t, c, word) <= end
<1> USE DEF TagIsFine, CheckedEnd, ArgumentEnd
<1>1. end \in Nat /\ end \in 0..Len(buffer) /\ buffer \in Seq(Bytes)
  BY BufferAssumption DEF TypeOK
<1>2. /\ \A x \in WordTags \cup DoubleTags \cup StringTags :
           x \notin EmptyTags \cup ArrayTags \cup {BlobTag}
      /\ WordTags \cap DoubleTags = {} /\ WordTags \cap StringTags = {}
      /\ DoubleTags \cap StringTags = {}
  BY TagKinds
<1>3. CASE B(t) \in WordTags
  BY <1>1, <1>2, <1>3
<1>4. CASE B(t) \in DoubleTags
  BY <1>1, <1>2, <1>4
<1>5. CASE B(t) \in StringTags
  <2>1. FindStr4End(buffer, c, end) # Null
    BY <1>2, <1>5
  <2>2. LET q == FindStr4End(buffer, c, end)
        IN  q \in Nat /\ q > c /\ q <= end /\ q % 4 = 0
    BY <1>1, <2>1, FindType
  <2>3. FindStr4EndUnbounded(buffer, c) = FindStr4End(buffer, c, end)
    BY <1>1, <2>1, FindAgrees
  <2>4. CheckedEnd(t, c, word) = FindStr4End(buffer, c, end)
    BY <1>2, <1>5
  <2>5. ArgumentEnd(buffer, B(t), c, word) = FindStr4EndUnbounded(buffer, c)
    BY <1>2, <1>5
  <2> HIDE DEF CheckedEnd, ArgumentEnd
  <2> QED
    BY <2>2, <2>3, <2>4, <2>5
<1>6. CASE B(t) \notin WordTags \cup DoubleTags \cup StringTags
  <2>1. RoundUp4(word) \in Nat /\ RoundUp4(word) % 4 = 0
    BY RoundType
  <2>2. BlobEnd(c, word) \in Nat /\ c <= BlobEnd(c, word) /\ BlobEnd(c, word) % 4 = 0
    BY <2>1 DEF BlobEnd
  <2> QED
    BY <1>6, <2>2
<1> QED
  BY <1>3, <1>4, <1>5, <1>6

(* Behind the buffer only arguments without bytes and blobs are fine. *)
LEMMA FineOutside ==
  ASSUME TypeOK, end <= size, NEW t \in Nat, NEW c \in Nat, c >= end, TagIsFine(t, c)
  PROVE  B(t) \notin WordTags \cup DoubleTags \cup StringTags
<1>1. end \in Nat
  BY DEF TypeOK
<1>2. FindStr4End(buffer, c, end) = Null /\ ~(c + 4 <= end) /\ ~(c + 8 <= end)
  BY <1>1 DEF FindStr4End
<1> QED
  BY <1>2, TagKinds DEF TagIsFine

(* From the same place the iterator gets to where Init has got, and from   *)
(* outside the buffer, where the size of a blob is anything, both stay     *)
(* outside.                                                                *)
LEMMA NextArgument ==
  ASSUME TypeOK, end <= size, end % 4 = 0, NEW t \in Nat,
         NEW x \in Nat, NEW y \in Nat, y % 4 = 0, TagIsFine(t, y), SameOrOutside(x, y),
         NEW word \in SizeWords(t, x)
  PROVE  /\ ArgumentEnd(buffer, B(t), x, word) \in Nat
         /\ \A next : Leads(t, y, next) => SameOrOutside(ArgumentEnd(buffer, B(t), x, word), next)
<1> DEFINE to == ArgumentEnd(buffer, B(t), x, word)
<1>1. word \in Nat /\ \A other \in SizeWords(t, y) : other \in Nat
  BY SizeType
<1>2. end \in Nat /\ BufferSize \in Nat /\ end <= BufferSize
  BY BufferAssumption DEF TypeOK
<1>3. CASE x = y
  <2>1. to \in Nat /\ to = CheckedEnd(t, y, word)
    BY <1>1, <1>3, FineArgument
  <2>2. ASSUME NEW other \in SizeWords(t, y)
        PROVE  SameOrOutside(to, CheckedEnd(t, y, other))
    <3>1. CASE OutsideTheBuffer(t, y)
      <4>1. RoundUp4(word) \in Nat /\ RoundUp4(other) \in Nat
        BY <1>1, <2>2, RoundType
      <4>2. B(t) = BlobTag /\ y + 4 > BufferSize
        BY <3>1 DEF OutsideTheBuffer
      <4>3. /\ CheckedEnd(t, y, word) = y + 4 + RoundUp4(word)
            /\ CheckedEnd(t, y, other) = y + 4 + RoundUp4(other)
        BY <4>2, TagKinds DEF CheckedEnd, BlobEnd
      <4> QED
        BY <1>2, <2>1, <4>1, <4>2, <4>3 DEF SameOrOutside
    <3>2. CASE ~OutsideTheBuffer(t, y)
      BY <1>3, <2>1, <2>2, <3>2 DEF SizeWords, SameOrOutside
    <3> QED
      BY <3>1, <3>2
  <2> QED
    BY <2>1, <2>2 DEF Leads
<1>4. CASE x > BufferSize /\ y > BufferSize
  <2>1. B(t) \notin WordTags \cup DoubleTags \cup StringTags
    BY <1>2, <1>4, FineOutside
  <2>2. CASE B(t) = BlobTag
    <3>1. to = x + 4 + RoundUp4(word) /\ RoundUp4(word) \in Nat
      BY <1>1, <2>1, <2>2, RoundType DEF ArgumentEnd, BlobEnd
    <3>2. ASSUME NEW other \in SizeWords(t, y)
          PROVE  /\ CheckedEnd(t, y, other) = y + 4 + RoundUp4(other)
                 /\ RoundUp4(other) \in Nat
      BY <1>1, <2>1, <2>2, <3>2, RoundType DEF CheckedEnd, BlobEnd
    <3>3. to \in Nat /\ to > BufferSize
      BY <1>2, <1>4, <3>1
    <3>4. \A other \in SizeWords(t, y) : CheckedEnd(t, y, other) > BufferSize
      BY <1>2, <1>4, <3>2
    <3> QED
      BY <3>3, <3>4 DEF Leads, SameOrOutside
  <2>3. CASE B(t) # BlobTag
    BY <1>4, <2>1, <2>3 DEF ArgumentEnd, CheckedEnd, Leads, SameOrOutside
  <2> QED
    BY <2>2, <2>3
<1> QED
  BY <1>3, <1>4 DEF SameOrOutside

-----------------------------------------------------------------------------
(***************************************************************************)
(* Steps that several actions share                                        *)
(***************************************************************************)
LEMMA InitInv == ASSUME Init PROVE IInv
<1> USE DEF Init, NoTags, Null
<1>1. TypeOK
  <2>1. buffer \in Seq(Bytes) /\ Len(buffer) = BufferSize
    BY Numbers, BufferAssumption DEF Bytes
  <2> QED
    BY <2>1, Numbers, BoundsAssumption, BufferAssumption DEF TypeOK, Labels
<1>2. Frames /\ Opened /\ Slots /\ Arguments
  BY DEF Frames, FramesOK, Opened, Slots, Arguments
<1> QED
  BY <1>1, <1>2 DEF IInv

(* An exception leaves nothing of the bundles. *)
LEMMA ThrowStep == ASSUME IInv, Throw PROVE IInv'
<1> USE DEF IInv, Throw, input, parsing, element, message
<1>1. TypeOK'
  BY DEF TypeOK, Labels
<1>2. Frames' /\ Opened' /\ Slots' /\ Arguments'
  BY DEF Frames, FramesOK, Opened, Slots, Arguments
<1> QED
  BY <1>1, <1>2

(* Frames stay what they are while the buffer stays. *)
LEMMA FramesKept ==
  ASSUME NEW st, FramesOK(st), stack' = st, buffer' = buffer, size' = size
  PROVE  FramesOK(stack)'
  BY DEF FramesOK, FrameOK, SlotsLead, NextSlot, W

(* The iterator of the innermost bundle moves to another of its slots. *)
LEMMA FramesMoved ==
  ASSUME NEW open \in Seq(Frame), open # <<>>, FramesOK(open),
         NEW next \in Nat, next \in open[Len(open)].slots \cup {open[Len(open)].end}
  PROVE  LET st == [open EXCEPT ![Len(open)].at = next]
         IN  st \in Seq(Frame) /\ st # <<>> /\ FramesOK(st)
<1> DEFINE n == Len(open)
           f == [open[n] EXCEPT !.at = next]
           st == [open EXCEPT ![n] = f]
<1>1. n \in Nat \ {0} /\ n \in 1..Len(open) /\ open[n] \in Frame
  BY LenProperties, EmptySeq, ElementOfSeq
<1>2. /\ f \in Frame
      /\ f.at = next /\ f.end = open[n].end /\ f.slots = open[n].slots
  BY <1>1 DEF Frame
<1> HIDE DEF f
<1>3. /\ st \in Seq(Frame) /\ Len(st) = n
      /\ \A k \in 1..n : st[k] = IF k = n THEN f ELSE open[k]
  BY <1>1, <1>2, ExceptSeq
<1> HIDE DEF st
<1>4. FrameOK(f)
  BY <1>1, <1>2 DEF FramesOK, FrameOK
<1>5. FramesOK(st)
  <2> SUFFICES ASSUME NEW k \in 1..n
               PROVE  /\ FrameOK(st[k])
                      /\ k > 1 => /\ st[k - 1].at \in st[k - 1].slots
                                  /\ st[k].end = NextSlot(st[k - 1].at)
    BY <1>3 DEF FramesOK
  <2>1. FrameOK(st[k])
    BY <1>3, <1>4 DEF FramesOK
  <2>2. ASSUME k > 1
        PROVE  st[k - 1].at \in st[k - 1].slots /\ st[k].end = NextSlot(st[k - 1].at)
    <3>1. st[k - 1] = open[k - 1]
      BY <1>1, <1>3, <2>2
    <3>2. st[k].end = open[k].end
      BY <1>2, <1>3
    <3>3. open[k - 1].at \in open[k - 1].slots /\ open[k].end = NextSlot(open[k - 1].at)
      BY <2>2 DEF FramesOK
    <3> QED
      BY <3>1, <3>2, <3>3
  <2> QED
    BY <2>1, <2>2
<1>6. st = [open EXCEPT ![Len(open)].at = next] /\ st # <<>>
  BY <1>1, <1>3 DEF st, f
<1> QED
  BY <1>3, <1>5, <1>6

(* The step to the next element of the innermost bundle. *)
LEMMA ContinueStep ==
  ASSUME IInv, NEW open \in Seq(Frame), FramesOK(open), Inside(open), Continue(open),
         UNCHANGED <<input, parsing>>
  PROVE  IInv'
<1> USE DEF input, parsing, element, message
<1>1. CASE open = <<>>
  <2>1. TypeOK'
    BY <1>1 DEF IInv, TypeOK, Labels, Continue
  <2>2. Frames' /\ Opened' /\ Slots' /\ Arguments'
    BY <1>1 DEF Continue, Frames, FramesOK, Opened, Slots, Arguments
  <2> QED
    BY <2>1, <2>2 DEF IInv
<1>2. CASE open # <<>>
  <2> DEFINE n == Len(open)
             next == NextSlot(open[n].at)
  <2>1. n \in Nat \ {0} /\ n \in 1..Len(open) /\ open[n] \in Frame
    BY <1>2, LenProperties, EmptySeq, ElementOfSeq
  <2>2. /\ open[n].at \in Nat
        /\ open[n].at \in open[n].slots
        /\ FrameOK(open[n])
    BY <1>2, <2>1 DEF FramesOK, Inside, Frame
  <2>3. /\ open[n].at % 4 = 0 /\ open[n].at < next /\ next % 4 = 0
        /\ next <= open[n].end /\ next \in open[n].slots \cup {open[n].end}
        /\ open[n].end <= size
    BY <2>2 DEF FrameOK, SlotsLead
  <2>4. next \in Nat /\ open[n].at + 4 + SignedWord(buffer, open[n].at) = next
    <3>1. next \in Nat
      BY <2>2, NextSlotType DEF IInv
    <3>2. open[n].end \in Nat /\ size \in Nat
      BY <2>1, BufferAssumption DEF IInv, TypeOK, Frame
    <3>3. next <= size
      BY <2>3, <3>1, <3>2
    <3> QED
      BY <2>2, <2>3, <3>1, <3>3, NextIsNext DEF IInv
  <2> HIDE DEF next
  <2> DEFINE st == [open EXCEPT ![n].at = next]
  <2>5. stack' = st /\ pc' = "elements" /\ outcome' = outcome
    BY <1>2, <2>1, <2>4 DEF Continue, Frame
  <2>6. st \in Seq(Frame) /\ st # <<>> /\ FramesOK(st)
    BY <1>2, <2>3, <2>4, FramesMoved
  <2> HIDE DEF st
  <2>7. TypeOK'
    BY <2>5, <2>6 DEF IInv, TypeOK, Labels, Frame
  <2>8. FramesOK(stack)'
    BY <2>5, <2>6, FramesKept
  <2>9. Frames' /\ Opened' /\ Slots' /\ Arguments'
    BY <2>5, <2>6, <2>8 DEF Frames, Opened, Slots, Arguments
  <2> QED
    BY <2>7, <2>9 DEF IInv
<1> QED
  BY <1>1, <1>2

-----------------------------------------------------------------------------
(***************************************************************************)
(* Every step keeps the inductive invariant                                *)
(***************************************************************************)
LEMMA ReceiveStep == ASSUME IInv, Receive PROVE IInv'
<1> USE DEF parsing, element, message
<1>1. PICK d \in Datagrams :
        /\ pc = "idle" /\ received < MaxDatagrams
        /\ received' = received + 1
        /\ buffer' = Overlay(buffer, d)
        /\ size' = IF Len(d) < BufferSize THEN Len(d) ELSE BufferSize
        /\ pc' = "packet"
        /\ UNCHANGED <<stack, parsing, outcome>>
  BY DEF Receive
<1>2. d \in Seq(Bytes) /\ Len(d) \in Nat
  BY DatagramsAssumption, LenProperties
<1>3. buffer' \in Seq(Bytes) /\ Len(buffer') = BufferSize
  <2>1. \A i \in 1..BufferSize : (IF i <= Len(d) THEN d[i] ELSE buffer[i]) \in Bytes
    BY <1>2, ElementOfSeq, BufferAssumption DEF IInv, TypeOK
  <2> QED
    BY <1>1, <2>1, BufferAssumption DEF Overlay
<1>4. TypeOK'
  BY <1>1, <1>2, <1>3, BufferAssumption, BoundsAssumption DEF IInv, TypeOK, Labels
<1>5. stack' = <<>>
  BY <1>1 DEF IInv, Frames
<1>6. Frames' /\ Opened' /\ Slots' /\ Arguments'
  BY <1>1, <1>5 DEF Frames, FramesOK, Opened, Slots, Arguments
<1> QED
  BY <1>4, <1>6 DEF IInv

LEMMA ProcessPacketStep == ASSUME IInv, ProcessPacket PROVE IInv'
<1> USE DEF input, parsing, element, message, result
<1>1. CASE Throw
  BY <1>1, ThrowStep
<1>2. CASE /\ size % 4 = 0 /\ Open(0, size)
           /\ UNCHANGED <<input, stack, cursor, slots, message, result>>
  <2>1. size \in Nat /\ stack = <<>>
    BY BufferAssumption DEF IInv, TypeOK, Frames, ProcessPacket
  <2>2. TypeOK'
    BY <1>2, <2>1 DEF IInv, TypeOK, Labels, Open
  <2>3. FramesOK(stack)'
    BY <1>2, <2>1 DEF FramesOK
  <2>4. Frames' /\ Opened' /\ Slots' /\ Arguments'
    BY <1>2, <2>1, <2>3 DEF Frames, Opened, Slots, Arguments, Open, Inside
  <2> QED
    BY <2>2, <2>4 DEF IInv
<1> QED
  BY <1>1, <1>2 DEF ProcessPacket, ValidateSize

LEMMA BundleHeadStep == ASSUME IInv, BundleHead PROVE IInv'
<1> USE DEF input, parsing, element, message, result
<1>1. CASE Throw
  BY <1>1, ThrowStep
<1>2. CASE /\ end - from >= 16 /\ pc' = "slots" /\ cursor' = from + 16 /\ slots' = {}
           /\ UNCHANGED <<input, stack, element, message, result>>
  <2>1. from \in Nat /\ end \in Nat /\ pc = "bundle"
    BY DEF IInv, TypeOK, BundleHead
  <2>2. TypeOK'
    BY <1>2, <2>1 DEF IInv, TypeOK, Labels
  <2>3. FramesOK(stack)'
    BY <1>2, FramesKept DEF IInv, Frames
  <2>4. Frames' /\ Opened'
    BY <1>2, <2>1, <2>3 DEF IInv, Frames, Opened, Inside, Top, NextSlot, W
  <2>5. Slots' /\ Arguments'
    BY <1>2, <2>1 DEF IInv, Opened, Slots, SlotsLead, Arguments
  <2> QED
    BY <2>2, <2>4, <2>5 DEF IInv
<1> QED
  BY <1>1, <1>2 DEF BundleHead

LEMMA SlotStep == ASSUME IInv, Slot PROVE IInv'
<1> USE DEF input, parsing, element, message, result
<1>1. CASE Throw
  BY <1>1, ThrowStep
<1>2. CASE /\ cursor < end /\ W(cursor) % 4 = 0 /\ NextSlot(cursor) <= end
           /\ cursor' = NextSlot(cursor) /\ slots' = slots \cup {cursor}
           /\ UNCHANGED <<input, pc, stack, element, message, result>>
  <2>1. from \in Nat /\ end \in Nat /\ cursor \in Nat /\ slots \in SUBSET Nat /\ pc = "slots"
    BY DEF IInv, TypeOK, Slot
  <2>2. /\ cursor % 4 = 0 /\ cursor <= end /\ from + 16 \in slots \cup {cursor}
        /\ SlotsLead(slots \ {cursor}, cursor)
        /\ cursor \in slots => NextSlot(cursor) = cursor
    BY <2>1 DEF IInv, Slots
  <2>3. /\ NextSlot(cursor) \in Nat /\ NextSlot(cursor) >= cursor /\ NextSlot(cursor) % 4 = 0
    <3>1. /\ W(cursor) \in Nat /\ NextSlot(cursor) \in Nat /\ NextSlot(cursor) >= cursor
          /\ NextSlot(cursor) = cursor \/ NextSlot(cursor) = cursor + 4 + W(cursor)
      BY <1>2, <2>1, NextSlotType DEF IInv
    <3> QED
      BY <1>2, <2>1, <2>2, <3>1
  <2>4. TypeOK'
    BY <1>2, <2>1, <2>3 DEF IInv, TypeOK
  <2>5. FramesOK(stack)'
    BY <1>2, FramesKept DEF IInv, Frames
  <2>6. Frames' /\ Opened' /\ Arguments'
    BY <1>2, <2>1, <2>5 DEF IInv, Frames, Opened, Arguments, Inside, Top, NextSlot, W
  <2>7. ASSUME NextSlot(cursor) = cursor PROVE Slots'
    <3>1. slots' \ {cursor} = slots \ {cursor}
      BY <1>2
    <3>2. SlotsLead(slots \ {cursor}, cursor)'
      BY <1>2, <2>2, <2>7, <3>1 DEF SlotsLead, NextSlot, W
    <3>3. NextSlot(cursor)' = cursor' /\ cursor' < end' /\ cursor' = cursor
      BY <1>2, <2>1, <2>7 DEF NextSlot, W
    <3>4. cursor' % 4 = 0 /\ cursor' <= end' /\ from' + 16 \in slots' \cup {cursor'}
      BY <1>2, <2>2, <2>7
    <3> QED
      BY <3>2, <3>3, <3>4 DEF Slots
  <2>8. ASSUME NextSlot(cursor) # cursor PROVE Slots'
    <3>1. cursor \notin slots /\ slots \ {cursor} = slots
      BY <2>2, <2>8
    <3>2. cursor < NextSlot(cursor)
      BY <2>1, <2>3, <2>8
    <3>3. \A s \in slots : /\ s \in Nat /\ NextSlot(s) \in Nat
                          /\ s % 4 = 0 /\ s < NextSlot(s) /\ NextSlot(s) <= cursor
                          /\ NextSlot(s) % 4 = 0 /\ NextSlot(s) \in slots \cup {cursor}
      BY <2>1, <2>2, <3>1, NextSlotType DEF IInv, SlotsLead
    <3>4. \A s \in slots \cup {cursor} : s < NextSlot(cursor)
      BY <2>1, <2>3, <3>2, <3>3
    <3>5. NextSlot(cursor) \notin slots \cup {cursor}
      BY <2>3, <3>4
    <3>6. SlotsLead(slots \cup {cursor}, NextSlot(cursor))
      BY <2>1, <2>2, <2>3, <3>2, <3>3 DEF SlotsLead
    <3>7. /\ slots' \ {cursor'} = slots \cup {cursor} /\ cursor' \notin slots'
          /\ from + 16 \in slots' \cup {cursor'}
      BY <1>2, <2>2, <3>5
    <3>8. SlotsLead(slots \ {cursor}, cursor)'
      BY <1>2, <3>6, <3>7 DEF SlotsLead, NextSlot, W
    <3>9. cursor' % 4 = 0 /\ cursor' <= end' /\ from' + 16 \in slots' \cup {cursor'}
      BY <1>2, <2>3, <3>7
    <3> QED
      BY <3>7, <3>8, <3>9 DEF Slots
  <2>9. Slots'
    BY <2>7, <2>8
  <2> QED
    BY <2>4, <2>6, <2>9 DEF IInv
<1> QED
  BY <1>1, <1>2 DEF Slot

LEMMA SlotsEndStep == ASSUME IInv, SlotsEnd PROVE IInv'
<1> USE DEF input, parsing, element, message, result
<1> DEFINE f == [at |-> from + 16, end |-> end, slots |-> slots]
           n == Len(stack)
<1>1. /\ pc = "slots" /\ pc' = "elements"
      /\ stack' = Append(stack, f)
      /\ cursor >= end
      /\ UNCHANGED <<input, parsing, result>>
  BY DEF SlotsEnd
<1>2. /\ from \in Nat /\ end \in Nat /\ cursor \in Nat /\ slots \in SUBSET Nat
      /\ stack \in Seq(Frame) /\ n \in Nat
  BY LenProperties DEF IInv, TypeOK, Frame
<1>3. cursor = end /\ slots \ {cursor} = slots /\ f \in Frame
  BY <1>1, <1>2 DEF IInv, Slots, Frame
<1>4. FrameOK(f)
  BY <1>1, <1>2, <1>3 DEF IInv, Slots, Opened, FrameOK
<1>5. f.end = end
  OBVIOUS
<1> HIDE DEF f
<1>6. /\ stack' \in Seq(Frame) /\ Len(stack') = n + 1 /\ stack' # <<>>
      /\ \A k \in 1..(n + 1) : stack'[k] = IF k = n + 1 THEN f ELSE stack[k]
  BY <1>1, <1>2, <1>3, AppendProperties
<1>7. TypeOK'
  BY <1>1, <1>6 DEF IInv, TypeOK, Labels, Frame
<1>8. FramesOK(Append(stack, f))
  <2> SUFFICES ASSUME NEW k \in 1..(n + 1)
               PROVE  /\ FrameOK(Append(stack, f)[k])
                      /\ k > 1 => /\ Append(stack, f)[k - 1].at \in Append(stack, f)[k - 1].slots
                                  /\ Append(stack, f)[k].end = NextSlot(Append(stack, f)[k - 1].at)
    BY <1>1, <1>6 DEF FramesOK
  <2>1. CASE k = n + 1
    <3>1. Append(stack, f)[k] = f /\ (k > 1 => Append(stack, f)[k - 1] = stack[n] /\ stack # <<>>)
      BY <1>1, <1>2, <1>6, <2>1
    <3>2. stack # <<>> => stack[n].at \in stack[n].slots /\ f.end = NextSlot(stack[n].at)
      BY <1>1, <1>5 DEF IInv, Opened, Inside, Top
    <3> QED
      BY <1>4, <3>1, <3>2
  <2>2. CASE k # n + 1
    <3>1. /\ k \in 1..n /\ Append(stack, f)[k] = stack[k]
          /\ k > 1 => Append(stack, f)[k - 1] = stack[k - 1]
      BY <1>1, <1>2, <1>6, <2>2
    <3> QED
      BY <3>1 DEF IInv, Frames, FramesOK
  <2> QED
    BY <2>1, <2>2
<1>9. FramesOK(stack)'
  BY <1>1, <1>8, FramesKept
<1>10. Frames' /\ Opened' /\ Slots' /\ Arguments'
  BY <1>1, <1>6, <1>9 DEF Frames, Opened, Slots, Arguments
<1> QED
  BY <1>7, <1>10 DEF IInv

LEMMA ElementStep == ASSUME IInv, Element PROVE IInv'
<1> USE DEF input, parsing, element, message, result
<1> DEFINE n == Len(stack)
           first == Top.at + 4
           last == Top.at + 4 + SignedWord(buffer, Top.at)
<1>1. /\ pc = "elements" /\ Top.at # Top.end
      /\ Open(first, last)
      /\ UNCHANGED <<input, stack, cursor, slots, message, result>>
  BY DEF Element
<1>2. stack \in Seq(Frame) /\ stack # <<>> /\ n \in 1..Len(stack) /\ Top \in Frame
  <2>1. stack \in Seq(Frame) /\ stack # <<>>
    BY <1>1 DEF IInv, TypeOK, Frames, Frame
  <2>2. n \in 1..Len(stack)
    BY <2>1, LenProperties, EmptySeq
  <2> QED
    BY <2>1, <2>2, ElementOfSeq DEF Top
<1>3. FrameOK(Top)
  BY <1>2 DEF IInv, Frames, FramesOK, Top
<1>4. Top.at \in Nat /\ Top.at \in Top.slots /\ Top.end \in Nat /\ size \in Nat
  BY <1>1, <1>2, <1>3, BufferAssumption DEF FrameOK, Frame, IInv, TypeOK
<1>5. /\ Top.at % 4 = 0 /\ NextSlot(Top.at) <= Top.end /\ NextSlot(Top.at) % 4 = 0
      /\ Top.at < NextSlot(Top.at) /\ Top.end <= size
  BY <1>3, <1>4 DEF FrameOK, SlotsLead
<1>6. NextSlot(Top.at) \in Nat
  BY <1>4, NextSlotType DEF IInv
<1>7. last = NextSlot(Top.at) /\ first <= last
  BY <1>4, <1>5, <1>6, NextIsNext DEF IInv
<1>8. first \in Nat /\ first % 4 = 0
  BY <1>4, <1>5
<1> HIDE DEF first, last
<1>9. /\ from' = first /\ end' = last /\ pc' \in {"bundle", "message"}
  BY <1>1 DEF Open
<1>10. TypeOK'
  BY <1>1, <1>6, <1>7, <1>8, <1>9 DEF IInv, TypeOK, Labels
<1>11. FramesOK(stack)'
  BY <1>1, FramesKept DEF IInv, Frames
<1>12. Opened'
  <2>1. Top' = Top /\ NextSlot(Top.at)' = NextSlot(Top.at) /\ size' = size
    BY <1>1 DEF Top, NextSlot, W
  <2>2. Inside(stack)'
    BY <1>1, <1>4 DEF Inside, Top
  <2>3. (end = NextSlot(Top.at))'
    BY <1>7, <1>9, <2>1
  <2> QED
    BY <1>4, <1>5, <1>6, <1>7, <1>8, <1>9, <2>1, <2>2, <2>3 DEF Opened
<1>13. Frames' /\ Slots' /\ Arguments'
  BY <1>1, <1>9, <1>11 DEF IInv, Frames, Slots, Arguments
<1> QED
  BY <1>10, <1>12, <1>13 DEF IInv

(* The bundles around the innermost one are as good as they were. *)
LEMMA OuterBundles ==
  ASSUME IInv, pc = "elements"
  PROVE  LET n    == Len(stack)
             open == SubSeq(stack, 1, n - 1)
         IN  /\ n \in Nat \ {0} /\ open \in Seq(Frame) /\ Len(open) = n - 1
             /\ \A k \in 1..(n - 1) : open[k] = stack[k]
             /\ FramesOK(open) /\ Inside(open)
<1> DEFINE n == Len(stack)
           open == SubSeq(stack, 1, n - 1)
<1>1. stack \in Seq(Frame) /\ n \in Nat \ {0}
  BY LenProperties, EmptySeq DEF IInv, TypeOK, Frames, Frame
<1>2. /\ open \in Seq(Frame) /\ Len(open) = n - 1
      /\ \A k \in 1..(n - 1) : open[k] = stack[k]
  <2>1. \A i \in 1..(n - 1) : stack[i] \in Frame
    BY <1>1, ElementOfSeq
  <2>2. 1 \in Int /\ n - 1 \in Int
    BY <1>1
  <2> HIDE DEF n
  <2>3. open \in Seq(Frame) /\ Len(open) = (IF 1 <= n - 1 THEN n - 1 - 1 + 1 ELSE 0)
        /\ \A i \in 1..(n - 1 - 1 + 1) : open[i] = stack[1 + i - 1]
    BY <2>1, <2>2, SubSeqProperties
  <2> QED
    BY <1>1, <2>3
<1> HIDE DEF open
<1>3. FramesOK(open)
  <2> SUFFICES ASSUME NEW k \in 1..(n - 1)
               PROVE  /\ FrameOK(open[k])
                      /\ k > 1 => /\ open[k - 1].at \in open[k - 1].slots
                                  /\ open[k].end = NextSlot(open[k - 1].at)
    BY <1>2 DEF FramesOK
  <2>1. k \in 1..n /\ open[k] = stack[k] /\ (k > 1 => open[k - 1] = stack[k - 1])
    BY <1>1, <1>2
  <2> QED
    BY <2>1 DEF IInv, Frames, FramesOK
<1>4. Inside(open)
  <2> SUFFICES ASSUME open # <<>>
               PROVE  open[n - 1].at \in open[n - 1].slots
    BY <1>2 DEF Inside
  <2>1. n - 1 \in Nat \ {0}
    BY <1>1, <1>2, EmptySeq
  <2>2. n \in 1..n /\ n > 1 /\ open[n - 1] = stack[n - 1]
    BY <1>1, <1>2, <2>1
  <2> QED
    BY <2>2 DEF IInv, Frames, FramesOK
<1> QED
  BY <1>1, <1>2, <1>3, <1>4 DEF open

LEMMA BundleEndStep == ASSUME IInv, BundleEnd PROVE IInv'
<1>1. /\ pc = "elements" /\ Continue(SubSeq(stack, 1, Len(stack) - 1))
      /\ UNCHANGED <<input, parsing>>
  BY DEF BundleEnd
<1> QED
  BY <1>1, OuterBundles, ContinueStep

LEMMA DeliverStep == ASSUME IInv, Deliver PROVE IInv'
<1>1. pc = "convert" /\ Continue(stack) /\ UNCHANGED <<input, parsing>>
  BY DEF Deliver
<1>2. stack \in Seq(Frame) /\ FramesOK(stack) /\ Inside(stack)
  BY <1>1 DEF IInv, TypeOK, Frames, Opened, Frame
<1> QED
  BY <1>1, <1>2, ContinueStep

LEMMA MessageHeadStep == ASSUME IInv, MessageHead PROVE IInv'
<1> USE DEF input, parsing, element, message, result
<1> DEFINE comma == AddressEnd
           arguments == FindStr4End(buffer, comma, end)
<1>1. CASE Throw
  BY <1>1, ThrowStep
<1>2. CASE ~Throw
  <2>1. /\ pc = "message"
        /\ comma # Null /\ (comma # end /\ B(comma + 1) # 0 => arguments # Null)
        /\ IF comma = end \/ B(comma + 1) = 0 THEN BareMessage ELSE TaggedMessage(comma, arguments)
        /\ level' = 0 /\ checked' = <<>> /\ values' = <<>>
        /\ UNCHANGED <<input, stack, element, slots, result>>
    BY <1>2 DEF MessageHead
  <2>2. /\ from \in Nat /\ end \in Nat /\ from % 4 = 0 /\ end % 4 = 0 /\ buffer \in Seq(Bytes)
    BY <2>1 DEF IInv, TypeOK, Opened
  <2>3. comma \in Nat /\ comma > from /\ comma <= end /\ comma % 4 = 0
    BY <2>1, <2>2, FindType DEF AddressEnd
  <2>4. Frames' /\ Opened'
    <3>1. FramesOK(stack)'
      BY <2>1, FramesKept DEF IInv, Frames
    <3>2. pc' \in {"convert", "tags"}
      BY <2>1 DEF BareMessage, TaggedMessage
    <3> QED
      BY <2>1, <3>1, <3>2 DEF IInv, Frames, Opened, Inside, Top, NextSlot, W
  <2>5. CASE BareMessage
    <3>1. TypeOK'
      BY <2>1, <2>5, Numbers DEF IInv, TypeOK, BareMessage, NoTags, Null, Labels
    <3>2. Slots' /\ Arguments'
      BY <2>5 DEF Slots, Arguments, Converting, BareMessage, NoTags
    <3> QED
      BY <2>4, <3>1, <3>2 DEF IInv
  <2>6. CASE TaggedMessage(comma, arguments) /\ arguments # Null
    <3>1. arguments \in Nat /\ arguments > comma /\ arguments % 4 = 0
      BY <2>2, <2>3, <2>6, FindType
    <3> HIDE DEF comma, arguments
    <3>2. TypeOK'
      BY <2>1, <2>3, <2>6, <3>1, Numbers DEF IInv, TypeOK, TaggedMessage, Null, Labels
    <3>3. Slots' /\ Arguments'
      BY <2>1, <2>2, <2>3, <2>6, <3>1
         DEF Slots, Arguments, Looking, ArgumentsLead, TaggedMessage, Null
    <3> QED
      BY <2>4, <3>2, <3>3 DEF IInv
  <2> QED
    BY <2>1, <2>5, <2>6
<1> QED
  BY <1>1, <1>2

(* Where an argument leads depends on the buffer and the element only. *)
LEMMA LeadsKept ==
  ASSUME UNCHANGED <<buffer, element>>
  PROVE  \A t, place, next : Leads(t, place, next)' <=> Leads(t, place, next)
  BY DEF Leads, SizeWords, OutsideTheBuffer, CheckedEnd, W, B, element

LEMMA CheckTagStep == ASSUME IInv, CheckTag PROVE IInv'
<1> USE DEF input, parsing, element, message, result
<1>1. CASE Throw
  BY <1>1, ThrowStep
<1>2. CASE ~Throw
  <2>1. /\ pc = "tags" /\ TagIsFine(tag, cursor)
        /\ checked' = Append(checked, cursor)
        /\ \E word \in SizeWords(tag, cursor) : cursor' = CheckedEnd(tag, cursor, word)
        /\ level' = IF B(tag) = ArrayBeginTag THEN (level + 1) % Wrap
                    ELSE IF B(tag) = ArrayEndTag THEN (level - 1) % Wrap
                    ELSE level
        /\ tag' = tag + 1
        /\ pc' \in {"tags", "level"}
        /\ UNCHANGED <<input, stack, element, slots, tags, values, result>>
    BY <1>2 DEF CheckTag
  <2>2. /\ from \in Nat /\ end \in Nat /\ cursor \in Nat /\ tag \in Nat
        /\ checked \in Seq(Nat) /\ tags.begin \in Nat
        /\ end <= size /\ end % 4 = 0
    BY <2>1 DEF IInv, TypeOK, Opened
  <2> DEFINE n == Len(checked)
  <2>3. n \in Nat
    BY <2>2, LenProperties
  <2>4. /\ tags.begin # Null /\ tag = tags.begin + n
        /\ from < cursor /\ cursor % 4 = 0
        /\ n > 0 => checked[1] = tags.arguments /\ Leads(tag - 1, checked[n], cursor)
        /\ n = 0 => cursor = tags.arguments
        /\ \A i \in 1..n :
             /\ TagIsFine(tags.begin + i - 1, checked[i])
             /\ from < checked[i] /\ checked[i] % 4 = 0
             /\ i < n => Leads(tags.begin + i - 1, checked[i], checked[i + 1])
    BY <2>1 DEF IInv, Arguments, Looking, ArgumentsLead
  <2>5. /\ Leads(tag, cursor, cursor')
        /\ cursor' \in Nat /\ cursor <= cursor' /\ cursor' % 4 = 0
    <3>1. PICK word \in SizeWords(tag, cursor) : cursor' = CheckedEnd(tag, cursor, word)
      BY <2>1
    <3>2. word \in Nat
      BY <2>2, SizeType DEF IInv
    <3> QED
      BY <2>1, <2>2, <2>4, <3>1, <3>2, FineArgument DEF IInv, Leads
  <2>6. /\ checked' \in Seq(Nat) /\ Len(checked') = n + 1
        /\ \A i \in 1..n : checked'[i] = checked[i]
        /\ checked'[n + 1] = cursor
    BY <2>1, <2>2, AppendProperties
  <2> HIDE DEF n
  <2>7. TypeOK'
    <3>1. level' \in 0..(Wrap - 1)
      <4>1. level \in 0..(Wrap - 1) /\ level \in Int
        BY Numbers DEF IInv, TypeOK
      <4>2. (level + 1) % Wrap \in 0..(Wrap - 1) /\ (level - 1) % Wrap \in 0..(Wrap - 1)
        BY <4>1, Numbers
      <4> QED
        BY <2>1, <4>1, <4>2
    <3> QED
      BY <2>1, <2>2, <2>5, <2>6, <3>1 DEF IInv, TypeOK, Labels
  <2>8. Frames' /\ Opened' /\ Slots'
    <3>1. FramesOK(stack)'
      BY <2>1, FramesKept DEF IInv, Frames
    <3> QED
      BY <2>1, <3>1 DEF IInv, Frames, Opened, Slots, Inside, Top, NextSlot, W
  <2>9. \A i \in 1..(n + 1) :
          /\ TagIsFine(tags.begin + i - 1, checked'[i])
          /\ from < checked'[i] /\ checked'[i] % 4 = 0
          /\ i < n + 1 => Leads(tags.begin + i - 1, checked'[i], checked'[i + 1])
    <3> TAKE i \in 1..(n + 1)
    <3>1. CASE i = n + 1
      <4>1. checked'[i] = cursor /\ tags.begin + i - 1 = tag /\ ~(i < n + 1)
        BY <2>2, <2>3, <2>4, <2>6, <3>1
      <4> QED
        BY <2>1, <2>4, <4>1
    <3>2. CASE i # n + 1
      <4>1. i \in 1..n /\ i > 0 /\ n > 0 /\ checked'[i] = checked[i]
        BY <2>3, <2>6, <3>2
      <4>2. Leads(tags.begin + i - 1, checked[i], checked'[i + 1])
        <5>1. CASE i = n
          <6>1. checked'[i + 1] = cursor /\ tags.begin + i - 1 = tag - 1
            BY <2>2, <2>3, <2>4, <2>6, <5>1
          <6> QED
            BY <2>4, <4>1, <5>1, <6>1
        <5>2. CASE i # n
          <6>1. i < n /\ i + 1 \in 1..n
            BY <2>3, <4>1, <5>2
          <6> QED
            BY <2>4, <2>6, <4>1, <6>1
        <5> QED
          BY <5>1, <5>2
      <4> QED
        BY <2>4, <4>1, <4>2
    <3> QED
      BY <3>1, <3>2
  <2>10. Looking'
    <3>1. /\ tag' = tags.begin + (n + 1) /\ from < cursor' /\ cursor' % 4 = 0 /\ cursor' \in Nat
          /\ tag' - 1 = tag
      <4>1. tag' = tag + 1
        BY <2>1
      <4>2. tag = tags.begin + n /\ from < cursor
        BY <2>4
      <4>3. tag' = tags.begin + (n + 1) /\ tag' - 1 = tag
        BY <2>2, <2>3, <4>1, <4>2
      <4>4. cursor' \in Nat /\ cursor <= cursor' /\ cursor' % 4 = 0
        BY <2>5
      <4>5. \A f, c, d \in Nat : f < c /\ c <= d => f < d
        OBVIOUS
      <4>6. from < cursor'
        BY <2>2, <4>2, <4>4, <4>5
      <4> QED
        BY <4>3, <4>4, <4>6
    <3>2. checked'[1] = tags.arguments
      <4>1. CASE n = 0
        BY <2>4, <2>6, <4>1
      <4>2. CASE n # 0
        <5>1. n > 0 /\ 1 \in 1..n
          BY <2>3, <4>2
        <5> QED
          BY <2>4, <2>6, <5>1
      <4> QED
        BY <4>1, <4>2
    <3>3. n + 1 > 0 /\ n + 1 # 0
      BY <2>3
    <3>4. (/\ tags.begin # Null /\ tag = tags.begin + Len(checked)
           /\ from < cursor /\ cursor % 4 = 0)'
      BY <2>1, <2>4, <2>6, <3>1
    <3>5. (/\ Len(checked) > 0 => /\ checked[1] = tags.arguments
                                  /\ Leads(tag - 1, checked[Len(checked)], cursor)
           /\ Len(checked) = 0 => cursor = tags.arguments
           /\ pc = "level" => Len(checked) > 0)'
      BY <2>1, <2>5, <2>6, <3>1, <3>2, <3>3, LeadsKept
    <3>6. ArgumentsLead'
      BY <2>1, <2>6, <2>9, LeadsKept DEF ArgumentsLead, TagIsFine, B
    <3> QED
      BY <3>4, <3>5, <3>6 DEF Looking
  <2> QED
    BY <2>1, <2>7, <2>8, <2>10 DEF IInv, Arguments
<1> QED
  BY <1>1, <1>2

LEMMA TagsEndStep == ASSUME IInv, TagsEnd PROVE IInv'
<1> USE DEF input, parsing, element, message, result
<1>1. CASE Throw
  BY <1>1, ThrowStep
<1>2. CASE ~Throw
  <2>1. /\ pc = "level"
        /\ tags' = [tags EXCEPT !.stop = tag]
        /\ tag' = tags.begin
        /\ cursor' = tags.arguments
        /\ pc' = "convert"
        /\ UNCHANGED <<input, stack, element, slots, level, checked, values, result>>
    BY <1>2 DEF TagsEnd
  <2>2. TypeOK'
    BY <2>1 DEF IInv, TypeOK, Labels
  <2>3. Frames' /\ Opened' /\ Slots'
    <3>1. FramesOK(stack)'
      BY <2>1, FramesKept DEF IInv, Frames
    <3> QED
      BY <2>1, <3>1 DEF IInv, Frames, Opened, Slots, Inside, Top, NextSlot, W
  <2>4. Looking /\ Len(checked) \in Nat /\ Len(checked) > 0
    BY <2>1, LenProperties DEF IInv, TypeOK, Arguments, Looking
  <2>5. /\ tags'.begin = tags.begin /\ tags'.stop = tag /\ tags.begin \in Nat
        /\ tag = tags.begin + Len(checked) /\ checked[1] = tags.arguments
    BY <2>1, <2>4 DEF IInv, TypeOK, Looking
  <2>6. tag' - tags'.begin + 1 = 1 /\ tag' \in tags'.begin..tags'.stop
    BY <2>1, <2>4, <2>5
  <2>7. ArgumentsLead'
    BY <2>1, <2>4, <2>5, LeadsKept DEF Looking, ArgumentsLead, TagIsFine, B
  <2>8. Converting'
    BY <2>1, <2>5, <2>6, <2>7 DEF Converting, SameOrOutside
  <2> QED
    BY <2>1, <2>2, <2>3, <2>8 DEF IInv, Arguments
<1> QED
  BY <1>1, <1>2

(* What an argument that is about to be converted is like. *)
LEMMA ArgumentToConvert ==
  ASSUME IInv, pc = "convert", tag # tags.stop
  PROVE  LET i == tag - tags.begin + 1
         IN  /\ i \in 1..Len(checked) /\ tags.stop = tags.begin + Len(checked)
             /\ ArgumentsLead /\ tags.begin + i - 1 = tag
             /\ SameOrOutside(cursor, checked[i]) /\ from < cursor
             /\ checked[i] \in Nat /\ checked[i] % 4 = 0 /\ TagIsFine(tag, checked[i])
             /\ i < Len(checked) => Leads(tag, checked[i], checked[i + 1])
<1> DEFINE i == tag - tags.begin + 1
           n == Len(checked)
<1>1. /\ tags.stop = tags.begin + n /\ tag \in tags.begin..tags.stop
      /\ SameOrOutside(cursor, checked[i]) /\ ArgumentsLead
  BY DEF IInv, Arguments, Converting
<1>2. /\ n \in Nat /\ tags.begin \in Nat /\ tag \in Nat /\ cursor \in Nat
      /\ checked \in Seq(Nat) /\ from \in Nat /\ end \in Nat /\ BufferSize \in Nat
      /\ from <= BufferSize
  BY LenProperties, BufferAssumption DEF IInv, TypeOK, Opened
<1> HIDE DEF n
<1>3. i \in 1..n /\ tags.begin + i - 1 = tag
  <2>1. \A first, m, t \in Nat :
          t \in first..(first + m) /\ t # first + m => t - first + 1 \in 1..m
    OBVIOUS
  <2>2. tag \in tags.begin..(tags.begin + n) /\ tag # tags.begin + n
    BY <1>1
  <2>3. i \in 1..n
    BY <1>2, <2>1, <2>2
  <2> QED
    BY <1>2, <2>3
<1> HIDE DEF i
<1>4. /\ from < checked[i] /\ checked[i] % 4 = 0 /\ TagIsFine(tag, checked[i])
      /\ i < n => Leads(tag, checked[i], checked[i + 1])
      /\ checked[i] \in Nat
  BY <1>1, <1>2, <1>3, ElementOfSeq DEF ArgumentsLead, n
<1>5. from < cursor
  BY <1>1, <1>2, <1>4 DEF SameOrOutside
<1> QED
  BY <1>1, <1>3, <1>4, <1>5 DEF i, n

LEMMA ConvertStep == ASSUME IInv, Convert PROVE IInv'
<1> USE DEF input, parsing, element, message, result
<1> DEFINE i == tag - tags.begin + 1
           n == Len(checked)
<1>1. /\ pc = "convert" /\ tag # tags.stop
      /\ \E word \in SizeWords(tag, cursor) : cursor' = ArgumentEnd(buffer, B(tag), cursor, word)
      /\ tag' = tag + 1
      /\ UNCHANGED <<input, pc, stack, element, slots, tags, level, checked, result>>
  BY DEF Convert
<1>2. /\ i \in 1..n /\ tags.stop = tags.begin + n
      /\ ArgumentsLead /\ tags.begin + i - 1 = tag
      /\ cursor' \in Nat
      /\ i < n => SameOrOutside(cursor', checked[i + 1])
  <2>1. PICK word \in SizeWords(tag, cursor) : cursor' = ArgumentEnd(buffer, B(tag), cursor, word)
    BY <1>1
  <2>2. /\ i \in 1..n /\ tags.stop = tags.begin + n /\ ArgumentsLead /\ tags.begin + i - 1 = tag
        /\ SameOrOutside(cursor, checked[i])
        /\ checked[i] \in Nat /\ checked[i] % 4 = 0 /\ TagIsFine(tag, checked[i])
        /\ i < n => Leads(tag, checked[i], checked[i + 1])
    BY <1>1, ArgumentToConvert
  <2>3. end <= size /\ end % 4 = 0 /\ tag \in Nat /\ cursor \in Nat
    BY <1>1 DEF IInv, Opened, TypeOK
  <2> HIDE DEF i, n
  <2>4. cursor' \in Nat /\ \A next : Leads(tag, checked[i], next) => SameOrOutside(cursor', next)
    BY <2>1, <2>2, <2>3, NextArgument DEF IInv
  <2> QED
    BY <2>2, <2>4
<1>3. TypeOK'
  BY <1>1, <1>2 DEF IInv, TypeOK, Labels
<1>4. Frames' /\ Opened' /\ Slots'
  <2>1. FramesOK(stack)'
    BY <1>1, FramesKept DEF IInv, Frames
  <2> QED
    BY <1>1, <2>1 DEF IInv, Frames, Opened, Slots, Inside, Top, NextSlot, W
<1>5. n \in Nat /\ tags.begin \in Nat /\ tag \in Nat
  BY LenProperties DEF IInv, TypeOK
<1>6. tag' \in tags.begin..tags.stop /\ tag' - tags.begin + 1 = i + 1
  <2> HIDE DEF n
  <2> QED
    BY <1>1, <1>2, <1>5
<1>7. tag' # tags.stop => i < n
  <2> HIDE DEF n
  <2>1. i = n => tag' = tags.stop
    BY <1>1, <1>2, <1>5
  <2> QED
    BY <1>2, <1>5, <2>1
<1>8. ArgumentsLead'
  BY <1>1, <1>2, LeadsKept DEF ArgumentsLead, TagIsFine, B
<1>9. (tag # tags.stop => SameOrOutside(cursor, checked[tag - tags.begin + 1]))'
  <2> HIDE DEF n, i
  <2> QED
    BY <1>1, <1>2, <1>6, <1>7 DEF SameOrOutside
<1>10. Converting'
  BY <1>1, <1>2, <1>6, <1>8, <1>9 DEF Converting
<1> QED
  BY <1>1, <1>3, <1>4, <1>10 DEF IInv, Arguments

LEMMA CrashStep == ASSUME IInv, Crash PROVE IInv'
<1> USE DEF input, parsing, element, message, result
<1>1. /\ pc \in {"tags", "convert"} /\ pc' = "crashed"
      /\ UNCHANGED <<input, stack, parsing, result>>
  BY DEF Crash, AtArgument
<1>2. TypeOK'
  BY <1>1 DEF IInv, TypeOK, Labels
<1>3. FramesOK(stack)'
  BY <1>1, FramesKept DEF IInv, Frames
<1>4. Frames' /\ Opened' /\ Slots' /\ Arguments'
  BY <1>1, <1>3 DEF IInv, Frames, Opened, Slots, Arguments, Inside, Top, NextSlot, W
<1> QED
  BY <1>2, <1>4 DEF IInv

-----------------------------------------------------------------------------
(* The invariant holds in every state. *)
THEOREM Invariant == Spec => []IInv
<1>1. IInv /\ [Next]_vars => IInv'
  <2> SUFFICES ASSUME IInv, [Next]_vars PROVE IInv'
    OBVIOUS
  <2>1. CASE UNCHANGED vars
    <3>1. FramesOK(stack)'
      BY <2>1, FramesKept DEF IInv, Frames, vars, input
    <3>2. TypeOK' /\ Frames' /\ Opened' /\ Slots'
      BY <2>1, <3>1
         DEF IInv, TypeOK, Frames, Opened, Slots, Inside, Top, NextSlot, W, SlotsLead,
             vars, input, parsing, element, message, result
    <3>3. Arguments'
      BY <2>1, LeadsKept
         DEF IInv, Arguments, Looking, Converting, ArgumentsLead, SameOrOutside, TagIsFine, B,
             vars, input, parsing, element, message, result
    <3> QED
      BY <3>2, <3>3 DEF IInv
  <2>2. CASE Receive
    BY <2>2, ReceiveStep
  <2>3. CASE ProcessPacket
    BY <2>3, ProcessPacketStep
  <2>4. CASE BundleHead
    BY <2>4, BundleHeadStep
  <2>5. CASE Slot
    BY <2>5, SlotStep
  <2>6. CASE SlotsEnd
    BY <2>6, SlotsEndStep
  <2>7. CASE Element
    BY <2>7, ElementStep
  <2>8. CASE BundleEnd
    BY <2>8, BundleEndStep
  <2>9. CASE MessageHead
    BY <2>9, MessageHeadStep
  <2>10. CASE CheckTag
    BY <2>10, CheckTagStep
  <2>11. CASE TagsEnd
    BY <2>11, TagsEndStep
  <2>12. CASE Convert
    BY <2>12, ConvertStep
  <2>13. CASE Deliver
    BY <2>13, DeliverStep
  <2>14. CASE Crash
    BY <2>14, CrashStep
  <2> QED
    BY <2>1, <2>2, <2>3, <2>4, <2>5, <2>6, <2>7, <2>8, <2>9, <2>10, <2>11, <2>12, <2>13, <2>14
       DEF Next, Run
<1> QED
  BY InitInv, <1>1, PTL DEF Spec

(* Every variable of the parser stays in its range, the array level and the *)
(* size of the packet included.                                             *)
THEOREM TypeCorrect == Spec => []TypeOK
<1>1. IInv => TypeOK
  BY DEF IInv
<1> QED
  BY Invariant, <1>1, PTL

(* The unchecked steps of ProcessBundle's iterators stay on the slots that  *)
(* ReceivedBundle::Init has found with sums in 32 bits, for every packet    *)
(* and every buffer: no slot that a sum has turned over to is among them.   *)
THEOREM StaysOnSlots == Spec => []IteratorsStayOnSlots
<1>1. IInv => IteratorsStayOnSlots
  BY DEF IInv, Frames, FramesOK, FrameOK, IteratorsStayOnSlots
<1> QED
  BY Invariant, <1>1, PTL

(* Every argument of which oscmsg_data uses a byte lies inside its message, *)
(* although the two errors about a blob that does not are never thrown and  *)
(* the size of a blob behind it may be anything.                            *)
THEOREM StaysInside == Spec => []ValuesAreInside
<1>1. IInv => ValuesAreInside
  <2> SUFFICES ASSUME IInv, pc = "convert", tag # tags.stop,
                      B(tag) \in WordTags \cup DoubleTags \cup StringTags
               PROVE  /\ from < cursor
                      /\ ArgumentEnd(buffer, B(tag), cursor, 0) <= end
                      /\ end <= size
    BY DEF ValuesAreInside
  <2> DEFINE place == checked[tag - tags.begin + 1]
  <2>1. /\ from < cursor /\ SameOrOutside(cursor, place)
        /\ place \in Nat /\ place % 4 = 0 /\ TagIsFine(tag, place)
    BY ArgumentToConvert
  <2>2. /\ end <= size /\ end % 4 = 0 /\ end \in Nat /\ tag \in Nat
        /\ BufferSize \in Nat /\ end <= BufferSize
    BY BufferAssumption DEF IInv, Opened, TypeOK
  <2> HIDE DEF place
  <2>3. ~(place >= end)
    BY <2>1, <2>2, FineOutside DEF IInv
  <2>4. cursor = place
    BY <2>1, <2>2, <2>3 DEF SameOrOutside
  <2>5. ArgumentEnd(buffer, B(tag), place, 0) <= end
    BY <2>1, <2>2, FineArgument DEF IInv
  <2> QED
    BY <2>1, <2>2, <2>4, <2>5
<1> QED
  BY Invariant, <1>1, PTL

(* The iterator over the arguments, which checks nothing, finds each of     *)
(* them where ReceivedMessage::Init, which checks, has found it, as long as *)
(* that is in the buffer.                                                   *)
THEOREM FindsWhatWasChecked == Spec => []ArgumentsAreChecked
<1>1. IInv => ArgumentsAreChecked
  BY ArgumentToConvert DEF ArgumentsAreChecked, SameOrOutside
<1> QED
  BY Invariant, <1>1, PTL

-----------------------------------------------------------------------------
(***************************************************************************)
(* What follows what                                                       *)
(***************************************************************************)
Ends == {"done", "malformed", "never"}

Result(M) == [messages : Seq(M), ends : Ends]

Nothing == Silent("done")

(* A result is made of its fields. *)
LEMMA ResultFields ==
  ASSUME NEW M, NEW x \in Result(M)
  PROVE  x.messages \in Seq(M) /\ x.ends \in Ends /\ x = [messages |-> x.messages, ends |-> x.ends]
  BY DEF Result

(* Silence is a result, and so is nothing. *)
LEMMA SilentType ==
  ASSUME NEW M, NEW e \in Ends
  PROVE  Silent(e) \in Result(M) /\ Silent(e).messages = <<>> /\ Silent(e).ends = e
<1>1. <<>> \in Seq(M)
  BY EmptySeq
<1> QED
  BY <1>1 DEF Silent, Result

LEMMA NothingType == ASSUME NEW M PROVE Nothing \in Result(M)
  BY SilentType DEF Nothing, Ends

(* A sequence of results is a result. *)
LEMMA FollowedByType ==
  ASSUME NEW M, NEW x \in Result(M), NEW y \in Result(M)
  PROVE  FollowedBy(x, y) \in Result(M)
<1>1. /\ x.messages \in Seq(M) /\ x.ends \in Ends
      /\ y.messages \in Seq(M) /\ y.ends \in Ends
  BY DEF Result
<1>2. x.messages \o y.messages \in Seq(M)
  BY <1>1, ConcatProperties
<1> QED
  BY <1>1, <1>2 DEF FollowedBy, Result

(* Nothing before and nothing behind. *)
LEMMA FollowedByNothing ==
  ASSUME NEW M, NEW x \in Result(M)
  PROVE  FollowedBy(Nothing, x) = x /\ FollowedBy(x, Nothing) = x
<1>1. x.messages \in Seq(M) /\ x = [messages |-> x.messages, ends |-> x.ends]
  BY ResultFields
<1>2. <<>> \o x.messages = x.messages /\ x.messages \o <<>> = x.messages
  BY <1>1, ConcatEmptySeq
<1>3. Nothing.messages = <<>> /\ Nothing.ends = "done"
  BY SilentType DEF Nothing, Ends
<1>4. FollowedBy(Nothing, x) = [messages |-> x.messages, ends |-> x.ends]
  BY <1>2, <1>3 DEF FollowedBy
<1>5. CASE x.ends = "done"
  <2>1. FollowedBy(x, Nothing) = [messages |-> x.messages, ends |-> "done"]
    BY <1>2, <1>3, <1>5 DEF FollowedBy
  <2> QED
    BY <1>1, <1>4, <1>5, <2>1
<1>6. CASE x.ends # "done"
  BY <1>1, <1>4, <1>6 DEF FollowedBy
<1> QED
  BY <1>5, <1>6

(* What follows a sequence of results follows the last of them. *)
LEMMA FollowedByAssociative ==
  ASSUME NEW M, NEW x \in Result(M), NEW y \in Result(M), NEW z \in Result(M)
  PROVE  FollowedBy(FollowedBy(x, y), z) = FollowedBy(x, FollowedBy(y, z))
<1>1. /\ x.messages \in Seq(M) /\ y.messages \in Seq(M) /\ z.messages \in Seq(M)
  BY DEF Result
<1>2. \A r, s, t \in Seq(M) : (r \o s) \o t = r \o (s \o t)
  BY ConcatAssociative
<1>3. (x.messages \o y.messages) \o z.messages = x.messages \o (y.messages \o z.messages)
  BY <1>1, <1>2
<1>4. CASE x.ends # "done"
  BY <1>4 DEF FollowedBy
<1>5. CASE x.ends = "done" /\ y.ends # "done"
  BY <1>5 DEF FollowedBy
<1>6. CASE x.ends = "done" /\ y.ends = "done"
  BY <1>3, <1>6 DEF FollowedBy
<1> QED
  BY <1>4, <1>5, <1>6

(* Behind a fault nothing counts, and what has no fault adds its messages. *)
LEMMA FollowedByFields ==
  ASSUME NEW x, NEW y
  PROVE  /\ x.ends # "done" => /\ FollowedBy(x, y).messages = x.messages
                               /\ FollowedBy(x, y).ends = x.ends
         /\ x.ends = "done" => /\ FollowedBy(x, y).messages = x.messages \o y.messages
                               /\ FollowedBy(x, y).ends = y.ends
  BY DEF FollowedBy

-----------------------------------------------------------------------------
(***************************************************************************)
(* Meaning is well defined                                                 *)
(***************************************************************************)
Spans(b) == (0..Len(b)) \X (0..Len(b))

\* The messages that some part of a datagram could be.
Messages(b) == {MessageAt(b, s[1], s[2]).messages[1] : s \in Spans(b)}

Said(b) == Result(Messages(b))

(* A message is refused, or it holds itself. *)
LEMMA MessageAtType ==
  ASSUME NEW b, NEW first \in 0..Len(b), NEW last \in 0..Len(b)
  PROVE  MessageAt(b, first, last) \in Said(b)
<1> DEFINE r == MessageAt(b, first, last)
<1>1. r = Refused \/ \E m : r = Holds(m)
  BY DEF MessageAt, BareMessageAt, TaggedMessageAt, MessageWith
<1>2. r.messages[1] \in Messages(b)
  <2>1. <<first, last>> \in Spans(b)
    BY DEF Spans
  <2>2. <<first, last>>[1] = first /\ <<first, last>>[2] = last
    OBVIOUS
  <2> QED  BY <2>1, <2>2 DEF Messages
<1> HIDE DEF r
<1>3. ASSUME r = Refused  PROVE r \in Said(b)
  BY <1>3, SilentType DEF Refused, Said, Ends
<1>4. ASSUME NEW m, r = Holds(m)  PROVE r \in Said(b)
  <2>1. r = [messages |-> <<m>>, ends |-> "done"] /\ m \in Messages(b)
    BY <1>2, <1>4 DEF Holds
  <2>2. <<m>> \in Seq(Messages(b))
    BY <2>1
  <2> QED  BY <2>1, <2>2 DEF Result, Said, Ends
<1> QED  BY <1>1, <1>3, <1>4 DEF r

\* f and g agree on the contents of what begins behind "slot".
AgreeBehind(f, g, b, slot) == \A s \in Spans(b) : s[1] > slot => f[s] = g[s]

(* What a slot says depends on the contents behind it only. *)
LEMMA ContentsLocal ==
  ASSUME NEW b \in Seq(Bytes), NEW slot \in 0..Len(b), NEW last \in 0..Len(b), NEW f, NEW g,
         AgreeBehind(f, g, b, slot)
  PROVE  ContentsAt(b, slot, last, f) = ContentsAt(b, slot, last, g)
<1>1. Len(b) \in Nat
  BY LenProperties
<1>2. \A o \in 0..Len(b), e \in 0..Len(b) : o > slot => f[<<o, e>>] = g[<<o, e>>]
  <2> SUFFICES ASSUME NEW o \in 0..Len(b), NEW e \in 0..Len(b), o > slot
               PROVE  f[<<o, e>>] = g[<<o, e>>]
    OBVIOUS
  <2>1. <<o, e>> \in Spans(b) /\ <<o, e>>[1] = o
    BY DEF Spans
  <2> QED  BY <2>1 DEF AgreeBehind
<1>3. CASE slot = last \/ SlotIsEndless(b, slot, last) \/ ~SlotFits(b, slot, last)
  BY <1>3 DEF ContentsAt
<1>4. CASE slot # last /\ ~SlotIsEndless(b, slot, last) /\ SlotFits(b, slot, last)
  <2> DEFINE next == SlotAfter(b, slot)
  <2>1. next \in 0..Len(b) /\ slot + 4 <= next
    <3>1. Word(b, slot) \in Nat
      BY <1>1, WordType
    <3> QED  BY <1>1, <1>4, <3>1 DEF SlotFits, SlotAfter
  <2> HIDE DEF next
  <2>2. f[<<next, last>>] = g[<<next, last>>]
    BY <1>1, <1>2, <2>1
  <2>3. ElementAt(b, slot + 4, next, f) = ElementAt(b, slot + 4, next, g)
    <3>1. CASE HasBundleHead(b, slot + 4, next)
      <4>1. slot + 4 + 16 \in 0..Len(b) /\ slot + 4 + 16 > slot
        BY <1>1, <2>1, <3>1 DEF HasBundleHead
      <4>2. f[<<slot + 4 + 16, next>>] = g[<<slot + 4 + 16, next>>]
        BY <1>2, <2>1, <4>1
      <4> QED  BY <4>2 DEF ElementAt
    <3>2. CASE ~HasBundleHead(b, slot + 4, next)
      BY <3>2 DEF ElementAt
    <3> QED  BY <3>1, <3>2
  <2>4. \A h : ContentsAt(b, slot, last, h) =
                 [slots |-> h[<<next, last>>].slots,
                  says  |-> FollowedBy(ElementAt(b, slot + 4, next, h), h[<<next, last>>].says)]
    BY <1>4 DEF ContentsAt, next
  <2> QED  BY <2>2, <2>3, <2>4
<1> QED  BY <1>3, <1>4

\* f is the contents of what begins at "first" or behind.
IsContents(f, b, first) ==
  f = [s \in {s \in Spans(b) : s[1] >= first} |-> ContentsAt(b, s[1], s[2], f)]

(* The contents of what begins at an offset follow from those behind it. *)
LEMMA ContentsExtend ==
  ASSUME NEW b \in Seq(Bytes), NEW first \in 0..Len(b),
         \E f : IsContents(f, b, first + 1)
  PROVE  \E f : IsContents(f, b, first)
<1>1. PICK f : IsContents(f, b, first + 1)
  OBVIOUS
<1> DEFINE D(k) == {s \in Spans(b) : s[1] >= k}
           g == [s \in D(first) |->
                   IF s[1] > first THEN f[s] ELSE ContentsAt(b, s[1], s[2], f)]
<1>2. \A s \in Spans(b) : s[1] \in 0..Len(b) /\ s[2] \in 0..Len(b)
  BY DEF Spans
<1>3. Len(b) \in Nat
  BY LenProperties
<1>4. \A s \in Spans(b) : s[1] > first => s \in D(first) /\ s \in D(first + 1) /\ g[s] = f[s]
  BY <1>2, <1>3
<1>5. \A s \in D(first + 1) : f[s] = ContentsAt(b, s[1], s[2], f)
  BY <1>1 DEF IsContents
<1>6. ASSUME NEW s \in D(first)
      PROVE  g[s] = ContentsAt(b, s[1], s[2], g)
  <2>1. s[1] \in 0..Len(b) /\ s[2] \in 0..Len(b) /\ s[1] >= first
    BY <1>2
  <2>2. AgreeBehind(f, g, b, s[1])
    <3> SUFFICES ASSUME NEW t \in Spans(b), t[1] > s[1]  PROVE f[t] = g[t]
      BY DEF AgreeBehind
    <3>1. t[1] > first
      BY <1>2, <1>3, <2>1
    <3> QED  BY <1>4, <3>1
  <2>3. ContentsAt(b, s[1], s[2], f) = ContentsAt(b, s[1], s[2], g)
    BY <2>1, <2>2, ContentsLocal
  <2>4. CASE s[1] > first
    BY <1>4, <1>5, <2>3, <2>4
  <2>5. CASE ~(s[1] > first)
    BY <2>3, <2>5
  <2> QED  BY <2>4, <2>5
<1>7. g = [s \in D(first) |-> g[s]]
  OBVIOUS
<1> HIDE DEF g
<1>8. g = [s \in D(first) |-> ContentsAt(b, s[1], s[2], g)]
  BY <1>6, <1>7
<1>9. IsContents(g, b, first)
  BY <1>8 DEF IsContents
<1> QED  BY <1>9

(* Contents is the function that its equation describes. *)
LEMMA ContentsEquation ==
  ASSUME NEW b \in Seq(Bytes), NEW slot \in 0..Len(b), NEW last \in 0..Len(b)
  PROVE  Contents(b)[<<slot, last>>] = ContentsAt(b, slot, last, Contents(b))
<1> DEFINE n == Len(b)
           Bad == {k \in Nat : k <= n /\ ~\E f : IsContents(f, b, n - k)}
<1>1. n \in Nat
  BY LenProperties
<1>2. \E f : IsContents(f, b, n + 1)
  <2>1. {s \in Spans(b) : s[1] >= n + 1} = {}
    BY <1>1 DEF Spans
  <2>2. IsContents([s \in {} |-> ContentsAt(b, s[1], s[2], <<>>)], b, n + 1)
    BY <2>1 DEF IsContents
  <2> QED  BY <2>2
<1>3. Bad = {}
  <2> SUFFICES ASSUME Bad # {}  PROVE FALSE
    OBVIOUS
  <2>1. Least(Bad) \in Bad /\ \A k \in Bad : Least(Bad) <= k
    BY LeastIsLeast
  <2> DEFINE m == Least(Bad)
  <2>2. m \in Nat /\ m <= n /\ ~\E f : IsContents(f, b, n - m)
    BY <2>1
  <2>3. \E f : IsContents(f, b, n - m + 1)
    <3>1. CASE m = 0
      <4>1. n - m + 1 = n + 1
        BY <1>1, <3>1
      <4> QED  BY <1>2, <4>1
    <3>2. CASE m # 0
      <4>1. m - 1 \in Nat /\ m - 1 <= n /\ ~(m <= m - 1) /\ n - (m - 1) = n - m + 1
        BY <1>1, <2>2, <3>2
      <4>2. m - 1 \notin Bad
        BY <2>1, <4>1
      <4> QED  BY <4>1, <4>2
    <3> QED  BY <3>1, <3>2
  <2>4. n - m \in 0..Len(b)
    BY <1>1, <2>2
  <2> QED  BY <2>2, <2>3, <2>4, ContentsExtend
<1>4. \E f : IsContents(f, b, 0)
  <2>1. n \notin Bad
    BY <1>3
  <2>2. n - n = 0
    BY <1>1
  <2> QED  BY <1>1, <2>1, <2>2
<1>5. {s \in Spans(b) : s[1] >= 0} = Spans(b)
  BY <1>1 DEF Spans
<1>6. Contents(b) = [s \in Spans(b) |-> ContentsAt(b, s[1], s[2], Contents(b))]
  <2> DEFINE Is(f) == f = [s \in Spans(b) |-> ContentsAt(b, s[1], s[2], f)]
  <2>1. \E f : Is(f)
    BY <1>4, <1>5 DEF IsContents
  <2>2. Contents(b) = CHOOSE f : Is(f)
    BY DEF Contents, Spans
  <2> QED  BY <2>1, <2>2
<1>7. <<slot, last>> \in Spans(b) /\ <<slot, last>>[1] = slot /\ <<slot, last>>[2] = last
  BY DEF Spans
<1> QED  BY <1>6, <1>7

\* What begins behind "slot" says a result.
Saying(b, contents, slot) ==
  \A s \in Spans(b) : s[1] > slot => contents[s].says \in Said(b) /\ contents[s].slots \in Ends

(* An element says a result, when what is behind its beginning says one. *)
LEMMA ElementType ==
  ASSUME NEW b \in Seq(Bytes), NEW first \in 0..Len(b), NEW last \in 0..Len(b), NEW contents,
         Saying(b, contents, first)
  PROVE  ElementAt(b, first, last, contents) \in Said(b)
<1>1. Len(b) \in Nat
  BY LenProperties
<1>2. MessageAt(b, first, last) \in Said(b)
  BY MessageAtType
<1>3. \A e \in Ends : Silent(e) \in Said(b)
  BY SilentType DEF Said
<1>4. Refused \in Said(b)
  BY <1>3 DEF Refused, Ends
<1>5. ASSUME HasBundleHead(b, first, last)
      PROVE  LET c == contents[<<first + 16, last>>]
             IN  c.says \in Said(b) /\ c.slots \in Ends
  <2>1. first + 16 \in 0..Len(b) /\ first + 16 > first
    BY <1>1, <1>5 DEF HasBundleHead
  <2>2. <<first + 16, last>> \in Spans(b) /\ <<first + 16, last>>[1] = first + 16
    BY <2>1 DEF Spans
  <2> QED  BY <2>1, <2>2 DEF Saying
<1> QED  BY <1>2, <1>3, <1>4, <1>5 DEF ElementAt

(* The contents of a part of a datagram are a result, and its slots end. *)
LEMMA ContentsType ==
  ASSUME NEW b \in Seq(Bytes), NEW slot \in 0..Len(b), NEW last \in 0..Len(b)
  PROVE  LET c == Contents(b)[<<slot, last>>]
         IN  c.says \in Said(b) /\ c.slots \in Ends
<1> DEFINE n == Len(b)
           C == Contents(b)
           Fine(s) == C[s].says \in Said(b) /\ C[s].slots \in Ends
           Bad == {k \in Nat : k <= n /\ \E s \in Spans(b) : s[1] = n - k /\ ~Fine(s)}
<1>1. n \in Nat
  BY LenProperties
<1>2. Bad = {}
  <2> SUFFICES ASSUME Bad # {}  PROVE FALSE
    OBVIOUS
  <2> DEFINE m == Least(Bad)
  <2>1. m \in Bad /\ \A k \in Bad : m <= k
    BY LeastIsLeast
  <2>2. PICK s \in Spans(b) : s[1] = n - m /\ ~Fine(s)
    BY <2>1
  <2>3. m \in Nat /\ m <= n
    BY <2>1
  <2> HIDE DEF m
  <2>4. s[1] \in 0..n /\ s[2] \in 0..n /\ s = <<s[1], s[2]>>
    BY DEF Spans
  <2>5. Saying(b, C, s[1])
    <3> SUFFICES ASSUME NEW t \in Spans(b), t[1] > s[1]  PROVE Fine(t)
      BY DEF Saying
    <3>1. t[1] \in 0..n
      BY DEF Spans
    <3>2. n - t[1] \in Nat /\ n - t[1] <= n /\ ~(m <= n - t[1]) /\ t[1] = n - (n - t[1])
      BY <1>1, <2>2, <2>3, <2>4, <3>1
    <3>3. n - t[1] \notin Bad
      BY <2>1, <3>2
    <3> QED  BY <3>2, <3>3
  <2>6. C[s] = ContentsAt(b, s[1], s[2], C)
    BY <2>4, ContentsEquation
  <2>7. CASE \E e \in Ends : C[s] = NoMore(e)
    <3>1. PICK e \in Ends : C[s] = NoMore(e)
      BY <2>7
    <3>2. NoMore(e).slots = e /\ NoMore(e).says = Silent(e)
      BY DEF NoMore
    <3>3. Fine(s)
      BY <3>1, <3>2, SilentType DEF Said
    <3> QED  BY <2>2, <3>3
  <2>8. CASE s[1] = s[2] \/ SlotIsEndless(b, s[1], s[2]) \/ ~SlotFits(b, s[1], s[2])
    <3>1. C[s] \in {NoMore("done"), NoMore("never"), NoMore("malformed")}
      BY <2>6, <2>8 DEF ContentsAt
    <3> QED  BY <2>7, <3>1 DEF Ends
  <2>9. CASE s[1] # s[2] /\ ~SlotIsEndless(b, s[1], s[2]) /\ SlotFits(b, s[1], s[2])
    <3> DEFINE next == SlotAfter(b, s[1])
               rest == C[<<next, s[2]>>]
               both == FollowedBy(ElementAt(b, s[1] + 4, next, C), rest.says)
    <3>1. next \in 0..n /\ next > s[1] /\ s[1] + 4 \in 0..n
      <4>1. Word(b, s[1]) \in Nat
        BY <1>1, <2>4, WordType
      <4> QED  BY <1>1, <2>4, <2>9, <4>1 DEF SlotFits, SlotAfter
    <3>2. C[s] = [slots |-> rest.slots, says |-> both]
      BY <2>6, <2>9 DEF ContentsAt
    <3> HIDE DEF next
    <3>3. <<next, s[2]>> \in Spans(b) /\ <<next, s[2]>>[1] = next
      BY <2>4, <3>1 DEF Spans
    <3>4. rest.says \in Said(b) /\ rest.slots \in Ends
      BY <2>5, <3>1, <3>3 DEF Saying
    <3>5. Saying(b, C, s[1] + 4)
      <4> SUFFICES ASSUME NEW t \in Spans(b), t[1] > s[1] + 4  PROVE Fine(t)
        BY DEF Saying
      <4>1. t[1] > s[1]
        BY <2>4 DEF Spans
      <4> QED  BY <2>5, <4>1 DEF Saying
    <3>6. ElementAt(b, s[1] + 4, next, C) \in Said(b)
      BY <3>1, <3>5, ElementType
    <3> HIDE DEF rest
    <3>7. both \in Said(b)
      BY <3>4, <3>6, FollowedByType DEF Said
    <3> HIDE DEF both
    <3>8. Fine(s)
      BY <3>2, <3>4, <3>7
    <3> QED  BY <2>2, <3>8
  <2> QED  BY <2>8, <2>9
<1>3. n - slot \notin Bad
  BY <1>2
<1>4. n - slot \in Nat /\ n - slot <= n /\ n - (n - slot) = slot
  BY <1>1
<1>5. <<slot, last>> \in Spans(b) /\ <<slot, last>>[1] = slot
  BY DEF Spans
<1>6. Fine(<<slot, last>>)
  BY <1>3, <1>4, <1>5
<1> QED  BY <1>6

(* So what an element of a datagram says is a result. *)
LEMMA ElementSays ==
  ASSUME NEW b \in Seq(Bytes), NEW first \in 0..Len(b), NEW last \in 0..Len(b)
  PROVE  ElementAt(b, first, last, Contents(b)) \in Said(b)
<1>1. ASSUME NEW s \in Spans(b)
      PROVE  Contents(b)[s].says \in Said(b) /\ Contents(b)[s].slots \in Ends
  <2>1. s[1] \in 0..Len(b) /\ s[2] \in 0..Len(b) /\ s = <<s[1], s[2]>>
    BY DEF Spans
  <2> QED  BY <2>1, ContentsType
<1>2. Saying(b, Contents(b), first)
  BY <1>1 DEF Saying
<1> QED  BY <1>2, ElementType

\* What the contents of a bundle say from one slot on, and how its slots end.
From(b, slot, last)      == Contents(b)[<<slot, last>>].says
SlotsFrom(b, slot, last) == Contents(b)[<<slot, last>>].slots

(* At the end of a bundle, at a slot that leads nowhere or does not fit, and *)
(* at one that leads to the next.                                            *)
LEMMA FromSlot ==
  ASSUME NEW b \in Seq(Bytes), NEW slot \in 0..Len(b), NEW last \in 0..Len(b)
  PROVE  /\ From(b, slot, last) \in Said(b) /\ SlotsFrom(b, slot, last) \in Ends
         /\ slot = last => SlotsFrom(b, slot, last) = "done" /\ From(b, slot, last) = Nothing
         /\ slot < last /\ SlotIsEndless(b, slot, last) => SlotsFrom(b, slot, last) = "never"
         /\ slot < last /\ ~SlotIsEndless(b, slot, last) /\ ~SlotFits(b, slot, last) =>
              SlotsFrom(b, slot, last) = "malformed"
         /\ slot < last /\ ~SlotIsEndless(b, slot, last) /\ SlotFits(b, slot, last) =>
              LET next == SlotAfter(b, slot)
              IN  /\ SlotsFrom(b, slot, last) = SlotsFrom(b, next, last)
                  /\ From(b, slot, last) =
                       FollowedBy(ElementAt(b, slot + 4, next, Contents(b)), From(b, next, last))
<1> DEFINE C == Contents(b)
           c == C[<<slot, last>>]
<1>1. c = ContentsAt(b, slot, last, C)
  BY ContentsEquation
<1>2. c.says \in Said(b) /\ c.slots \in Ends
  BY ContentsType
<1>3. \A e : NoMore(e).slots = e /\ NoMore(e).says = Silent(e)
  BY DEF NoMore
<1>4. slot = last => c = NoMore("done")
  BY <1>1 DEF ContentsAt
<1>5. slot < last => slot # last
  BY LenProperties
<1>6. slot # last /\ SlotIsEndless(b, slot, last) => c = NoMore("never")
  BY <1>1 DEF ContentsAt
<1>7. slot # last /\ ~SlotIsEndless(b, slot, last) /\ ~SlotFits(b, slot, last) =>
        c = NoMore("malformed")
  BY <1>1 DEF ContentsAt
<1>8. slot # last /\ ~SlotIsEndless(b, slot, last) /\ SlotFits(b, slot, last) =>
        LET next == SlotAfter(b, slot)
        IN  c = [slots |-> C[<<next, last>>].slots,
                 says  |-> FollowedBy(ElementAt(b, slot + 4, next, C), C[<<next, last>>].says)]
  BY <1>1 DEF ContentsAt
<1> HIDE DEF C
<1> QED
  BY <1>2, <1>3, <1>4, <1>5, <1>6, <1>7, <1>8 DEF From, SlotsFrom, Nothing, C

(* Places is the function that its equation describes. *)
LEMMA PlacesEquation ==
  ASSUME NEW b, NEW T \in Seq(Bytes), NEW arguments, NEW last, NEW i \in 1..Len(T)
  PROVE  Places(b, T, arguments, last)[i] =
           IF i = 1 THEN arguments
           ELSE After(b, T[i - 1], Places(b, T, arguments, last)[i - 1], last)
<1> DEFINE n == Len(T)
           At(f, j) == IF j = 1 THEN arguments ELSE After(b, T[j - 1], f[j - 1], last)
           Is(f, k) == f = [j \in 1..k |-> At(f, j)]
           Bad == {k \in Nat : ~\E f : Is(f, k)}
<1>1. n \in Nat
  BY LenProperties
<1>2. ASSUME NEW k \in Nat, \E f : Is(f, k)
      PROVE  \E g : Is(g, k + 1)
  <2>1. PICK f : Is(f, k)
    BY <1>2
  <2> DEFINE g == [j \in 1..(k + 1) |-> IF j <= k THEN f[j] ELSE At(f, j)]
  <2>2. \A j \in 1..(k + 1) : At(f, j) = At(g, j)
    <3> TAKE j \in 1..(k + 1)
    <3>1. CASE j = 1
      BY <3>1
    <3>2. CASE j # 1
      <4>1. j - 1 \in 1..(k + 1) /\ j - 1 <= k
        BY <3>2
      <4>2. g[j - 1] = f[j - 1]
        BY <4>1
      <4> QED  BY <4>2
    <3> QED  BY <3>1, <3>2
  <2>3. \A j \in 1..(k + 1) : g[j] = At(f, j)
    <3> TAKE j \in 1..(k + 1)
    <3>1. CASE j <= k
      <4>1. j \in 1..k
        BY <3>1
      <4>2. f[j] = At(f, j)
        BY <2>1, <4>1
      <4> QED  BY <3>1, <4>2
    <3>2. CASE ~(j <= k)
      BY <3>2
    <3> QED  BY <3>1, <3>2
  <2>4. g = [j \in 1..(k + 1) |-> g[j]]
    OBVIOUS
  <2> HIDE DEF g
  <2>5. g = [j \in 1..(k + 1) |-> At(g, j)]
    BY <2>2, <2>3, <2>4
  <2> QED  BY <2>5
<1>3. Bad = {}
  <2> SUFFICES ASSUME Bad # {}  PROVE FALSE
    OBVIOUS
  <2> DEFINE m == Least(Bad)
  <2>1. m \in Bad /\ \A k \in Bad : m <= k
    BY LeastIsLeast
  <2> HIDE DEF m
  <2>2. CASE m = 0
    <3>1. 1..0 = {}
      OBVIOUS
    <3>2. Is([j \in {} |-> 0], 0)
      BY <3>1
    <3> QED  BY <2>1, <2>2, <3>2
  <2>3. CASE m # 0
    <3>1. m - 1 \in Nat /\ ~(m <= m - 1) /\ m - 1 + 1 = m
      BY <2>1, <2>3
    <3>2. \E f : Is(f, m - 1)
      BY <2>1, <3>1
    <3>3. \E f : Is(f, m - 1 + 1)
      BY <1>2, <3>1, <3>2
    <3> QED  BY <2>1, <3>1, <3>3
  <2> QED  BY <2>2, <2>3
<1>4. \E f : Is(f, n)
  BY <1>1, <1>3
<1>5. Places(b, T, arguments, last) = CHOOSE f : Is(f, n)
  BY DEF Places
<1>6. Is(Places(b, T, arguments, last), n)
  BY <1>4, <1>5
<1> QED  BY <1>6

-----------------------------------------------------------------------------
(***************************************************************************)
(* A datagram and the buffer it is in                                      *)
(***************************************************************************)
\* b and c hold the same bytes below n.
SameBytes(b, c, n) == \A o \in Nat : o < n => Byte(b, o) = Byte(c, o)

(* Words, the ends of strings and strings are the same where the bytes are. *)
LEMMA SameWords ==
  ASSUME NEW b, NEW c, NEW n \in Nat, SameBytes(b, c, n), NEW o \in Nat, o + 4 <= n
  PROVE  Word(b, o) = Word(c, o) /\ SignedWord(b, o) = SignedWord(c, o)
<1>1. /\ Byte(b, o) = Byte(c, o) /\ Byte(b, o + 1) = Byte(c, o + 1)
      /\ Byte(b, o + 2) = Byte(c, o + 2) /\ Byte(b, o + 3) = Byte(c, o + 3)
  BY DEF SameBytes
<1> QED  BY <1>1, Zenon DEF Word, SignedWord

LEMMA SameFind ==
  ASSUME NEW b, NEW c, NEW n \in Nat, SameBytes(b, c, n),
         NEW p \in Nat, NEW last \in 0..n
  PROVE  FindStr4End(b, p, last) = FindStr4End(c, p, last)
<1>1. CASE p >= last
  BY <1>1 DEF FindStr4End
<1>2. CASE ~(p >= last)
  <2>1. Byte(b, p) = Byte(c, p)
    BY <1>2 DEF SameBytes
  <2>2. \A q \in p..(last - 1) : Byte(b, q) = Byte(c, q)
    BY DEF SameBytes
  <2>3. LastBytes(b, p, last) = LastBytes(c, p, last)
    BY <2>2 DEF LastBytes
  <2> QED  BY <2>1, <2>3 DEF FindStr4End
<1> QED  BY <1>1, <1>2

(* A string that is found to end has a NUL. *)
LEMMA FoundNul ==
  ASSUME NEW b, NEW p \in Nat, NEW last \in Nat, FindStr4End(b, p, last) # Null
  PROVE  \E q \in p..(last - 1) : Byte(b, q) = 0
<1>1. p < last
  BY DEF FindStr4End
<1>2. CASE Byte(b, p) = 0
  BY <1>1, <1>2
<1>3. CASE Byte(b, p) # 0
  <2>1. LastBytes(b, p, last) # {}
    BY <1>1, <1>3 DEF FindStr4End
  <2> QED  BY <2>1 DEF LastBytes
<1> QED  BY <1>2, <1>3

(* The characters of a C string, up to the first NUL. *)
LEMMA TextOf ==
  ASSUME NEW b \in Seq(Bytes), NEW p \in 0..Len(b)
  PROVE  LET T == CString(b, p)
         IN  /\ T \in Seq(Bytes) /\ Len(T) \in Nat /\ p + Len(T) <= Len(b)
             /\ \A i \in 1..Len(T) : T[i] = Byte(b, p + i - 1) /\ T[i] # 0
             /\ Byte(b, p + Len(T)) = 0
<1> DEFINE Nuls == {q \in p..Len(b) : Byte(b, q) = 0}
           m == Least(Nuls)
<1>1. Len(b) \in Nat /\ p \in Nat
  BY LenProperties
<1>2. Byte(b, Len(b)) = 0 /\ Len(b) \in p..Len(b)
  BY <1>1 DEF Byte
<1>3. Nuls \in SUBSET Nat /\ Nuls # {}
  BY <1>1, <1>2
<1>4. m \in Nuls /\ \A y \in Nuls : m <= y
  BY <1>3, LeastIsLeast
<1> HIDE DEF m
<1>5. m \in p..Len(b) /\ Byte(b, m) = 0 /\ \A q \in p..(m - 1) : Byte(b, q) # 0
  <2>1. m \in p..Len(b) /\ Byte(b, m) = 0
    BY <1>4
  <2>2. ASSUME NEW q \in p..(m - 1)  PROVE Byte(b, q) # 0
    <3>1. q \in p..Len(b) /\ ~(m <= q)
      BY <1>1, <2>1
    <3> QED  BY <1>4, <3>1
  <2> QED  BY <2>1, <2>2
<1>6. \A i \in (p + 1)..m : b[i] \in Bytes /\ b[i] = Byte(b, i - 1) /\ i - 1 \in p..(m - 1)
  <2> TAKE i \in (p + 1)..m
  <2>1. i \in 1..Len(b) /\ i - 1 < Len(b) /\ i - 1 + 1 = i /\ i - 1 \in p..(m - 1)
    BY <1>1, <1>5
  <2> QED  BY <2>1, ElementOfSeq DEF Byte
<1>7. CString(b, p) = SubSeq(b, p + 1, m)
  BY DEF CString, m
<1>8. /\ SubSeq(b, p + 1, m) \in Seq(Bytes)
      /\ Len(SubSeq(b, p + 1, m)) = IF p + 1 <= m THEN m - (p + 1) + 1 ELSE 0
      /\ \A i \in 1..(m - (p + 1) + 1) : SubSeq(b, p + 1, m)[i] = b[p + 1 + i - 1]
  <2>1. p + 1 \in Int /\ m \in Int
    BY <1>1, <1>5
  <2>2. \A i \in (p + 1)..m : b[i] \in Bytes
    BY <1>6
  <2> QED  BY <2>1, <2>2, SubSeqProperties
<1>9. Len(CString(b, p)) = m - p
  BY <1>1, <1>5, <1>7, <1>8
<1>10. ASSUME NEW i \in 1..(m - p)
       PROVE  CString(b, p)[i] = Byte(b, p + i - 1) /\ CString(b, p)[i] # 0
  <2>1. i \in 1..(m - (p + 1) + 1) /\ p + 1 + i - 1 \in (p + 1)..m
        /\ p + 1 + i - 1 - 1 = p + i - 1
    BY <1>1, <1>5
  <2>2. CString(b, p)[i] = b[p + 1 + i - 1]
    BY <1>7, <1>8, <2>1
  <2> QED  BY <1>5, <1>6, <2>1, <2>2
<1>11. p + (m - p) = m /\ m - p \in Nat
  BY <1>1, <1>5
<1>12. CString(b, p) \in Seq(Bytes)
  BY <1>7, <1>8
<1> QED  BY <1>5, <1>9, <1>10, <1>11, <1>12

(* The first NUL is where the string ends. *)
LEMMA TextEnds ==
  ASSUME NEW b \in Seq(Bytes), NEW p \in 0..Len(b), NEW k \in Nat, p + k <= Len(b),
         \A i \in 1..k : Byte(b, p + i - 1) # 0
  PROVE  /\ k <= Len(CString(b, p))
         /\ Byte(b, p + k) = 0 => Len(CString(b, p)) = k
         /\ Byte(b, p + k) # 0 => k < Len(CString(b, p))
<1> DEFINE n == Len(CString(b, p))
<1>1. /\ n \in Nat /\ Byte(b, p + n) = 0
      /\ \A i \in 1..n : Byte(b, p + i - 1) # 0
  BY TextOf
<1> HIDE DEF n
<1>2. p \in Nat
  BY LenProperties
<1>3. k <= n
  <2> SUFFICES ASSUME ~(k <= n)  PROVE FALSE
    OBVIOUS
  <2>1. n + 1 \in 1..k /\ p + (n + 1) - 1 = p + n
    BY <1>1, <1>2
  <2>2. Byte(b, p + (n + 1) - 1) # 0
    BY <2>1
  <2> QED  BY <1>1, <2>1, <2>2
<1>4. ASSUME Byte(b, p + k) = 0  PROVE n = k
  <2> SUFFICES ASSUME n # k  PROVE FALSE
    OBVIOUS
  <2>1. k + 1 \in 1..n /\ p + (k + 1) - 1 = p + k
    BY <1>1, <1>2, <1>3
  <2>2. Byte(b, p + (k + 1) - 1) # 0
    BY <1>1, <2>1
  <2> QED  BY <1>4, <2>1, <2>2
<1>5. ASSUME Byte(b, p + k) # 0  PROVE k < n
  <2>1. n # k
    BY <1>1, <1>5
  <2> QED  BY <1>1, <1>3, <2>1
<1> QED  BY <1>3, <1>4, <1>5 DEF n

LEMMA SameText ==
  ASSUME NEW b \in Seq(Bytes), NEW c \in Seq(Bytes), NEW n \in 0..Len(b), n <= Len(c),
         SameBytes(b, c, n), NEW p \in Nat, NEW q \in p..(n - 1), Byte(b, q) = 0
  PROVE  CString(b, p) = CString(c, p) /\ p + Len(CString(b, p)) <= q
<1> DEFINE T == CString(b, p)
           U == CString(c, p)
<1>1. Len(b) \in Nat /\ Len(c) \in Nat /\ p \in 0..Len(b) /\ p \in 0..Len(c)
  BY LenProperties
<1>2. /\ T \in Seq(Bytes) /\ Len(T) \in Nat /\ p + Len(T) <= Len(b)
      /\ \A i \in 1..Len(T) : T[i] = Byte(b, p + i - 1) /\ T[i] # 0
      /\ Byte(b, p + Len(T)) = 0
  BY <1>1, TextOf
<1>3. U \in Seq(Bytes) /\ \A i \in 1..Len(U) : U[i] = Byte(c, p + i - 1)
  BY <1>1, TextOf
<1>4. p + Len(T) <= q
  <2> SUFFICES ASSUME ~(p + Len(T) <= q)  PROVE FALSE
    OBVIOUS
  <2>1. q - p + 1 \in 1..Len(T) /\ p + (q - p + 1) - 1 = q
    BY <1>1, <1>2
  <2>2. Byte(b, p + (q - p + 1) - 1) # 0
    BY <1>2, <2>1
  <2> QED  BY <2>1, <2>2
<1>5. \A o \in Nat : o <= p + Len(T) => o < n /\ Byte(b, o) = Byte(c, o)
  BY <1>1, <1>2, <1>4 DEF SameBytes
<1>6. Len(U) = Len(T)
  <2>1. \A i \in 1..Len(T) : Byte(c, p + i - 1) # 0
    <3> TAKE i \in 1..Len(T)
    <3>1. p + i - 1 \in Nat /\ p + i - 1 <= p + Len(T)
      BY <1>1, <1>2
    <3> QED  BY <1>2, <1>5, <3>1
  <2>2. Byte(c, p + Len(T)) = 0
    <3>1. p + Len(T) \in Nat /\ p + Len(T) <= p + Len(T)
      BY <1>1, <1>2
    <3> QED  BY <1>2, <1>5, <3>1
  <2>3. p + Len(T) <= Len(c)
    BY <1>1, <1>2, <1>4
  <2> HIDE DEF T
  <2> QED  BY <1>1, <1>2, <2>1, <2>2, <2>3, TextEnds
<1>7. ASSUME NEW i \in 1..Len(T)  PROVE T[i] = U[i]
  <2>1. p + i - 1 \in Nat /\ p + i - 1 <= p + Len(T)
    BY <1>1, <1>2
  <2> QED  BY <1>2, <1>3, <1>5, <1>6, <2>1
<1> HIDE DEF T, U
<1>8. T = U
  BY <1>2, <1>3, <1>6, <1>7, SeqEqual
<1> QED  BY <1>4, <1>8 DEF T, U

-----------------------------------------------------------------------------
(***************************************************************************)
(* The invariant that relates the parser to what the datagram means.       *)
(* Arrived: the buffer begins with the datagram, as far as it was          *)
(* received.  Expected: what has been delivered, followed by what the      *)
(* element in hand says and by what is left of the bundles around it, is   *)
(* the meaning.  InBundle and InMessage: how far the element in hand has   *)
(* been checked and converted.                                             *)
(***************************************************************************)
Arrived ==
  /\ Received \in Seq(Bytes) /\ Len(Received) = size /\ size \in Nat
  /\ SameBytes(Received, buffer, size)

Sofar == [messages |-> delivered, ends |-> "done"]

\* What is left of the first n bundles of "open" behind their present elements.
Behind(open, n, rest) ==
  \E left \in [0..n -> Said(Received)] :
    /\ left[0] = Nothing
    /\ \A k \in 1..n :
         left[k] = FollowedBy(From(Received, SlotAfter(Received, open[k].at), open[k].end),
                              left[k - 1])
    /\ rest = left[n]

InHand == ElementAt(Received, from, end, Contents(Received))

Opening == {"bundle", "slots", "message", "tags", "level", "convert", "crashed"}

Expected ==
  /\ delivered \in Seq(Messages(Received))
  /\ pc = "packet" => delivered = <<>>
  /\ pc = "idle" =>
       /\ Meaning(Received).messages = delivered
       /\ received > 0 => Meaning(Received).ends = outcome
  /\ pc \in Opening => \E rest \in Said(Received) :
       /\ Behind(stack, Len(stack), rest)
       /\ Meaning(Received) = FollowedBy(Sofar, FollowedBy(InHand, rest))
  /\ pc = "elements" => \E rest \in Said(Received) :
       /\ Behind(stack, Len(stack) - 1, rest)
       /\ Meaning(Received) =
            FollowedBy(Sofar, FollowedBy(From(Received, Top.at, Top.end), rest))

(* The first bundles of two stacks have the same left behind them. *)
LEMMA BehindSame ==
  ASSUME NEW open, NEW other, NEW n \in Nat, \A k \in 1..n : open[k] = other[k],
         NEW rest, Behind(open, n, rest)
  PROVE  Behind(other, n, rest)
  BY DEF Behind

(* What is left behind some bundles has what is left of the last of them first. *)
LEMMA BehindLast ==
  ASSUME NEW open, NEW n \in Nat \ {0}, NEW rest, Behind(open, n, rest)
  PROVE  \E before \in Said(Received) :
           /\ Behind(open, n - 1, before)
           /\ rest = FollowedBy(From(Received, SlotAfter(Received, open[n].at), open[n].end),
                                before)
<1>1. PICK left \in [0..n -> Said(Received)] :
        /\ left[0] = Nothing
        /\ \A k \in 1..n :
             left[k] = FollowedBy(From(Received, SlotAfter(Received, open[k].at), open[k].end),
                                  left[k - 1])
        /\ rest = left[n]
  BY DEF Behind
<1> DEFINE less == [k \in 0..(n - 1) |-> left[k]]
<1>2. /\ less \in [0..(n - 1) -> Said(Received)] /\ less[0] = Nothing
      /\ \A k \in 0..(n - 1) : less[k] = left[k]
  BY <1>1
<1>3. \A k \in 1..(n - 1) : k \in 1..n /\ k \in 0..(n - 1) /\ k - 1 \in 0..(n - 1)
  OBVIOUS
<1>4. n \in 1..n /\ n - 1 \in 0..(n - 1) /\ n - 1 \in 0..n
  OBVIOUS
<1> HIDE DEF less
<1>5. Behind(open, n - 1, left[n - 1])
  BY <1>1, <1>2, <1>3, <1>4 DEF Behind
<1>6. left[n - 1] \in Said(Received)
  BY <1>1, <1>4
<1> QED  BY <1>1, <1>4, <1>5, <1>6

(* One more bundle, of which something is left behind the present element. *)
LEMMA BehindMore ==
  ASSUME NEW open, NEW n \in Nat \ {0}, NEW before, Behind(open, n - 1, before),
         NEW rest \in Said(Received),
         rest = FollowedBy(From(Received, SlotAfter(Received, open[n].at), open[n].end), before)
  PROVE  Behind(open, n, rest)
<1>1. PICK left \in [0..(n - 1) -> Said(Received)] :
        /\ left[0] = Nothing
        /\ \A k \in 1..(n - 1) :
             left[k] = FollowedBy(From(Received, SlotAfter(Received, open[k].at), open[k].end),
                                  left[k - 1])
        /\ before = left[n - 1]
  BY DEF Behind
<1> DEFINE more == [k \in 0..n |-> IF k = n THEN rest ELSE left[k]]
<1>2. /\ more \in [0..n -> Said(Received)]
      /\ more[n] = rest /\ \A k \in 0..(n - 1) : more[k] = left[k]
  BY <1>1
<1>3. \A k \in 1..n : k - 1 \in 0..(n - 1) /\ (k # n => k \in 0..(n - 1) /\ k \in 1..(n - 1))
  OBVIOUS
<1>4. 0 \in 0..(n - 1) /\ n - 1 \in 0..(n - 1)
  OBVIOUS
<1> HIDE DEF more
<1>5. \A k \in 1..n :
        more[k] = FollowedBy(From(Received, SlotAfter(Received, open[k].at), open[k].end),
                             more[k - 1])
  BY <1>1, <1>2, <1>3
<1> QED  BY <1>1, <1>2, <1>4, <1>5 DEF Behind

(* What has been delivered is a result. *)
LEMMA SofarType ==
  ASSUME Expected  PROVE Sofar \in Said(Received)
  BY DEF Expected, Sofar, Said, Result, Ends

(* Where an offset lies in the datagram, the word there is that of the buffer. *)
LEMMA SlotIsSlot ==
  ASSUME Arrived, NEW o \in Nat, o + 4 <= size
  PROVE  SlotAfter(Received, o) = o + 4 + W(o) /\ Word(Received, o) = W(o)
<1>1. Word(Received, o) = Word(buffer, o)
  BY SameWords DEF Arrived
<1> QED  BY <1>1 DEF SlotAfter, W

(* While the input stays, the datagram and the buffer stay. *)
LEMMA ArrivedKept ==
  ASSUME Arrived, UNCHANGED input
  PROVE  Arrived' /\ Received' = Received
  BY DEF Arrived, Received, input, SameBytes

(* An exception is what the datagram means, when the element in hand has a fault. *)
LEMMA ThrowMeans ==
  ASSUME Arrived, Expected, Throw,
         \/ pc = "packet" /\ Meaning(Received) = Refused
         \/ pc \in Opening /\ InHand = Refused
  PROVE  Expected'
<1>0. Refused.messages = <<>> /\ Refused.ends = "malformed"
  BY DEF Refused, Silent
<1>1. /\ pc' = "idle" /\ outcome' = "malformed" /\ delivered' = delivered /\ received' = received
      /\ Received' = Received
  BY ArrivedKept DEF Throw, input
<1>2. delivered \in Seq(Messages(Received))
  BY DEF Expected
<1>3. Meaning(Received).messages = delivered /\ Meaning(Received).ends = "malformed"
  <2>1. CASE pc = "packet" /\ Meaning(Received) = Refused
    BY <1>0, <2>1 DEF Expected
  <2>2. CASE pc \in Opening /\ InHand = Refused
    <3>1. PICK rest : Meaning(Received) = FollowedBy(Sofar, FollowedBy(InHand, rest))
      BY <2>2 DEF Expected
    <3>2. FollowedBy(InHand, rest).messages = <<>> /\ FollowedBy(InHand, rest).ends = "malformed"
      BY <1>0, <2>2, FollowedByFields
    <3>3. delivered \o <<>> = delivered
      BY <1>2, ConcatEmptySeq
    <3>4. Sofar.ends = "done" /\ Sofar.messages = delivered
      BY DEF Sofar
    <3>5. /\ Meaning(Received).messages = delivered \o FollowedBy(InHand, rest).messages
          /\ Meaning(Received).ends = FollowedBy(InHand, rest).ends
      <4> DEFINE said == FollowedBy(InHand, rest)
                 x == Sofar
      <4>1. x.messages = delivered /\ x.ends = "done"
        BY <3>4
      <4>2. Meaning(Received) = FollowedBy(x, said)
        BY <3>1
      <4> HIDE DEF said, x
      <4>3. FollowedBy(x, said).messages = x.messages \o said.messages
            /\ FollowedBy(x, said).ends = said.ends
        BY <4>1, FollowedByFields
      <4>4. Meaning(Received).messages = delivered \o said.messages
            /\ Meaning(Received).ends = said.ends
        BY <4>1, <4>2, <4>3
      <4> QED  BY <4>4 DEF said
    <3> QED  BY <3>2, <3>3, <3>5
  <2> QED  BY <2>1, <2>2
<1> QED  BY <1>1, <1>2, <1>3 DEF Expected, Opening

(* The step to what is behind an element. *)
LEMMA ContinueMeans ==
  ASSUME IInv, Arrived, NEW open \in Seq(Frame), FramesOK(open), Inside(open), Continue(open),
         UNCHANGED input,
         delivered' \in Seq(Messages(Received)),
         NEW rest \in Said(Received), Behind(open, Len(open), rest),
         Meaning(Received) = FollowedBy([messages |-> delivered', ends |-> "done"], rest)
  PROVE  Expected'
<1>1. received' = received /\ Received' = Received
  BY ArrivedKept DEF input
<1> DEFINE now == [messages |-> delivered', ends |-> "done"]
<1>2. now \in Said(Received)
  BY DEF Said, Result, Ends
<1>3. CASE open = <<>>
  <2>1. Len(open) = 0
    BY <1>3, EmptySeq
  <2>2. rest = Nothing
    BY <2>1 DEF Behind
  <2>3. Meaning(Received) = now
    BY <1>2, <2>2, FollowedByNothing DEF Said
  <2>4. Meaning(Received).messages = delivered' /\ Meaning(Received).ends = "done"
    BY <2>3
  <2>5. pc' = "idle" /\ outcome' = "done"
    BY <1>3 DEF Continue
  <2> QED  BY <1>1, <2>4, <2>5 DEF Expected, Opening
<1>4. CASE open # <<>>
  <2> DEFINE n == Len(open)
             next == NextSlot(open[n].at)
             st == [open EXCEPT ![n].at = next]
  <2>1. n \in Nat \ {0} /\ n \in 1..Len(open) /\ open[n] \in Frame
    BY <1>4, LenProperties, EmptySeq, ElementOfSeq
  <2>2. open[n].at \in Nat /\ open[n].at \in open[n].slots /\ FrameOK(open[n])
    BY <1>4, <2>1 DEF FramesOK, Inside, Frame
  <2>3. /\ next \in Nat /\ open[n].at + 4 + SignedWord(buffer, open[n].at) = next
        /\ open[n].at + 4 <= size /\ next = open[n].at + 4 + W(open[n].at)
    <3>1. next \in Nat
      BY <2>2, NextSlotType DEF IInv
    <3>2. open[n].end \in Nat /\ size \in Nat
      BY <2>1 DEF Arrived, Frame
    <3>3. /\ open[n].at % 4 = 0 /\ open[n].at < next /\ next % 4 = 0
          /\ next <= open[n].end /\ open[n].end <= size
      BY <2>2 DEF FrameOK, SlotsLead
    <3>4. next <= size
      BY <3>1, <3>2, <3>3
    <3>5. /\ open[n].at + 4 + SignedWord(buffer, open[n].at) = next
          /\ open[n].at + 4 <= next /\ next = open[n].at + 4 + W(open[n].at)
      BY <2>2, <3>3, <3>4, NextIsNext DEF IInv
    <3> HIDE DEF next
    <3> QED  BY <2>2, <3>1, <3>2, <3>4, <3>5
  <2> HIDE DEF next
  <2>4. stack' = st /\ pc' = "elements"
    BY <1>4, <2>1, <2>3 DEF Continue, Frame
  <2>5. PICK before \in Said(Received) :
          /\ Behind(open, n - 1, before)
          /\ rest = FollowedBy(From(Received, SlotAfter(Received, open[n].at), open[n].end),
                               before)
    BY <2>1, BehindLast
  <2>6. SlotAfter(Received, open[n].at) = next
    BY <2>2, <2>3, SlotIsSlot
  <2>7. /\ Len(st) = n /\ st[n].at = next /\ st[n].end = open[n].end
        /\ \A k \in 1..(n - 1) : st[k] = open[k]
    <3> DEFINE f == [open[n] EXCEPT !.at = next]
    <3>1. f \in Frame /\ f.at = next /\ f.end = open[n].end
      BY <2>1, <2>3 DEF Frame
    <3>2. st = [open EXCEPT ![n] = f]
      OBVIOUS
    <3> HIDE DEF f
    <3>3. /\ Len([open EXCEPT ![n] = f]) = n
          /\ \A k \in 1..n : [open EXCEPT ![n] = f][k] = IF k = n THEN f ELSE open[k]
      BY <2>1, <3>1, ExceptSeq
    <3>4. \A k \in 1..(n - 1) : k \in 1..n /\ k # n
      BY <2>1
    <3> QED  BY <2>1, <3>1, <3>2, <3>3, <3>4
  <2> HIDE DEF n, st
  <2>8. Behind(st, n - 1, before)
    <3>1. n - 1 \in Nat
      BY <2>1
    <3> QED  BY <2>5, <2>7, <3>1, BehindSame
  <2>10. /\ Top' = st[n] /\ Len(stack)' = n /\ stack' = st
    BY <2>4, <2>7 DEF Top
  <2>11. /\ Behind(stack, Len(stack) - 1, before)'
         /\ (before \in Said(Received))'
    BY <1>1, <2>5, <2>8, <2>10 DEF Behind
  <2>12. (Meaning(Received) =
            FollowedBy(Sofar, FollowedBy(From(Received, Top.at, Top.end), before)))'
    BY <1>1, <2>5, <2>6, <2>7, <2>10 DEF Sofar
  <2>13. (pc = "elements")'
    BY <2>4
  <2> QED  BY <1>1, <2>11, <2>12, <2>13 DEF Expected, Opening
<1> QED  BY <1>3, <1>4

-----------------------------------------------------------------------------
(***************************************************************************)
(* Packets and bundles                                                     *)
(***************************************************************************)
\* The element in hand is a bundle, and what is left to check decides how its slots end.
InBundle ==
  pc \in {"bundle", "slots"} =>
    /\ end > from /\ Byte(Received, from) = Hash
    /\ pc = "slots" => /\ HasBundleHead(Received, from, end)
                       /\ SlotsFrom(Received, from + 16, end) = SlotsFrom(Received, cursor, end)

InMessage ==
  pc \in {"message", "tags", "level", "convert"} => ~(end > from /\ Byte(Received, from) = Hash)

(* A datagram in the buffer. *)
LEMMA ReceiveTells == ASSUME IInv, Receive PROVE Arrived' /\ Expected'
<1>1. PICK d \in Datagrams :
        /\ received' = received + 1 /\ datagram' = d
        /\ buffer' = Overlay(buffer, d)
        /\ size' = IF Len(d) < BufferSize THEN Len(d) ELSE BufferSize
        /\ delivered' = <<>> /\ pc' = "packet"
  BY DEF Receive
<1>2. d \in Seq(Bytes) /\ Len(d) \in Nat
  BY <1>1, DatagramsAssumption, LenProperties
<1>3. BufferSize \in Nat
  BY BufferAssumption
<1> DEFINE n == size'
           r == SubSeq(d, 1, n)
<1>4. n \in Nat /\ n <= Len(d) /\ n <= BufferSize
  BY <1>1, <1>2, <1>3
<1> HIDE DEF n
<1>5. r \in Seq(Bytes) /\ Len(r) = n /\ \A i \in 1..n : r[i] = d[i]
  <2>1. \A i \in 1..n : d[i] \in Bytes
    BY <1>2, <1>4, ElementOfSeq
  <2>2. 1 \in Int /\ n \in Int
    BY <1>4
  <2>3. /\ SubSeq(d, 1, n) \in Seq(Bytes)
        /\ Len(SubSeq(d, 1, n)) = IF 1 <= n THEN n - 1 + 1 ELSE 0
        /\ \A i \in 1..(n - 1 + 1) : SubSeq(d, 1, n)[i] = d[1 + i - 1]
    BY <2>1, <2>2, SubSeqProperties
  <2> QED
    BY <1>4, <2>3
<1>6. Received' = r
  BY <1>1 DEF Received, n
<1> HIDE DEF r
<1>7. /\ DOMAIN buffer' = 1..BufferSize /\ Len(buffer') = BufferSize
      /\ \A i \in 1..n : buffer'[i] = d[i]
  BY <1>1, <1>2, <1>3, <1>4 DEF Overlay
<1>8. SameBytes(r, buffer', n)
  <2> SUFFICES ASSUME NEW o \in Nat, o < n  PROVE Byte(r, o) = Byte(buffer', o)
    BY DEF SameBytes
  <2>1. o + 1 \in 1..n /\ o < BufferSize
    BY <1>3, <1>4
  <2> QED
    BY <1>5, <1>7, <2>1 DEF Byte
<1>9. Arrived'
  BY <1>4, <1>5, <1>6, <1>8 DEF Arrived, n, SameBytes
<1>10. Expected'
  <2>1. <<>> \in Seq(Messages(Received)')
    BY EmptySeq
  <2> QED
    BY <1>1, <2>1 DEF Expected, Opening
<1> QED
  BY <1>9, <1>10

(* While an element is in hand, nothing that Expected speaks of changes. *)
LEMMA ExpectedKept ==
  ASSUME Arrived, Expected, pc \in Opening, pc' \in Opening,
         UNCHANGED <<input, stack, element, delivered>>
  PROVE  Expected'
<1>1. Received' = Received /\ stack' = stack /\ InHand' = InHand /\ Sofar' = Sofar
  BY ArrivedKept DEF InHand, Sofar, input, element
<1>2. PICK rest \in Said(Received) :
        /\ Behind(stack, Len(stack), rest)
        /\ Meaning(Received) = FollowedBy(Sofar, FollowedBy(InHand, rest))
  BY DEF Expected
<1>3. (/\ rest \in Said(Received)
       /\ Behind(stack, Len(stack), rest)
       /\ Meaning(Received) = FollowedBy(Sofar, FollowedBy(InHand, rest)))'
  BY <1>1, <1>2 DEF Behind
<1>4. delivered' \in Seq(Messages(Received)') /\ delivered' = delivered
  BY <1>1 DEF Expected
<1>5. pc' # "packet" /\ pc' # "idle" /\ pc' # "elements"
  BY DEF Opening
<1> QED
  BY <1>3, <1>4, <1>5 DEF Expected

(* An element that is opened. *)
LEMMA OpenTells ==
  ASSUME Arrived, Expected, NEW first \in Nat, NEW last \in Nat, last <= size, Open(first, last),
         UNCHANGED <<input, stack, delivered>>,
         NEW rest \in Said(Received), Behind(stack, Len(stack), rest),
         Meaning(Received) = FollowedBy(Sofar,
           FollowedBy(ElementAt(Received, first, last, Contents(Received)), rest))
  PROVE  Expected' /\ InBundle' /\ InMessage'
<1>1. Received' = Received /\ from' = first /\ end' = last
  BY ArrivedKept DEF Open
<1>2. pc' = IF last > first /\ Byte(Received, first) = Hash THEN "bundle" ELSE "message"
  <2>1. last > first => Byte(Received, first) = B(first)
    BY DEF Arrived, SameBytes, B
  <2> QED  BY <2>1 DEF Open
<1>3. InBundle' /\ InMessage'
  BY <1>1, <1>2 DEF InBundle, InMessage
<1>4. (/\ rest \in Said(Received)
       /\ Behind(stack, Len(stack), rest)
       /\ Meaning(Received) = FollowedBy(Sofar, FollowedBy(InHand, rest)))'
  BY <1>1 DEF Behind, Sofar, InHand
<1>5. delivered' \in Seq(Messages(Received)')
  BY <1>1 DEF Expected
<1>6. pc' # "packet" /\ pc' # "idle" /\ pc' # "elements"
  BY <1>2
<1> QED
  BY <1>3, <1>4, <1>5, <1>6 DEF Expected

(* The whole datagram is the first element, with nothing behind it. *)
LEMMA ProcessPacketTells ==
  ASSUME IInv, Arrived, Expected, ProcessPacket
  PROVE  Arrived' /\ Expected' /\ InBundle' /\ InMessage'
<1>1. pc = "packet" /\ delivered = <<>> /\ stack = <<>>
  BY DEF ProcessPacket, Expected, IInv, Frames
<1>2. size \in Nat /\ Len(Received) = size
  BY DEF Arrived
<1>3. ASSUME ~ValidateSize, Throw
      PROVE  Arrived' /\ Expected' /\ InBundle' /\ InMessage'
  <2>1. Meaning(Received) = Refused
    BY <1>2, <1>3 DEF Meaning, ValidateSize
  <2>2. Expected'
    BY <1>1, <1>3, <2>1, ThrowMeans
  <2>3. Arrived' /\ pc' = "idle"
    BY <1>3, ArrivedKept DEF Throw
  <2> QED  BY <2>2, <2>3 DEF InBundle, InMessage
<1>4. ASSUME ValidateSize, Open(0, size), UNCHANGED <<input, stack, cursor, slots, message, result>>
      PROVE  Arrived' /\ Expected' /\ InBundle' /\ InMessage'
  <2> DEFINE said == ElementAt(Received, 0, size, Contents(Received))
  <2>1. Meaning(Received) = said
    BY <1>2, <1>4 DEF Meaning, ValidateSize
  <2>2. said \in Said(Received)
    BY <1>2, ElementSays DEF Arrived
  <2> HIDE DEF said
  <2>4. Nothing \in Said(Received) /\ Sofar = Nothing
    BY <1>1, NothingType DEF Said, Nothing, Silent, Sofar
  <2>5. Behind(stack, Len(stack), Nothing)
    <3>1. Len(stack) = 0
      BY <1>1, EmptySeq
    <3> DEFINE left == [k \in 0..0 |-> Nothing]
    <3>2. left \in [0..0 -> Said(Received)] /\ left[0] = Nothing /\ 1..0 = {}
      BY <2>4
    <3> HIDE DEF left
    <3>3. Behind(stack, 0, Nothing)
      BY <3>2 DEF Behind
    <3> QED  BY <3>1, <3>3
  <2>6. FollowedBy(said, Nothing) = said /\ FollowedBy(Nothing, said) = said
    BY <2>2, FollowedByNothing DEF Said
  <2>7. Meaning(Received) = FollowedBy(Sofar, FollowedBy(said, Nothing))
    BY <2>1, <2>4, <2>6
  <2>8. Arrived' /\ delivered' = delivered
    BY <1>4, ArrivedKept DEF result
  <2>9. size <= size /\ 0 \in Nat
    BY <1>2
  <2> QED  BY <1>2, <1>4, <2>4, <2>5, <2>7, <2>8, <2>9, OpenTells DEF said
<1> QED  BY <1>3, <1>4 DEF ProcessPacket

(* The head of a bundle. *)
LEMMA BundleHeadTells ==
  ASSUME IInv, Arrived, Expected, InBundle, BundleHead
  PROVE  Arrived' /\ Expected' /\ InBundle' /\ InMessage'
<1> DEFINE Good == /\ end - from >= 16
                   /\ (end - from) % 4 = 0
                   /\ \A i \in 1..8 : B(from + i - 1) = BundleHeader[i]
<1>1. pc = "bundle" /\ from \in Nat /\ end \in Nat /\ end <= size /\ size \in Nat
  BY DEF BundleHead, IInv, TypeOK, Opened, Arrived
<1>2. end > from /\ Byte(Received, from) = Hash
  BY <1>1 DEF InBundle
<1>3. Good <=> HasBundleHead(Received, from, end)
  <2>1. ASSUME end - from >= 16, NEW i \in 1..8
        PROVE  B(from + i - 1) = Byte(Received, from + i - 1)
    <3>1. from + i - 1 \in Nat /\ from + i - 1 < size
      BY <1>1, <2>1
    <3> QED  BY <3>1 DEF Arrived, SameBytes, B
  <2> QED  BY <2>1 DEF HasBundleHead
<1>4. ASSUME ~Good, Throw
      PROVE  Arrived' /\ Expected' /\ InBundle' /\ InMessage'
  <2>1. InHand = Refused
    BY <1>2, <1>3, <1>4 DEF InHand, ElementAt
  <2>2. Expected'
    BY <1>1, <1>4, <2>1, ThrowMeans DEF Opening
  <2>3. Arrived' /\ pc' = "idle"
    BY <1>4, ArrivedKept DEF Throw
  <2> QED  BY <2>2, <2>3 DEF InBundle, InMessage
<1>5. ASSUME Good, pc' = "slots", cursor' = from + 16,
             UNCHANGED <<input, stack, element, message, result>>
      PROVE  Arrived' /\ Expected' /\ InBundle' /\ InMessage'
  <2>1. Arrived' /\ Received' = Received /\ from' = from /\ end' = end
    BY <1>5, ArrivedKept DEF element
  <2>2. Expected'
    BY <1>1, <1>5, ExpectedKept DEF Opening, result
  <2>3. InBundle' /\ InMessage'
    BY <1>2, <1>3, <1>5, <2>1 DEF InBundle, InMessage
  <2> QED  BY <2>1, <2>2, <2>3
<1> HIDE DEF Good
<1> QED  BY <1>4, <1>5 DEF BundleHead, Good

(* One slot of a bundle. *)
LEMMA SlotTells ==
  ASSUME IInv, Arrived, Expected, InBundle, Slot
  PROVE  Arrived' /\ Expected' /\ InBundle' /\ InMessage'
<1> DEFINE Good == cursor + 4 <= end /\ W(cursor) % 4 = 0 /\ NextSlot(cursor) <= end
           Endless == SlotIsEndless(Received, cursor, end)
           Fits == SlotFits(Received, cursor, end)
<1>1. /\ pc = "slots" /\ cursor < end /\ from \in Nat /\ end \in Nat /\ cursor \in Nat
      /\ end <= size /\ size \in Nat /\ Received \in Seq(Bytes) /\ Len(Received) = size
  BY DEF Slot, IInv, TypeOK, Opened, Arrived
<1>2. /\ end > from /\ Byte(Received, from) = Hash /\ HasBundleHead(Received, from, end)
      /\ SlotsFrom(Received, from + 16, end) = SlotsFrom(Received, cursor, end)
  BY <1>1 DEF InBundle
<1>3. /\ ~Good => ~Endless /\ ~Fits
      /\ Good /\ Endless => NextSlot(cursor) = cursor
      /\ Good /\ ~Endless => Fits /\ SlotAfter(Received, cursor) = NextSlot(cursor)
  <2>1. ASSUME cursor + 4 <= end
        PROVE  /\ SlotAfter(Received, cursor) = cursor + 4 + W(cursor)
               /\ Word(Received, cursor) = W(cursor)
    <3>1. cursor + 4 <= size
      BY <1>1, <2>1
    <3> QED  BY <1>1, <3>1, SlotIsSlot
  <2>2. /\ W(cursor) \in Nat /\ NextSlot(cursor) \in Nat
        /\ W(cursor) % 4 = 0 => IF W(cursor) = Wrap - 4 THEN NextSlot(cursor) = cursor
                                ELSE NextSlot(cursor) = cursor + 4 + W(cursor)
    BY <1>1, NextSlotType DEF IInv
  <2>3. Endless <=> cursor + 4 <= end /\ W(cursor) = Wrap - 4
    BY <2>1 DEF SlotIsEndless
  <2>4. Fits <=> cursor + 4 <= end /\ W(cursor) % 4 = 0 /\ cursor + 4 + W(cursor) <= end
    BY <2>1 DEF SlotFits
  <2>5. (Wrap - 4) % 4 = 0
    BY Numbers
  <2>6. Endless => W(cursor) % 4 = 0
    BY <2>3, <2>5
  <2> HIDE DEF Endless, Fits
  <2>7. Good /\ ~Endless => SlotAfter(Received, cursor) = NextSlot(cursor)
    BY <2>1, <2>2, <2>3
  <2> QED  BY <1>1, <2>2, <2>3, <2>4, <2>6, <2>7
<1> HIDE DEF Endless, Fits
<1>4. cursor \in 0..Len(Received) /\ end \in 0..Len(Received)
  BY <1>1
<1>5. ASSUME ~Good, Throw
      PROVE  Arrived' /\ Expected' /\ InBundle' /\ InMessage'
  <2>1. SlotsFrom(Received, cursor, end) = "malformed"
    BY <1>1, <1>3, <1>4, <1>5, FromSlot DEF Endless, Fits
  <2>2. Contents(Received)[<<from + 16, end>>].slots = "malformed"
    BY <1>2, <2>1 DEF SlotsFrom
  <2>3. InHand = Refused
    BY <1>2, <2>2 DEF InHand, ElementAt, Refused
  <2>4. Expected'
    BY <1>1, <1>5, <2>3, ThrowMeans DEF Opening
  <2>5. Arrived' /\ pc' = "idle"
    BY <1>5, ArrivedKept DEF Throw
  <2> QED  BY <2>4, <2>5 DEF InBundle, InMessage
<1>6. ASSUME Good, cursor' = NextSlot(cursor),
             UNCHANGED <<input, pc, stack, element, message, result>>
      PROVE  Arrived' /\ Expected' /\ InBundle' /\ InMessage'
  <2>1. Arrived' /\ Received' = Received /\ from' = from /\ end' = end /\ pc' = pc
    BY <1>6, ArrivedKept DEF element
  <2>2. Expected'
    BY <1>1, <1>6, ExpectedKept DEF Opening, result
  <2>3. SlotsFrom(Received, cursor, end) = SlotsFrom(Received, NextSlot(cursor), end)
    <3>1. CASE Endless
      BY <1>3, <1>6, <3>1
    <3>2. CASE ~Endless
      BY <1>1, <1>3, <1>4, <1>6, <3>2, FromSlot DEF Endless, Fits
    <3> QED  BY <3>1, <3>2
  <2>4. InBundle' /\ InMessage'
    BY <1>1, <1>2, <1>6, <2>1, <2>3 DEF InBundle, InMessage
  <2> QED  BY <2>1, <2>2, <2>4
<1> HIDE DEF Good
<1> QED  BY <1>5, <1>6 DEF Slot, Good

(* All slots of a bundle fit: what it says is what its contents say. *)
LEMMA SlotsEndTells ==
  ASSUME IInv, Arrived, Expected, InBundle, SlotsEnd
  PROVE  Arrived' /\ Expected' /\ InBundle' /\ InMessage'
<1> DEFINE f == [at |-> from + 16, end |-> end, slots |-> slots]
           n == Len(stack)
<1>1. /\ pc = "slots" /\ cursor >= end /\ from \in Nat /\ end \in Nat /\ cursor \in Nat
      /\ end <= size /\ size \in Nat /\ Received \in Seq(Bytes) /\ Len(Received) = size
      /\ stack \in Seq(Frame) /\ slots \in SUBSET Nat /\ n \in Nat
  BY LenProperties DEF SlotsEnd, IInv, TypeOK, Opened, Arrived, Frame
<1>2. /\ end > from /\ Byte(Received, from) = Hash /\ HasBundleHead(Received, from, end)
      /\ SlotsFrom(Received, from + 16, end) = SlotsFrom(Received, cursor, end)
  BY <1>1 DEF InBundle
<1>3. cursor = end
  BY <1>1 DEF IInv, Slots
<1>4. SlotsFrom(Received, end, end) = "done"
  BY <1>1, FromSlot
<1>5. InHand = From(Received, from + 16, end)
  BY <1>2, <1>3, <1>4 DEF InHand, ElementAt, From, SlotsFrom
<1>6. PICK rest \in Said(Received) :
        /\ Behind(stack, n, rest)
        /\ Meaning(Received) = FollowedBy(Sofar, FollowedBy(InHand, rest))
  BY <1>1 DEF Expected, Opening
<1>7. /\ pc' = "elements" /\ stack' = Append(stack, f) /\ Arrived' /\ Received' = Received
      /\ delivered' = delivered
  BY ArrivedKept DEF SlotsEnd, result
<1>8. f \in Frame /\ f.at = from + 16 /\ f.end = end
  BY <1>1 DEF Frame
<1> HIDE DEF f
<1>9. /\ Len(stack') = n + 1 /\ stack'[n + 1] = f
      /\ \A k \in 1..n : stack[k] = stack'[k]
  BY <1>1, <1>7, <1>8, AppendProperties
<1> HIDE DEF n
<1>10. Behind(stack', n, rest)
  BY <1>1, <1>6, <1>9, BehindSame
<1>11. Top'.at = from + 16 /\ Top'.end = end /\ Len(stack') - 1 = n
  BY <1>1, <1>8, <1>9 DEF Top
<1>12. (/\ rest \in Said(Received)
        /\ Behind(stack, Len(stack) - 1, rest)
        /\ Meaning(Received) =
             FollowedBy(Sofar, FollowedBy(From(Received, Top.at, Top.end), rest)))'
  BY <1>5, <1>6, <1>7, <1>10, <1>11 DEF Behind, Sofar
<1>13. delivered' \in Seq(Messages(Received)')
  BY <1>7 DEF Expected
<1>14. Expected'
  BY <1>7, <1>12, <1>13 DEF Expected, Opening
<1> QED
  BY <1>7, <1>14 DEF InBundle, InMessage

(* The next element of a bundle, and what is left behind it. *)
LEMMA ElementTells ==
  ASSUME IInv, Arrived, Expected, Element
  PROVE  Arrived' /\ Expected' /\ InBundle' /\ InMessage'
<1> DEFINE n == Len(stack)
           at == Top.at
           last == Top.end
           next == NextSlot(at)
           said == ElementAt(Received, at + 4, next, Contents(Received))
           left == From(Received, next, last)
<1>1. /\ pc = "elements" /\ at # last
      /\ Open(at + 4, at + 4 + SignedWord(buffer, at))
      /\ UNCHANGED <<input, stack, cursor, slots, message, result>>
  BY DEF Element
<1>2. /\ stack \in Seq(Frame) /\ stack # <<>>
      /\ n \in Nat \ {0} /\ n \in 1..Len(stack) /\ Top \in Frame
  <2>1. stack \in Seq(Frame) /\ stack # <<>>
    BY <1>1 DEF IInv, TypeOK, Frames, Frame
  <2>2. n \in Nat \ {0} /\ n \in 1..Len(stack)
    BY <2>1, LenProperties, EmptySeq
  <2> QED
    BY <2>1, <2>2, ElementOfSeq DEF Top
<1>3. FrameOK(Top)
  BY <1>2 DEF IInv, Frames, FramesOK, Top
<1>4. at \in Nat /\ at \in Top.slots /\ last \in Nat
  BY <1>1, <1>2, <1>3 DEF FrameOK, Frame
<1>5. size \in Nat /\ Received \in Seq(Bytes) /\ Len(Received) = size
  BY DEF Arrived
<1>6. /\ at % 4 = 0 /\ at < next /\ next <= last /\ next % 4 = 0 /\ last <= size
  BY <1>3, <1>4 DEF FrameOK, SlotsLead
<1>7. /\ next \in Nat /\ at + 4 <= next /\ next = at + 4 + W(at)
      /\ at + 4 + SignedWord(buffer, at) = next
  <2>1. next \in Nat
    BY <1>4, NextSlotType DEF IInv
  <2>2. next <= size
    BY <1>4, <1>5, <1>6, <2>1
  <2> QED
    BY <1>4, <1>6, <2>1, <2>2, NextIsNext DEF IInv
<1>8. SlotAfter(Received, at) = next /\ Word(Received, at) = W(at)
  <2>1. at + 4 <= size
    BY <1>4, <1>5, <1>6, <1>7
  <2> QED  BY <1>4, <1>7, <2>1, SlotIsSlot
<1>9. SlotFits(Received, at, last) /\ at < last /\ ~SlotIsEndless(Received, at, last)
  <2>1. W(at) \in Nat
    BY <1>4, NextSlotType DEF IInv
  <2> HIDE DEF next
  <2>2. W(at) % 4 = 0 /\ at + 4 <= last /\ at < last
    BY <1>4, <1>6, <1>7, <2>1
  <2>3. W(at) # Wrap - 4
    <3>1. size <= Int32Max
      BY <1>5, BufferAssumption, Numbers DEF IInv, TypeOK
    <3> QED  BY <1>4, <1>5, <1>6, <1>7, <2>1, <3>1, Numbers
  <2> QED  BY <1>6, <1>8, <2>2, <2>3 DEF SlotFits, SlotIsEndless
<1> HIDE DEF next
<1>10. /\ at \in 0..Len(Received) /\ at + 4 \in 0..Len(Received)
       /\ last \in 0..Len(Received) /\ next \in 0..Len(Received)
  BY <1>4, <1>5, <1>6, <1>7
<1>11. From(Received, at, last) = FollowedBy(said, left)
  BY <1>5, <1>8, <1>9, <1>10, FromSlot
<1>12. said \in Said(Received) /\ left \in Said(Received)
  BY <1>5, <1>10, ElementSays, FromSlot
<1> HIDE DEF said, left
<1>13. PICK before \in Said(Received) :
         /\ Behind(stack, n - 1, before)
         /\ Meaning(Received) = FollowedBy(Sofar, FollowedBy(From(Received, at, last), before))
  BY <1>1 DEF Expected
<1> DEFINE rest == FollowedBy(left, before)
<1>14. rest \in Said(Received)
  BY <1>12, <1>13, FollowedByType DEF Said
<1>15. FollowedBy(FollowedBy(said, left), before) = FollowedBy(said, rest)
  BY <1>12, <1>13, FollowedByAssociative DEF Said
<1>16. Meaning(Received) = FollowedBy(Sofar, FollowedBy(said, rest))
  BY <1>11, <1>13, <1>15
<1>17. rest = FollowedBy(From(Received, SlotAfter(Received, stack[n].at), stack[n].end), before)
  BY <1>8 DEF left, Top
<1> HIDE DEF rest
<1>18. Behind(stack, n, rest)
  <2> HIDE DEF n
  <2> QED  BY <1>2, <1>13, <1>14, <1>17, BehindMore
<1>19. Open(at + 4, next) /\ UNCHANGED <<input, stack, delivered>> /\ next <= size /\ at + 4 \in Nat
  <2>1. next <= size
    BY <1>4, <1>5, <1>6, <1>7
  <2>2. Open(at + 4, next)
    BY <1>1, <1>7
  <2> QED  BY <1>1, <1>4, <2>1, <2>2 DEF result
<1>20. Expected' /\ InBundle' /\ InMessage'
  <2> HIDE DEF at
  <2> QED  BY <1>7, <1>14, <1>16, <1>18, <1>19, OpenTells DEF said
<1> QED
  BY <1>19, <1>20, ArrivedKept

(* The end of a bundle. *)
LEMMA BundleEndTells ==
  ASSUME IInv, Arrived, Expected, BundleEnd
  PROVE  Arrived' /\ Expected' /\ InBundle' /\ InMessage'
<1> DEFINE n == Len(stack)
           open == SubSeq(stack, 1, n - 1)
<1>1. /\ pc = "elements" /\ Top.at = Top.end
      /\ Continue(open)
      /\ UNCHANGED <<input, parsing, delivered>>
  BY DEF BundleEnd
<1>2. /\ n \in Nat \ {0} /\ open \in Seq(Frame) /\ Len(open) = n - 1
      /\ \A k \in 1..(n - 1) : open[k] = stack[k]
      /\ FramesOK(open) /\ Inside(open)
  BY <1>1, OuterBundles
<1> HIDE DEF open
<1>3. PICK rest \in Said(Received) :
        /\ Behind(stack, n - 1, rest)
        /\ Meaning(Received) = FollowedBy(Sofar, FollowedBy(From(Received, Top.at, Top.end), rest))
  BY <1>1 DEF Expected
<1> HIDE DEF n
<1>4. From(Received, Top.at, Top.end) = Nothing
  <2>1. Top.end \in 0..Len(Received) /\ Received \in Seq(Bytes)
    <3>1. stack \in Seq(Frame) /\ n \in 1..Len(stack)
      BY <1>2 DEF IInv, TypeOK, Frame, n
    <3>2. Top \in Frame /\ FrameOK(Top)
      BY <3>1, ElementOfSeq DEF Top, IInv, Frames, FramesOK, n
    <3>3. Top.end \in Nat /\ Top.end <= size
      BY <3>2 DEF Frame, FrameOK
    <3> QED  BY <3>3 DEF Arrived
  <2> QED  BY <1>1, <2>1, FromSlot
<1>5. FollowedBy(Nothing, rest) = rest
  BY <1>3, FollowedByNothing DEF Said
<1>6. Meaning(Received) = FollowedBy([messages |-> delivered', ends |-> "done"], rest)
  BY <1>1, <1>3, <1>4, <1>5 DEF Sofar
<1>7. Behind(open, Len(open), rest)
  <2>1. n - 1 \in Nat /\ \A k \in 1..(n - 1) : stack[k] = open[k]
    BY <1>2
  <2>2. Behind(open, n - 1, rest)
    BY <1>3, <2>1, BehindSame
  <2> QED  BY <1>2, <2>2
<1>8. delivered' \in Seq(Messages(Received))
  BY <1>1 DEF Expected
<1>9. Expected'
  BY <1>1, <1>2, <1>3, <1>6, <1>7, <1>8, ContinueMeans
<1>10. Arrived' /\ pc' \in {"idle", "elements"}
  BY <1>1, ArrivedKept DEF Continue
<1> QED
  BY <1>9, <1>10 DEF InBundle, InMessage

-----------------------------------------------------------------------------
(***************************************************************************)
(* Messages                                                                *)
(***************************************************************************)
\* How often t is among the first k of T.
Among(T, k, t) == Cardinality({i \in 1..k : T[i] = t})

Depth(T, k) == Among(T, k, ArrayBeginTag) - Among(T, k, ArrayEndTag)

(* Counting goes up by one or stays. *)
LEMMA AmongOneMore ==
  ASSUME NEW T, NEW t, NEW k \in Nat
  PROVE  /\ Among(T, k, t) \in 0..k
         /\ Among(T, k + 1, t) = Among(T, k, t) + (IF T[k + 1] = t THEN 1 ELSE 0)
<1> DEFINE S(n) == {i \in 1..n : T[i] = t}
<1>1. IsFiniteSet(1..k) /\ Cardinality(1..k) = k
  <2>1. /\ IsFiniteSet(1..k)
        /\ Cardinality(1..k) = IF 1 > k THEN 0 ELSE k - 1 + 1
    BY FS_Interval
  <2> QED  BY <2>1
<1>2. IsFiniteSet(S(k)) /\ Cardinality(S(k)) <= k /\ Cardinality(S(k)) \in Nat
  <2>1. S(k) \subseteq 1..k
    OBVIOUS
  <2>2. IsFiniteSet(S(k)) /\ Cardinality(S(k)) <= Cardinality(1..k)
    BY <1>1, <2>1, FS_Subset
  <2>3. Cardinality(S(k)) \in Nat
    BY <2>2, FS_CardinalityType
  <2> QED  BY <1>1, <2>2, <2>3
<1>3. CASE T[k + 1] = t
  <2>1. S(k + 1) = S(k) \cup {k + 1} /\ k + 1 \notin S(k)
    BY <1>3
  <2>2. Cardinality(S(k) \cup {k + 1}) = Cardinality(S(k)) + 1
    BY <1>2, <2>1, FS_AddElement
  <2> QED  BY <1>2, <1>3, <2>1, <2>2 DEF Among
<1>4. CASE T[k + 1] # t
  <2>1. S(k + 1) = S(k)
    BY <1>4
  <2> QED  BY <1>2, <1>4, <2>1 DEF Among
<1> QED  BY <1>3, <1>4

(* The array level wraps, and is found again: it is the depth or, below it, *)
(* the depth and a whole turn.                                              *)
LEMMA LevelTurns ==
  ASSUME NEW k \in Nat, k + 1 < Wrap, NEW d \in Int, -k <= d, d <= k,
         NEW l \in 0..(Wrap - 1), l = d \/ l = d + Wrap
  PROVE  /\ (l + 1) % Wrap = d + 1 \/ (l + 1) % Wrap = d + 1 + Wrap
         /\ (l - 1) % Wrap = d - 1 \/ (l - 1) % Wrap = d - 1 + Wrap
<1>1. Wrap \in Nat \ {0}
  BY Numbers
<1>2. \A x \in 0..(Wrap - 1) : x % Wrap = x
  BY <1>1
<1>3. Wrap % Wrap = 0 /\ (-1) % Wrap = Wrap - 1
  BY <1>1
<1>4. (l + 1) % Wrap = d + 1 \/ (l + 1) % Wrap = d + 1 + Wrap
  <2>1. CASE l + 1 < Wrap
    <3>1. (l + 1) % Wrap = l + 1
      BY <1>1, <1>2, <2>1
    <3> QED  BY <1>1, <3>1
  <2>2. CASE ~(l + 1 < Wrap)
    <3>1. l + 1 = Wrap
      BY <1>1, <2>2
    <3> QED  BY <1>1, <1>3, <3>1
  <2> QED  BY <2>1, <2>2
<1>5. (l - 1) % Wrap = d - 1 \/ (l - 1) % Wrap = d - 1 + Wrap
  <2>1. CASE l > 0
    <3>1. (l - 1) % Wrap = l - 1
      BY <1>1, <1>2, <2>1
    <3> QED  BY <1>1, <3>1
  <2>2. CASE ~(l > 0)
    <3>1. l = 0 /\ l - 1 = -1
      BY <1>1, <2>2
    <3> QED  BY <1>1, <1>3, <3>1
  <2> QED  BY <2>1, <2>2
<1> QED  BY <1>4, <1>5

\* The type tags of the message in hand, and where its arguments are.
Text  == CString(Received, tags.begin)
Where == Places(Received, Text, tags.arguments, end)

\* Behind a blob that does not fit, the buffer and the datagram differ.
SamePlace(x, y) == y \in Nat /\ (x = y \/ (x > end /\ y > end))

(* Init accepts an argument when it has room in the datagram. *)
LEMMA SameRoom ==
  ASSUME Arrived, end \in Nat, end <= size, NEW t \in Nat,
         NEW x \in Nat, NEW y, SamePlace(x, y)
  PROVE  TagIsFine(t, x) <=> HasRoom(Received, B(t), y, end)
<1>1. y \in Nat /\ size \in Nat
  BY DEF SamePlace, Arrived
<1>2. CASE x = y
  <2>1. FindStr4End(buffer, x, end) = FindStr4End(Received, x, end)
    <3>1. end \in 0..size /\ SameBytes(Received, buffer, size)
      BY <1>1 DEF Arrived
    <3> QED  BY <1>1, <3>1, SameFind
  <2>2. FindStr4End(Received, x, end) # Null => x # end
    BY <1>1 DEF FindStr4End
  <2>3. (x + 4 <= end => x # end) /\ (x + 8 <= end => x # end)
    BY <1>1
  <2> QED  BY <1>2, <2>1, <2>2, <2>3 DEF TagIsFine, HasRoom
<1>3. CASE x > end /\ y > end
  <2>1. ~(x + 4 <= end) /\ ~(y + 4 <= end) /\ ~(x + 8 <= end) /\ ~(y + 8 <= end)
    BY <1>1, <1>3
  <2>2. FindStr4End(buffer, x, end) = Null /\ FindStr4End(Received, y, end) = Null
    BY <1>1, <1>3 DEF FindStr4End
  <2> QED  BY <2>1, <2>2 DEF TagIsFine, HasRoom
<1> QED  BY <1>2, <1>3 DEF SamePlace

(* Then the next one is in the same place again. *)
LEMMA SameNext ==
  ASSUME IInv, Arrived, end <= size, end % 4 = 0, NEW t \in Nat,
         NEW x \in Nat, x % 4 = 0, NEW y, SamePlace(x, y), TagIsFine(t, x),
         NEW word \in SizeWords(t, x)
  PROVE  SamePlace(CheckedEnd(t, x, word), After(Received, B(t), y, end))
<1> DEFINE c == B(t)
<1>1. /\ y \in Nat /\ size \in Nat /\ end \in Nat /\ buffer \in Seq(Bytes)
      /\ Received \in Seq(Bytes) /\ SameBytes(Received, buffer, size)
  BY DEF SamePlace, Arrived, IInv, TypeOK
<1>2. HasRoom(Received, c, y, end)
  BY <1>1, SameRoom
<1>3. word \in Nat /\ CheckedEnd(t, x, word) \in Nat
  <2>1. word \in Nat
    BY SizeType DEF IInv
  <2> QED  BY <2>1, FineArgument DEF IInv
<1>4. \A u \in Nat : SamePlace(u, u)
  BY DEF SamePlace
<1>5. CASE c \in WordTags
  <2>1. y + 4 <= end
    BY <1>2, <1>5, TagKinds DEF HasRoom
  <2>2. x = y
    BY <1>1, <2>1 DEF SamePlace
  <2>3. CheckedEnd(t, x, word) = x + 4 /\ After(Received, c, y, end) = y + 4
    BY <1>5, TagKinds DEF CheckedEnd, After
  <2> QED  BY <1>1, <2>2, <2>3 DEF SamePlace
<1>6. CASE c \in DoubleTags
  <2>1. y + 8 <= end
    BY <1>2, <1>6, TagKinds DEF HasRoom
  <2>2. x = y
    BY <1>1, <2>1 DEF SamePlace
  <2>3. CheckedEnd(t, x, word) = x + 8 /\ After(Received, c, y, end) = y + 8
    BY <1>6, TagKinds DEF CheckedEnd, After
  <2> QED  BY <1>1, <2>2, <2>3 DEF SamePlace
<1>7. CASE c \in StringTags
  <2>1. FindStr4End(Received, y, end) # Null
    BY <1>2, <1>7, TagKinds DEF HasRoom
  <2>2. y < end
    BY <1>1, <2>1 DEF FindStr4End
  <2>3. x = y
    BY <1>1, <2>2 DEF SamePlace
  <2>4. CheckedEnd(t, x, word) = FindStr4End(buffer, x, end)
        /\ After(Received, c, y, end) = FindStr4End(Received, y, end)
    BY <1>7, TagKinds DEF CheckedEnd, After
  <2>5. FindStr4End(buffer, x, end) = FindStr4End(Received, x, end)
    <3>1. end \in 0..size
      BY <1>1
    <3> QED  BY <1>1, <3>1, SameFind
  <2>6. CheckedEnd(t, x, word) = After(Received, c, y, end)
    BY <2>3, <2>4, <2>5
  <2> QED  BY <1>3, <1>4, <2>6
<1>8. CASE c = BlobTag
  <2>1. /\ CheckedEnd(t, x, word) = x + 4 + RoundUp4(word)
        /\ After(Received, c, y, end) = y + 4 + RoundUp4(Word(Received, y))
    BY <1>8, TagKinds DEF CheckedEnd, After, BlobEnd
  <2>2. CASE y + 4 <= end
    <3>1. x = y /\ x + 4 <= size /\ x + 4 <= BufferSize
      BY <1>1, <2>2, BufferAssumption DEF SamePlace, IInv, TypeOK
    <3>2. ~OutsideTheBuffer(t, x)
      BY <1>1, <3>1, BufferAssumption DEF OutsideTheBuffer
    <3>3. word = W(x)
      BY <3>2 DEF SizeWords
    <3>4. Word(Received, y) = W(x)
      BY <1>1, <3>1, SlotIsSlot
    <3>5. CheckedEnd(t, x, word) = After(Received, c, y, end)
      BY <2>1, <3>1, <3>3, <3>4
    <3> QED  BY <1>3, <1>4, <3>5
  <2>3. CASE ~(y + 4 <= end)
    <3>1. RoundUp4(word) \in Nat /\ RoundUp4(Word(Received, y)) \in Nat
      <4>1. Word(Received, y) \in Nat
        BY <1>1, WordType
      <4> QED  BY <1>3, <4>1, RoundType
    <3>2. ~(x + 4 <= end)
      BY <1>1, <2>3 DEF SamePlace
    <3> DEFINE wide == RoundUp4(word)
               far  == RoundUp4(Word(Received, y))
               u    == CheckedEnd(t, x, word)
               v    == After(Received, c, y, end)
    <3>3. u = x + 4 + wide /\ v = y + 4 + far /\ wide \in Nat /\ far \in Nat
      BY <2>1, <3>1
    <3> HIDE DEF wide, far, u, v
    <3>4. v \in Nat /\ u > end /\ v > end
      BY <1>1, <2>3, <3>2, <3>3
    <3>5. SamePlace(u, v)
      BY <3>4 DEF SamePlace
    <3> QED  BY <3>5 DEF u, v
  <2> QED  BY <2>2, <2>3
<1>9. CASE c \notin WordTags \cup DoubleTags \cup StringTags \cup {BlobTag}
  <2>1. CheckedEnd(t, x, word) = x /\ After(Received, c, y, end) = y
    BY <1>9 DEF CheckedEnd, After
  <2> QED  BY <2>1
<1> QED  BY <1>5, <1>6, <1>7, <1>8, <1>9

(* An argument that has room has the value in the buffer that it has in the datagram. *)
LEMMA SameValue ==
  ASSUME Arrived, buffer \in Seq(Bytes), size <= Len(buffer), end \in Nat, end <= size, NEW c,
         NEW x \in Nat, NEW y, SamePlace(x, y), HasRoom(Received, c, y, end)
  PROVE  ValueOf(buffer, c, x) = ValueOf(Received, c, y)
<1>1. /\ y \in Nat /\ size \in Nat /\ Received \in Seq(Bytes) /\ Len(Received) = size
      /\ SameBytes(Received, buffer, size)
  BY DEF SamePlace, Arrived
<1>2. CASE c \in {Int32Tag, FloatTag}
  <2>1. y + 4 <= end
    BY <1>2, TagKinds DEF HasRoom
  <2>2. x = y /\ y + 4 <= size
    BY <1>1, <2>1 DEF SamePlace
  <2>3. SignedWord(buffer, x) = SignedWord(Received, y)
    BY <1>1, <2>2, SameWords
  <2> QED  BY <1>2, <2>3 DEF ValueOf
<1>3. CASE c = StringTag
  <2>1. FindStr4End(Received, y, end) # Null
    BY <1>3, TagKinds DEF HasRoom
  <2>2. x = y
    BY <1>1, <2>1 DEF SamePlace, FindStr4End
  <2>3. PICK q \in y..(end - 1) : Byte(Received, q) = 0
    BY <1>1, <2>1, FoundNul
  <2>4. q \in y..(size - 1) /\ size \in 0..Len(Received)
    BY <1>1
  <2>5. CString(Received, y) = CString(buffer, y)
    BY <1>1, <2>3, <2>4, SameText
  <2>6. StringTag # Int32Tag /\ StringTag # FloatTag
    BY TagKinds
  <2>7. ValueOf(buffer, StringTag, x) = ValueOf(Received, StringTag, y)
    BY <2>2, <2>5, <2>6 DEF ValueOf
  <2> QED  BY <1>3, <2>6, <2>7
<1>4. CASE c \notin {Int32Tag, FloatTag, StringTag}
  BY <1>4 DEF ValueOf
<1> QED  BY <1>2, <1>3, <1>4

\* The tags whose arguments Init has found so far are those of the datagram.
Tagged ==
  /\ FindStr4End(Received, from, end) # Null
  /\ tags.begin = FindStr4End(Received, from, end) + 1
  /\ tags.arguments = FindStr4End(Received, FindStr4End(Received, from, end), end)
  /\ tags.begin # Null /\ \E q \in tags.begin..(size - 1) : Byte(Received, q) = 0
  /\ InHand = MessageWith(Received, from, end, Text, Where)
  /\ Len(checked) <= Len(Text)
  /\ \A i \in 1..Len(checked) :
       HasRoom(Received, Text[i], Where[i], end) /\ SamePlace(checked[i], Where[i])

InTags ==
  pc \in {"tags", "level"} =>
    /\ Tagged
    /\ pc = "tags" =>
         Len(checked) < Len(Text) /\ SamePlace(cursor, Where[Len(checked) + 1])
    /\ pc = "level" => Len(checked) = Len(Text)
    /\ level = Depth(Text, Len(checked)) \/ level = Depth(Text, Len(checked)) + Wrap
    /\ values = <<>>

\* The first n values of the message in hand.
Values(n) == [i \in 1..n |-> ValueOf(Received, Text[i], Where[i])]

InArguments ==
  pc = "convert" =>
    /\ FindStr4End(Received, from, end) # Null
    /\ tags.begin = Null =>
         tag = tags.stop /\ values = <<>> /\ InHand = BareMessageAt(Received, from)
    /\ tags.begin # Null =>
         /\ Tagged /\ Balanced(Text) /\ Len(checked) = Len(Text)
         /\ tags.stop = tags.begin + Len(Text) /\ tag \in tags.begin..tags.stop
         /\ values = Values(tag - tags.begin)

(* What the head of a message is in the datagram. *)
LEMMA HeadOfMessage ==
  ASSUME IInv, Arrived, InMessage, pc = "message"
  PROVE  /\ from \in Nat /\ end \in Nat /\ size \in Nat /\ end <= size
         /\ from <= end /\ from % 4 = 0 /\ end % 4 = 0
         /\ InHand = MessageAt(Received, from, end)
         /\ FindStr4End(Received, from, end) = AddressEnd
         /\ AddressEnd # Null =>
              /\ AddressEnd \in Nat /\ AddressEnd > from
              /\ AddressEnd <= end /\ AddressEnd % 4 = 0
              /\ FindStr4End(Received, AddressEnd, end) = FindStr4End(buffer, AddressEnd, end)
         /\ AddressEnd # Null /\ AddressEnd # end =>
              /\ AddressEnd + 1 < end
              /\ Byte(Received, AddressEnd) = B(AddressEnd)
              /\ Byte(Received, AddressEnd + 1) = B(AddressEnd + 1)
<1>1. /\ from \in Nat /\ end \in Nat /\ size \in Nat /\ end <= size
      /\ from <= end /\ from % 4 = 0 /\ end % 4 = 0 /\ buffer \in Seq(Bytes)
  BY DEF IInv, TypeOK, Opened, Arrived
<1>2. InHand = MessageAt(Received, from, end)
  BY DEF InMessage, InHand, ElementAt
<1>3. end \in 0..size /\ SameBytes(Received, buffer, size)
  BY <1>1 DEF Arrived
<1>4. FindStr4End(Received, from, end) = AddressEnd
  BY <1>1, <1>3, SameFind DEF AddressEnd
<1>5. ASSUME AddressEnd # Null
      PROVE  /\ AddressEnd \in Nat /\ AddressEnd > from
             /\ AddressEnd <= end /\ AddressEnd % 4 = 0
             /\ FindStr4End(Received, AddressEnd, end) = FindStr4End(buffer, AddressEnd, end)
  <2>1. /\ AddressEnd \in Nat /\ AddressEnd > from
        /\ AddressEnd <= end /\ AddressEnd % 4 = 0
    BY <1>1, <1>5, FindType DEF AddressEnd
  <2>2. FindStr4End(Received, AddressEnd, end) = FindStr4End(buffer, AddressEnd, end)
    BY <1>1, <1>3, <2>1, SameFind
  <2> QED  BY <2>1, <2>2
<1>6. ASSUME AddressEnd # Null, AddressEnd # end
      PROVE  /\ AddressEnd + 1 < end
             /\ Byte(Received, AddressEnd) = B(AddressEnd)
             /\ Byte(Received, AddressEnd + 1) = B(AddressEnd + 1)
  <2>1. AddressEnd \in Nat /\ AddressEnd <= end /\ AddressEnd % 4 = 0
    BY <1>5, <1>6
  <2>2. AddressEnd + 1 < end
    BY <1>1, <1>6, <2>1
  <2>3. AddressEnd < size /\ AddressEnd + 1 < size /\ AddressEnd + 1 \in Nat
    BY <1>1, <2>1, <2>2
  <2> QED  BY <1>3, <2>1, <2>2, <2>3 DEF SameBytes, B
<1> QED  BY <1>1, <1>2, <1>4, <1>5, <1>6

(* The head of a message: what is refused, what has no arguments, and where *)
(* the type tags and the arguments begin.                                   *)
LEMMA MessageHeadTells ==
  ASSUME IInv, Arrived, Expected, InMessage, MessageHead
  PROVE  Arrived' /\ Expected' /\ InMessage' /\ InTags' /\ InArguments'
<1> DEFINE comma == AddressEnd
           arguments == FindStr4End(buffer, comma, end)
           Bad == \/ end = from
                  \/ (end - from) % 4 # 0
                  \/ comma = Null
                  \/ comma # end /\ B(comma) # Comma
                  \/ /\ comma # end
                     /\ B(comma + 1) # 0
                     /\ arguments = Null
<1>1. pc = "message"
  BY DEF MessageHead
<1>2. /\ from \in Nat /\ end \in Nat /\ size \in Nat /\ end <= size
      /\ from <= end /\ from % 4 = 0 /\ end % 4 = 0
      /\ InHand = MessageAt(Received, from, end)
      /\ FindStr4End(Received, from, end) = comma
  BY <1>1, HeadOfMessage
<1>3. comma # Null =>
        /\ comma \in Nat /\ comma > from /\ comma <= end /\ comma % 4 = 0
        /\ FindStr4End(Received, comma, end) = arguments
  BY <1>1, HeadOfMessage
<1>4. comma # Null /\ comma # end =>
        /\ comma + 1 < end
        /\ Byte(Received, comma) = B(comma)
        /\ Byte(Received, comma + 1) = B(comma + 1)
  BY <1>1, HeadOfMessage
<1> HIDE DEF comma, arguments
<1>5. ASSUME Bad, Throw
      PROVE  Arrived' /\ Expected' /\ InMessage' /\ InTags' /\ InArguments'
  <2>1. InHand = Refused
    BY <1>2, <1>3, <1>4, <1>5 DEF MessageAt, TaggedMessageAt
  <2>2. Expected'
    BY <1>1, <1>5, <2>1, ThrowMeans DEF Opening
  <2>3. Arrived' /\ pc' = "idle"
    BY <1>5, ArrivedKept DEF Throw
  <2> QED  BY <2>2, <2>3 DEF InMessage, InTags, InArguments
<1>6. ASSUME ~Bad,
             IF comma = end \/ B(comma + 1) = 0
               THEN BareMessage
               ELSE TaggedMessage(comma, arguments),
             level' = 0, checked' = <<>>, values' = <<>>,
             UNCHANGED <<input, stack, element, slots, result>>
      PROVE  Arrived' /\ Expected' /\ InMessage' /\ InTags' /\ InArguments'
  <2>1. Arrived' /\ Received' = Received /\ from' = from /\ end' = end /\ InHand' = InHand
        /\ size' = size
    BY <1>6, ArrivedKept DEF element, InHand, input
  <2>2. pc' \in {"convert", "tags"}
    BY <1>6 DEF BareMessage, TaggedMessage
  <2>3. Expected'
    BY <1>1, <1>6, <2>2, ExpectedKept DEF Opening, result
  <2>4. InMessage'
    BY <1>1, <2>1 DEF InMessage
  <2>5. comma # Null
    BY <1>6
  <2>6. ASSUME comma = end \/ B(comma + 1) = 0
        PROVE  InTags' /\ InArguments'
    <3>1. InHand = BareMessageAt(Received, from)
      BY <1>2, <1>3, <1>4, <1>6, <2>6 DEF MessageAt
    <3>2. BareMessage
      BY <1>6, <2>6
    <3>3. pc' = "convert" /\ tags'.begin = Null /\ tag' = tags'.stop
      BY <3>2 DEF BareMessage, NoTags
    <3>4. InTags'
      BY <3>3 DEF InTags
    <3>5. InArguments'
      BY <1>2, <1>6, <2>1, <2>5, <3>1, <3>3 DEF InArguments
    <3> QED  BY <3>4, <3>5
  <2>7. ASSUME ~(comma = end \/ B(comma + 1) = 0)
        PROVE  InTags' /\ InArguments'
    <3> DEFINE T == CString(Received, comma + 1)
               P == Places(Received, T, arguments, end)
    <3>1. arguments # Null /\ B(comma) = Comma
      BY <1>6, <2>7
    <3>2. InHand = MessageWith(Received, from, end, T, P)
      BY <1>2, <1>3, <1>4, <1>6, <2>5, <2>7, <3>1 DEF MessageAt, TaggedMessageAt
    <3>3. TaggedMessage(comma, arguments)
      BY <1>6, <2>7
    <3>4. /\ tags'.begin = comma + 1 /\ tags'.arguments = arguments
          /\ cursor' = arguments /\ pc' = "tags"
      BY <3>3 DEF TaggedMessage
    <3>5. Text' = T /\ Where' = P
      BY <2>1, <3>4 DEF Text, Where
    <3>6. \E q \in (comma + 1)..(size - 1) : Byte(Received, q) = 0
      <4>1. PICK q \in comma..(end - 1) : Byte(Received, q) = 0
        BY <1>2, <1>3, <2>5, <3>1, FoundNul
      <4>2. q # comma
        BY <1>4, <2>5, <2>7, <3>1, <4>1 DEF Comma
      <4>3. q \in (comma + 1)..(size - 1)
        BY <1>2, <1>3, <2>5, <4>1, <4>2
      <4> QED  BY <4>1, <4>3
    <3>7. comma + 1 # Null /\ comma + 1 \in 0..size /\ comma + 1 < size
      BY <1>2, <1>3, <1>4, <2>5, <2>7 DEF Null
    <3>8. T \in Seq(Bytes) /\ Len(T) \in Nat /\ Len(T) > 0
      <4>1. Received \in Seq(Bytes) /\ comma + 1 \in 0..Len(Received)
        BY <3>7 DEF Arrived
      <4>2. T \in Seq(Bytes) /\ Len(T) \in Nat
        BY <4>1, TextOf
      <4>3. Byte(Received, comma + 1) # 0
        BY <1>4, <2>5, <2>7
      <4>4. Len(T) # 0
        <5>1. Byte(Received, comma + 1 + Len(T)) = 0
          BY <4>1, TextOf
        <5>2. comma + 1 + 0 = comma + 1
          BY <1>3, <2>5
        <5> QED  BY <4>3, <5>1, <5>2
      <4> QED  BY <4>2, <4>4
    <3>9. Len(checked') = 0 /\ 1..0 = {}
      BY <1>6, EmptySeq
    <3> HIDE DEF T, P
    <3>10. Tagged'
      <4>1. /\ FindStr4End(Received', from', end') = comma
            /\ FindStr4End(Received', comma, end') = arguments
        BY <1>2, <1>3, <2>1, <2>5
      <4> QED
        BY <1>2, <2>1, <2>5, <3>2, <3>4, <3>5, <3>6, <3>7, <3>8, <3>9, <4>1 DEF Tagged
    <3>11. SamePlace(cursor, Where[Len(checked) + 1])'
      <4>1. P[1] = arguments
        <5>1. 1 \in 1..Len(T)
          BY <3>8
        <5>2. \A i \in 1..Len(T) :
                P[i] = IF i = 1 THEN arguments ELSE After(Received, T[i - 1], P[i - 1], end)
          BY <3>8, PlacesEquation DEF P
        <5> QED  BY <5>1, <5>2
      <4>2. arguments \in Nat
        BY <1>2, <1>3, <2>5, <3>1, FindType DEF arguments, IInv, TypeOK
      <4> QED  BY <3>4, <3>5, <3>9, <4>1, <4>2 DEF SamePlace
    <3>12. Depth(T, 0) = 0
      <4>1. \A t : Among(T, 0, t) = 0
        BY AmongOneMore
      <4> QED  BY <4>1 DEF Depth
    <3>13. InTags'
      BY <1>6, <3>4, <3>5, <3>8, <3>9, <3>10, <3>11, <3>12 DEF InTags
    <3>14. InArguments'
      BY <3>4 DEF InArguments
    <3> QED  BY <3>13, <3>14
  <2> QED  BY <2>1, <2>3, <2>4, <2>6, <2>7
<1> HIDE DEF Bad
<1> QED  BY <1>5, <1>6 DEF MessageHead, Bad, comma, arguments

(* The type tags of the message in hand are those that the parser reads in the buffer. *)
LEMMA TextInBuffer ==
  ASSUME IInv, Arrived, Tagged
  PROVE  /\ Text \in Seq(Bytes) /\ Len(Text) \in Nat /\ tags.begin \in Nat /\ size \in Nat
         /\ tags.begin + Len(Text) < size
         /\ \A i \in 1..Len(Text) : Text[i] = B(tags.begin + i - 1) /\ Text[i] # 0
         /\ B(tags.begin + Len(Text)) = 0
         /\ CString(buffer, tags.begin) = Text
<1> DEFINE p == tags.begin
<1>1. /\ p \in Nat /\ size \in Nat /\ Received \in Seq(Bytes) /\ Len(Received) = size
      /\ SameBytes(Received, buffer, size) /\ buffer \in Seq(Bytes)
      /\ size <= Len(buffer) /\ Len(buffer) \in Nat
  BY BufferAssumption DEF IInv, TypeOK, Arrived
<1>2. PICK q \in p..(size - 1) : Byte(Received, q) = 0
  BY DEF Tagged
<1> HIDE DEF p
<1>3. p \in 0..Len(Received) /\ size \in 0..Len(Received)
  BY <1>1, <1>2
<1> DEFINE T == CString(Received, p)
<1>4. /\ T \in Seq(Bytes) /\ Len(T) \in Nat
      /\ \A i \in 1..Len(T) : T[i] = Byte(Received, p + i - 1) /\ T[i] # 0
      /\ Byte(Received, p + Len(T)) = 0
  BY <1>1, <1>3, TextOf
<1>5. T = CString(buffer, p) /\ p + Len(T) <= q
  BY <1>1, <1>2, <1>3, SameText
<1> HIDE DEF T
<1>6. p + Len(T) < size
  BY <1>1, <1>2, <1>4, <1>5
<1>7. \A o \in Nat : o < size => Byte(Received, o) = B(o)
  BY <1>1 DEF SameBytes, B
<1>8. \A i \in 1..Len(T) : T[i] = B(p + i - 1) /\ T[i] # 0
  <2> TAKE i \in 1..Len(T)
  <2>1. p + i - 1 \in Nat /\ p + i - 1 < size
    BY <1>1, <1>4, <1>6
  <2> QED  BY <1>4, <1>7, <2>1
<1>9. B(p + Len(T)) = 0
  BY <1>1, <1>4, <1>6, <1>7
<1> QED  BY <1>1, <1>4, <1>5, <1>6, <1>8, <1>9 DEF Text, T, p

(* One type tag. *)
LEMMA CheckTagTells ==
  ASSUME IInv, Arrived, Expected, InMessage, InTags, CheckTag
  PROVE  Arrived' /\ Expected' /\ InMessage' /\ InTags' /\ InArguments'
<1> DEFINE k == Len(checked)
           c == B(tag)
<1>1. pc = "tags"
  BY DEF CheckTag
<1>2. /\ Tagged /\ k < Len(Text) /\ SamePlace(cursor, Where[k + 1])
      /\ level = Depth(Text, k) \/ level = Depth(Text, k) + Wrap
      /\ values = <<>>
  BY <1>1 DEF InTags
<1>3. /\ Text \in Seq(Bytes) /\ Len(Text) \in Nat /\ tags.begin \in Nat /\ size \in Nat
      /\ tags.begin + Len(Text) < size
      /\ \A i \in 1..Len(Text) : Text[i] = B(tags.begin + i - 1) /\ Text[i] # 0
      /\ B(tags.begin + Len(Text)) = 0
  BY <1>2, TextInBuffer
<1>4. /\ checked \in Seq(Nat) /\ k \in Nat /\ cursor \in Nat /\ tag \in Nat
      /\ end \in Nat /\ end <= size /\ end % 4 = 0
      /\ tag = tags.begin + k /\ cursor % 4 = 0 /\ level \in 0..(Wrap - 1)
  BY <1>1, LenProperties DEF IInv, TypeOK, Opened, Arguments, Looking
<1> HIDE DEF k
<1>5. k + 1 \in 1..Len(Text) /\ Text[k + 1] = c
  <2>1. k + 1 \in 1..Len(Text) /\ tags.begin + (k + 1) - 1 = tag
    BY <1>2, <1>3, <1>4
  <2> QED  BY <1>3, <2>1
<1>6. TagIsFine(tag, cursor) <=> HasRoom(Received, c, Where[k + 1], end)
  BY <1>2, <1>4, SameRoom
<1>7. ASSUME ~TagIsFine(tag, cursor), Throw
      PROVE  Arrived' /\ Expected' /\ InMessage' /\ InTags' /\ InArguments'
  <2>1. ~HasRoom(Received, Text[k + 1], Where[k + 1], end)
    BY <1>5, <1>6, <1>7
  <2>2. InHand = Refused
    BY <1>2, <1>5, <2>1 DEF Tagged, MessageWith
  <2>3. Expected'
    BY <1>1, <1>7, <2>2, ThrowMeans DEF Opening
  <2>4. Arrived' /\ pc' = "idle"
    BY <1>7, ArrivedKept DEF Throw
  <2> QED  BY <2>3, <2>4 DEF InMessage, InTags, InArguments
<1>8. ASSUME TagIsFine(tag, cursor),
             checked' = Append(checked, cursor),
             \E word \in SizeWords(tag, cursor) : cursor' = CheckedEnd(tag, cursor, word),
             level' = IF c = ArrayBeginTag THEN (level + 1) % Wrap
                      ELSE IF c = ArrayEndTag THEN (level - 1) % Wrap
                      ELSE level,
             pc' = IF B(tag + 1) # 0 THEN "tags" ELSE "level",
             UNCHANGED <<input, stack, element, slots, tags, values, result>>
      PROVE  Arrived' /\ Expected' /\ InMessage' /\ InTags' /\ InArguments'
  <2>1. Arrived' /\ Received' = Received /\ from' = from /\ end' = end /\ InHand' = InHand
        /\ size' = size /\ tags' = tags
    BY <1>8, ArrivedKept DEF element, InHand, input
  <2>2. Text' = Text /\ Where' = Where
    BY <2>1 DEF Text, Where
  <2>3. Expected' /\ InMessage'
    <3>1. pc' \in Opening /\ pc \in Opening
      BY <1>1, <1>8 DEF Opening
    <3>2. Expected'
      BY <1>8, <3>1, ExpectedKept DEF result
    <3>3. InMessage'
      BY <1>1, <2>1 DEF InMessage
    <3> QED  BY <3>2, <3>3
  <2>4. /\ Len(checked') = k + 1 /\ checked'[k + 1] = cursor
        /\ \A i \in 1..k : checked'[i] = checked[i]
    BY <1>4, <1>8, AppendProperties DEF k
  <2>5. \A i \in 1..(k + 1) :
          HasRoom(Received, Text[i], Where[i], end) /\ SamePlace(checked'[i], Where[i])
    <3> TAKE i \in 1..(k + 1)
    <3>1. CASE i = k + 1
      BY <1>2, <1>5, <1>6, <1>8, <2>4, <3>1
    <3>2. CASE i # k + 1
      <4>1. i \in 1..k
        BY <1>4, <3>2
      <4> QED  BY <1>2, <2>4, <4>1 DEF Tagged, k
    <3> QED  BY <3>1, <3>2
  <2>6. Tagged'
    <3>1. k + 1 <= Len(Text)
      BY <1>2, <1>3, <1>4
    <3>2. \A x, y : SamePlace(x, y)' <=> SamePlace(x, y)
      BY <2>1 DEF SamePlace
    <3> QED  BY <1>2, <2>1, <2>2, <2>4, <2>5, <3>1, <3>2 DEF Tagged, SamePlace
  <2>7. ASSUME k + 1 < Len(Text)
        PROVE  pc' = "tags" /\ SamePlace(cursor', Where[k + 2])
    <3> DEFINE n == Len(Text)
               b == tags.begin
               j == k + 2
    <3>1. n \in Nat /\ b \in Nat /\ k \in Nat /\ tag = b + k /\ k + 1 < n
      BY <1>3, <1>4, <2>7
    <3> HIDE DEF n, b
    <3>2. j \in 1..n /\ j # 1 /\ j - 1 = k + 1 /\ b + j - 1 = tag + 1
      BY <3>1
    <3> HIDE DEF j
    <3>3. j \in 1..Len(Text) /\ j # 1 /\ j - 1 = k + 1 /\ tags.begin + j - 1 = tag + 1
      BY <3>2 DEF n, b
    <3>4. B(tag + 1) # 0
      BY <1>3, <3>3
    <3>5. \A i \in 1..Len(Text) :
            Where[i] = IF i = 1 THEN tags.arguments
                       ELSE After(Received, Text[i - 1], Where[i - 1], end)
      BY <1>3, PlacesEquation DEF Where
    <3>6. Where[j] = After(Received, Text[j - 1], Where[j - 1], end)
      BY <3>3, <3>5
    <3>7. Where[k + 2] = After(Received, c, Where[k + 1], end)
      BY <1>5, <3>3, <3>6 DEF j
    <3>8. SamePlace(cursor', After(Received, c, Where[k + 1], end))
      <4>1. PICK word \in SizeWords(tag, cursor) : cursor' = CheckedEnd(tag, cursor, word)
        BY <1>8
      <4>2. SamePlace(CheckedEnd(tag, cursor, word), After(Received, c, Where[k + 1], end))
        BY <1>2, <1>4, <1>8, SameNext
      <4> QED  BY <4>1, <4>2
    <3> QED  BY <1>8, <3>4, <3>7, <3>8
  <2>8. ASSUME ~(k + 1 < Len(Text))
        PROVE  pc' = "level" /\ k + 1 = Len(Text)
    <3> DEFINE n == Len(Text)
               b == tags.begin
    <3>1. n \in Nat /\ b \in Nat /\ k \in Nat /\ tag = b + k /\ k < n /\ ~(k + 1 < n)
      BY <1>2, <1>3, <1>4, <2>8
    <3> HIDE DEF n, b
    <3>2. k + 1 = n /\ tag + 1 = b + n
      BY <3>1
    <3>3. k + 1 = Len(Text) /\ tag + 1 = tags.begin + Len(Text)
      BY <3>2 DEF n, b
    <3> QED  BY <1>3, <1>8, <3>3
  <2>9. level' = Depth(Text, k + 1) \/ level' = Depth(Text, k + 1) + Wrap
    <3> DEFINE opens  == Among(Text, k, ArrayBeginTag)
               closes == Among(Text, k, ArrayEndTag)
               d == Depth(Text, k)
    <3>1. /\ opens \in 0..k /\ closes \in 0..k /\ d = opens - closes
          /\ Among(Text, k + 1, ArrayBeginTag) = opens + (IF c = ArrayBeginTag THEN 1 ELSE 0)
          /\ Among(Text, k + 1, ArrayEndTag) = closes + (IF c = ArrayEndTag THEN 1 ELSE 0)
      <4>1. \A t : /\ Among(Text, k, t) \in 0..k
                   /\ Among(Text, k + 1, t) = Among(Text, k, t) + (IF Text[k + 1] = t THEN 1 ELSE 0)
        BY <1>4, AmongOneMore
      <4> QED  BY <1>5, <4>1 DEF Depth
    <3>2. ArrayBeginTag # ArrayEndTag
      BY SMT DEF ArrayBeginTag, ArrayEndTag
    <3> HIDE DEF opens, closes
    <3>3. /\ d \in Int /\ -k <= d /\ d <= k
          /\ Depth(Text, k + 1) = IF c = ArrayBeginTag THEN d + 1
                                  ELSE IF c = ArrayEndTag THEN d - 1
                                  ELSE d
      BY <1>4, <3>1, <3>2 DEF Depth
    <3>4. k + 1 < Wrap
      <4>1. /\ size <= BufferSize /\ BufferSize \in Nat /\ Wrap \in Nat
            /\ BufferSize <= Int32Max /\ Int32Max \in Nat /\ Int32Max < Wrap - 4
        BY BufferAssumption, Numbers DEF IInv, TypeOK
      <4> QED  BY <1>2, <1>3, <1>4, <4>1
    <3> HIDE DEF d
    <3>5. level = d \/ level = d + Wrap
      BY <1>2 DEF d
    <3>6. /\ (level + 1) % Wrap = d + 1 \/ (level + 1) % Wrap = d + 1 + Wrap
          /\ (level - 1) % Wrap = d - 1 \/ (level - 1) % Wrap = d - 1 + Wrap
      BY <1>4, <3>3, <3>4, <3>5, LevelTurns
    <3> HIDE DEF c
    <3> QED  BY <1>8, <3>3, <3>5, <3>6
  <2>10. InTags'
    <3>1. CASE k + 1 < Len(Text)
      <4>1. k + 1 + 1 = k + 2
        BY <1>4
      <4>2. SamePlace(cursor, Where[Len(checked) + 1])'
        BY <2>1, <2>2, <2>4, <2>7, <3>1, <4>1 DEF SamePlace
      <4> QED  BY <1>2, <1>8, <2>2, <2>4, <2>6, <2>7, <2>9, <3>1, <4>1, <4>2 DEF InTags
    <3>2. CASE ~(k + 1 < Len(Text))
      BY <1>2, <1>8, <2>2, <2>4, <2>6, <2>8, <2>9, <3>2 DEF InTags
    <3> QED  BY <3>1, <3>2
  <2>11. InArguments'
    BY <1>8 DEF InArguments
  <2> QED  BY <2>1, <2>3, <2>10, <2>11
<1> QED  BY <1>7, <1>8 DEF CheckTag

(* A sequence given by its elements, and one more of them. *)
LEMMA ElementsAppend ==
  ASSUME NEW S, NEW n \in Nat, NEW f, \A i \in 1..(n + 1) : f[i] \in S
  PROVE  Append([i \in 1..n |-> f[i]], f[n + 1]) = [i \in 1..(n + 1) |-> f[i]]
<1> DEFINE s == [i \in 1..n |-> f[i]]
           t == [i \in 1..(n + 1) |-> f[i]]
<1>1. s \in Seq(S) /\ Len(s) = n /\ \A i \in 1..n : s[i] = f[i]
  OBVIOUS
<1>2. t \in Seq(S) /\ Len(t) = n + 1 /\ \A i \in 1..(n + 1) : t[i] = f[i]
  OBVIOUS
<1>3. f[n + 1] \in S
  OBVIOUS
<1> HIDE DEF s, t
<1> DEFINE a == Append(s, f[n + 1])
<1>4. a \in Seq(S) /\ Len(a) = n + 1 /\ a[n + 1] = f[n + 1] /\ \A i \in 1..n : a[i] = s[i]
  BY <1>1, <1>3, AppendProperties
<1> HIDE DEF a
<1>5. \A i \in 1..(n + 1) : a[i] = t[i]
  BY <1>1, <1>2, <1>4
<1>6. a = t
  BY <1>2, <1>4, <1>5, SeqEqual
<1> QED  BY <1>6 DEF a, s, t

(* The values of a message, one by one. *)
LEMMA ValuesGrow ==
  ASSUME Text \in Seq(Bytes), NEW i \in 1..Len(Text)
  PROVE  /\ Append(Values(i - 1), ValueOf(Received, Text[i], Where[i])) = Values(i)
         /\ Values(0) = <<>>
<1> DEFINE v(j) == ValueOf(Received, Text[j], Where[j])
           S == {v(j) : j \in 1..Len(Text)}
           f == [j \in 1..Len(Text) |-> v(j)]
<1>1. Len(Text) \in Nat
  BY LenProperties
<1>2. \A j \in 1..Len(Text) : f[j] \in S /\ f[j] = v(j)
  OBVIOUS
<1>3. ASSUME NEW n \in 0..Len(Text)  PROVE Values(n) = [j \in 1..n |-> f[j]]
  <2>1. \A j \in 1..n : f[j] = v(j)
    BY <1>1, <1>2
  <2> HIDE DEF f
  <2> QED  BY <2>1 DEF Values
<1> HIDE DEF f, S, v
<1> DEFINE m == i - 1
<1>4. m \in Nat /\ m + 1 = i /\ m \in 0..Len(Text) /\ i \in 0..Len(Text)
  BY <1>1
<1> HIDE DEF m
<1>5. Append([j \in 1..m |-> f[j]], f[m + 1]) = [j \in 1..(m + 1) |-> f[j]]
  BY <1>1, <1>2, <1>4, ElementsAppend
<1>6. Append(Values(m), f[i]) = Values(i)
  BY <1>3, <1>4, <1>5
<1>7. Values(0) = <<>>
  <2>1. 1..0 = {}
    OBVIOUS
  <2>2. Values(0) \in Seq(S) /\ Len(Values(0)) = 0
    BY DEF Values
  <2> QED  BY <2>2, EmptySeq
<1> QED  BY <1>2, <1>6, <1>7 DEF m, v

(* All brackets are closed when the level is zero, though it is unsigned. *)
LEMMA TagsEndTells ==
  ASSUME IInv, Arrived, Expected, InMessage, InTags, TagsEnd
  PROVE  Arrived' /\ Expected' /\ InMessage' /\ InTags' /\ InArguments'
<1> DEFINE n == Len(Text)
<1>1. pc = "level"
  BY DEF TagsEnd
<1>2. /\ Tagged /\ Len(checked) = n /\ values = <<>>
      /\ level = Depth(Text, n) \/ level = Depth(Text, n) + Wrap
  BY <1>1 DEF InTags
<1>3. /\ Text \in Seq(Bytes) /\ n \in Nat /\ tags.begin \in Nat /\ size \in Nat
      /\ tags.begin + n < size
  BY <1>2, TextInBuffer
<1>4. level = 0 <=> Balanced(Text)
  <2> DEFINE opens  == Among(Text, n, ArrayBeginTag)
             closes == Among(Text, n, ArrayEndTag)
  <2>1. opens \in 0..n /\ closes \in 0..n
    BY <1>3, AmongOneMore
  <2>2. Balanced(Text) <=> opens = closes
    BY DEF Balanced, Count, Among
  <2>3. level = opens - closes \/ level = opens - closes + Wrap
    BY <1>2 DEF Depth
  <2> HIDE DEF opens, closes
  <2>4. n < Wrap /\ Wrap \in Nat
    <3>1. /\ size <= BufferSize /\ BufferSize \in Nat /\ Wrap \in Nat
          /\ BufferSize <= Int32Max /\ Int32Max \in Nat /\ Int32Max < Wrap - 4
      BY BufferAssumption, Numbers DEF IInv, TypeOK
    <3> HIDE DEF n
    <3> QED  BY <1>3, <3>1
  <2>5. n \in Nat
    BY <1>3
  <2> HIDE DEF n
  <2>6. level = 0 <=> opens = closes
    <3>1. level \in 0..(Wrap - 1)
      BY DEF IInv, TypeOK
    <3>2. CASE level = opens - closes
      BY <2>1, <2>4, <2>5, <3>1, <3>2
    <3>3. CASE level = opens - closes + Wrap
      BY <2>1, <2>4, <2>5, <3>1, <3>3
    <3> QED  BY <2>3, <3>2, <3>3
  <2> QED  BY <2>2, <2>6
<1>5. ASSUME level # 0, Throw
      PROVE  Arrived' /\ Expected' /\ InMessage' /\ InTags' /\ InArguments'
  <2>1. InHand = Refused
    BY <1>2, <1>4, <1>5 DEF Tagged, MessageWith
  <2>2. Expected'
    BY <1>1, <1>5, <2>1, ThrowMeans DEF Opening
  <2>3. Arrived' /\ pc' = "idle"
    BY <1>5, ArrivedKept DEF Throw
  <2> QED  BY <2>2, <2>3 DEF InMessage, InTags, InArguments
<1>6. ASSUME level = 0,
             tags' = [tags EXCEPT !.stop = tag], tag' = tags.begin, pc' = "convert",
             UNCHANGED <<input, stack, element, slots, level, checked, values, result>>
      PROVE  Arrived' /\ Expected' /\ InMessage' /\ InTags' /\ InArguments'
  <2>1. Arrived' /\ Received' = Received /\ from' = from /\ end' = end /\ InHand' = InHand
        /\ size' = size
    BY <1>6, ArrivedKept DEF element, InHand, input
  <2>2. /\ tags'.begin = tags.begin /\ tags'.stop = tag /\ tags'.arguments = tags.arguments
        /\ tag = tags.begin + n
    BY <1>1, <1>2, <1>6 DEF IInv, TypeOK, Arguments, Looking
  <2>3. Text' = Text /\ Where' = Where
    BY <2>1, <2>2 DEF Text, Where
  <2>4. Expected'
    BY <1>1, <1>6, ExpectedKept DEF Opening, result
  <2>5. InMessage' /\ InTags'
    BY <1>1, <1>6, <2>1 DEF InMessage, InTags
  <2>6. Tagged'
    BY <1>2, <1>6, <2>1, <2>2, <2>3 DEF Tagged, SamePlace
  <2>7. values' = Values(tag - tags.begin)'
    <3>1. tag' - tags'.begin = 0
      BY <1>3, <1>6, <2>2
    <3>2. Values(0) = <<>>
      <4>1. 1..0 = {}
        OBVIOUS
      <4>2. Values(0) \in Seq({}) /\ Len(Values(0)) = 0
        BY DEF Values
      <4> QED  BY <4>2, EmptySeq
    <3>3. Values(0)' = Values(0)
      BY <2>1, <2>3 DEF Values
    <3> QED  BY <1>2, <1>6, <3>1, <3>2, <3>3
  <2>8. tag' \in tags'.begin..tags'.stop
    <3> HIDE DEF n
    <3> QED  BY <1>3, <1>6, <2>2
  <2>9. InArguments'
    BY <1>2, <1>4, <1>6, <2>1, <2>2, <2>3, <2>6, <2>7, <2>8 DEF InArguments, Tagged
  <2> QED  BY <2>1, <2>4, <2>5, <2>9
<1> QED  BY <1>5, <1>6 DEF TagsEnd

(* The iterator is where the datagram has the argument, or both are outside. *)
LEMMA ArgumentToFind ==
  ASSUME IInv, Arrived, pc = "convert", tag # tags.stop, Tagged, Len(checked) = Len(Text)
  PROVE  LET i == tag - tags.begin + 1
         IN  i \in 1..Len(Text) /\ tags.begin + i - 1 = tag /\ SamePlace(cursor, Where[i])
<1> DEFINE i == tag - tags.begin + 1
<1>1. i \in 1..Len(Text) /\ tags.begin + i - 1 = tag /\ SameOrOutside(cursor, checked[i])
  BY ArgumentToConvert
<1> HIDE DEF i
<1>2. SamePlace(checked[i], Where[i])
  BY <1>1 DEF Tagged
<1>3. /\ end \in Nat /\ end <= BufferSize /\ BufferSize \in Nat
      /\ cursor \in Nat /\ checked[i] \in Nat
  <2>1. checked[i] \in Nat
    BY ArgumentToConvert DEF i
  <2> QED  BY <2>1, BufferAssumption DEF IInv, TypeOK, Opened
<1>4. SamePlace(cursor, Where[i])
  BY <1>1, <1>2, <1>3 DEF SamePlace, SameOrOutside
<1> QED  BY <1>1, <1>4 DEF i

(* The value of an argument is the one the datagram has for it. *)
LEMMA ConvertTells ==
  ASSUME IInv, Arrived, Expected, InMessage, InArguments, Convert
  PROVE  Arrived' /\ Expected' /\ InMessage' /\ InTags' /\ InArguments'
<1> DEFINE i == tag - tags.begin + 1
<1>1. /\ pc = "convert" /\ tag # tags.stop
      /\ values' = Append(values, ValueOf(buffer, B(tag), cursor))
      /\ tag' = tag + 1
      /\ UNCHANGED <<input, pc, stack, element, slots, tags, level, checked, result>>
  BY DEF Convert
<1>2. /\ Tagged /\ Balanced(Text) /\ Len(checked) = Len(Text) /\ tags.begin # Null
      /\ tags.stop = tags.begin + Len(Text) /\ tag \in tags.begin..tags.stop
      /\ values = Values(tag - tags.begin)
      /\ FindStr4End(Received, from, end) # Null
  BY <1>1 DEF InArguments
<1>3. /\ Text \in Seq(Bytes) /\ Len(Text) \in Nat /\ tags.begin \in Nat /\ size \in Nat
      /\ \A j \in 1..Len(Text) : Text[j] = B(tags.begin + j - 1)
  BY <1>2, TextInBuffer
<1>4. i \in 1..Len(Text) /\ tags.begin + i - 1 = tag /\ SamePlace(cursor, Where[i])
  BY <1>1, <1>2, ArgumentToFind
<1>5. tag \in Nat /\ i - 1 = tag - tags.begin /\ tag' - tags.begin = i
  BY <1>1, <1>3 DEF IInv, TypeOK
<1>6. tag' \in tags.begin..tags.stop
  <2> DEFINE n == Len(Text)
             b == tags.begin
             e == tags.stop
  <2>1. /\ n \in Nat /\ b \in Nat /\ e = b + n /\ tag \in b..e /\ tag # e /\ tag \in Nat
        /\ tag' = tag + 1
    BY <1>1, <1>2, <1>3, <1>5
  <2> HIDE DEF n, b, e
  <2>2. tag' \in b..e
    BY <2>1
  <2> QED  BY <2>2 DEF b, e
<1> HIDE DEF i
<1>7. B(tag) = Text[i]
  BY <1>3, <1>4
<1>8. HasRoom(Received, Text[i], Where[i], end)
  BY <1>2, <1>4 DEF Tagged
<1>9. ValueOf(buffer, B(tag), cursor) = ValueOf(Received, Text[i], Where[i])
  <2>1. /\ buffer \in Seq(Bytes) /\ size <= Len(buffer) /\ end \in Nat /\ end <= size
        /\ cursor \in Nat
    BY <1>1, <1>3, BufferAssumption DEF IInv, TypeOK, Opened
  <2>2. HasRoom(Received, B(tag), Where[i], end) /\ SamePlace(cursor, Where[i])
    BY <1>4, <1>7, <1>8
  <2>3. ValueOf(buffer, B(tag), cursor) = ValueOf(Received, B(tag), Where[i])
    BY <2>1, <2>2, SameValue
  <2> QED  BY <1>7, <2>3
<1>10. values' = Values(i)
  BY <1>1, <1>2, <1>3, <1>4, <1>5, <1>9, ValuesGrow
<1>11. Arrived' /\ Received' = Received /\ from' = from /\ end' = end /\ InHand' = InHand
       /\ size' = size /\ tags' = tags /\ checked' = checked /\ pc' = pc
  BY <1>1, ArrivedKept DEF element, InHand, input
<1>12. Text' = Text /\ Where' = Where
  BY <1>11 DEF Text, Where
<1>13. Expected'
  BY <1>1, ExpectedKept DEF Opening, result
<1>14. InMessage' /\ InTags'
  BY <1>1, <1>11 DEF InMessage, InTags
<1>15. Tagged'
  BY <1>2, <1>11, <1>12 DEF Tagged, SamePlace
<1>16. values' = Values(tag - tags.begin)'
  <2>1. Values(tag - tags.begin)' = Values(i)
    BY <1>5, <1>11, <1>12 DEF Values
  <2> QED  BY <1>10, <2>1
<1>17. InArguments'
  BY <1>2, <1>6, <1>11, <1>12, <1>15, <1>16 DEF InArguments
<1> QED  BY <1>11, <1>13, <1>14, <1>17

(* A message that is delivered is the one that the datagram has there. *)
LEMMA DeliverTells ==
  ASSUME IInv, Arrived, Expected, InArguments, Deliver
  PROVE  Arrived' /\ Expected' /\ pc' \in {"idle", "elements"}
<1>1. /\ pc = "convert" /\ tag = tags.stop
      /\ delivered' = Append(delivered, Delivered)
      /\ Continue(stack)
      /\ UNCHANGED <<input, parsing>>
  BY DEF Deliver
<1>2. /\ stack \in Seq(Frame) /\ FramesOK(stack) /\ Inside(stack)
      /\ from \in Nat /\ end \in Nat /\ from <= end /\ end <= size /\ size \in Nat
      /\ buffer \in Seq(Bytes) /\ size <= Len(buffer)
      /\ Received \in Seq(Bytes) /\ Len(Received) = size /\ SameBytes(Received, buffer, size)
  BY <1>1, BufferAssumption DEF IInv, TypeOK, Frames, Opened, Frame, Arrived
<1>3. CString(buffer, from) = CString(Received, from)
  <2>1. FindStr4End(Received, from, end) # Null
    BY <1>1 DEF InArguments
  <2>2. PICK q \in from..(end - 1) : Byte(Received, q) = 0
    BY <1>2, <2>1, FoundNul
  <2>3. q \in from..(size - 1) /\ size \in 0..Len(Received)
    BY <1>2
  <2> QED  BY <1>2, <2>2, <2>3, SameText
<1>4. InHand = Holds(Delivered)
  <2>1. CASE tags.begin = Null
    <3>1. values = <<>> /\ InHand = BareMessageAt(Received, from)
      BY <1>1, <2>1 DEF InArguments
    <3>2. Delivered = [address |-> CString(Received, from), typetag |-> <<>>, args |-> <<>>]
      BY <1>3, <2>1, <3>1 DEF Delivered
    <3> QED  BY <3>1, <3>2 DEF BareMessageAt
  <2>2. CASE tags.begin # Null
    <3>1. /\ Tagged /\ Balanced(Text) /\ Len(checked) = Len(Text)
          /\ tags.stop = tags.begin + Len(Text) /\ values = Values(tag - tags.begin)
      BY <1>1, <2>2 DEF InArguments
    <3>2. /\ CString(buffer, tags.begin) = Text /\ Len(Text) \in Nat /\ tags.begin \in Nat
      BY <3>1, TextInBuffer
    <3>3. values = Values(Len(Text))
      <4>1. tag - tags.begin = Len(Text)
        BY <1>1, <3>1, <3>2
      <4> QED  BY <3>1, <4>1
    <3>4. Delivered = [address |-> CString(Received, from), typetag |-> Text,
                       args |-> Values(Len(Text))]
      BY <1>3, <2>2, <3>2, <3>3 DEF Delivered
    <3>5. \A i \in 1..Len(Text) : HasRoom(Received, Text[i], Where[i], end)
      BY <3>1 DEF Tagged
    <3>6. InHand = MessageWith(Received, from, end, Text, Where)
      BY <3>1 DEF Tagged
    <3> QED  BY <3>1, <3>4, <3>5, <3>6 DEF MessageWith, Values
  <2> QED  BY <2>1, <2>2
<1>5. PICK rest \in Said(Received) :
        /\ Behind(stack, Len(stack), rest)
        /\ Meaning(Received) = FollowedBy(Sofar, FollowedBy(InHand, rest))
  BY <1>1 DEF Expected, Opening
<1>6. InHand \in Said(Received)
  <2>1. from \in 0..Len(Received) /\ end \in 0..Len(Received)
    BY <1>2
  <2> QED  BY <1>2, <2>1, ElementSays DEF InHand
<1>7. Sofar \in Said(Received)
  BY SofarType
<1>8. Meaning(Received) = FollowedBy(FollowedBy(Sofar, InHand), rest)
  BY <1>5, <1>6, <1>7, FollowedByAssociative DEF Said
<1> DEFINE m == Delivered
<1>9. InHand = [messages |-> <<m>>, ends |-> "done"]
  BY <1>4 DEF Holds
<1> HIDE DEF m
<1>10. delivered \in Seq(Messages(Received)) /\ m \in Messages(Received)
  <2>1. <<m>> \in Seq(Messages(Received))
    BY <1>6, <1>9 DEF Said, Result
  <2>2. 1 \in 1..Len(<<m>>) /\ <<m>>[1] = m
    OBVIOUS
  <2>3. m \in Messages(Received)
    BY <2>1, <2>2, ElementOfSeq
  <2> QED  BY <2>3 DEF Expected
<1>11. delivered' = delivered \o <<m>> /\ delivered' \in Seq(Messages(Received))
  <2>1. delivered' = Append(delivered, m)
    BY <1>1 DEF m
  <2> QED  BY <1>10, <2>1, AppendIsConcat, AppendProperties
<1>12. FollowedBy(Sofar, InHand) = [messages |-> delivered', ends |-> "done"]
  BY <1>9, <1>11 DEF FollowedBy, Sofar
<1>13. Meaning(Received) = FollowedBy([messages |-> delivered', ends |-> "done"], rest)
  BY <1>8, <1>12
<1>14. Expected'
  BY <1>1, <1>2, <1>5, <1>11, <1>13, ContinueMeans
<1>15. Arrived' /\ pc' \in {"idle", "elements"}
  BY <1>1, ArrivedKept DEF Continue
<1> QED  BY <1>14, <1>15

-----------------------------------------------------------------------------
(***************************************************************************)
(* Blobs that are looked for outside                                       *)
(***************************************************************************)
Strayed == pc = "crashed" => StrayBlob(Received, from, end)

(* A blob without room for its size is one that the datagram has there. *)
LEMMA AtStrayBlob ==
  ASSUME IInv, Arrived, InTags, InArguments, AtArgument, B(tag) = BlobTag, cursor + 4 > end
  PROVE  StrayBlob(Received, from, end)
<1>1. /\ end \in Nat /\ cursor \in Nat /\ tag \in Nat /\ checked \in Seq(Nat)
  BY DEF IInv, TypeOK
<1>2. PICK i \in 1..Len(Text) : tags.begin + i - 1 = tag /\ SamePlace(cursor, Where[i])
  <2>1. CASE pc = "tags"
    <3> DEFINE k == Len(checked)
    <3>1. Tagged /\ k < Len(Text) /\ SamePlace(cursor, Where[k + 1])
      BY <2>1 DEF InTags
    <3>2. k \in Nat /\ tag = tags.begin + k /\ tags.begin \in Nat
      BY <1>1, <2>1, LenProperties DEF IInv, TypeOK, Arguments, Looking
    <3>3. Len(Text) \in Nat
      BY <3>1, TextInBuffer
    <3> HIDE DEF k
    <3>4. k + 1 \in 1..Len(Text) /\ tags.begin + (k + 1) - 1 = tag
      BY <3>1, <3>2, <3>3
    <3> QED  BY <3>1, <3>4
  <2>2. CASE pc = "convert" /\ tag # tags.stop
    <3>1. Tagged /\ Len(checked) = Len(Text)
      BY <2>2 DEF InArguments
    <3> QED  BY <2>2, <3>1, ArgumentToFind
  <2> QED  BY <2>1, <2>2 DEF AtArgument
<1>3. Tagged
  BY DEF AtArgument, InTags, InArguments
<1>4. Text[i] = BlobTag
  BY <1>2, <1>3, TextInBuffer
<1>5. Where[i] + 4 > end
  BY <1>1, <1>2 DEF SamePlace
<1> QED
  BY <1>3, <1>4, <1>5 DEF StrayBlob, Tagged, Text, Where

(* Nothing but such a blob ends the program. *)
LEMMA CrashTells ==
  ASSUME IInv, Arrived, Expected, InTags, InArguments, Crash
  PROVE  Arrived' /\ Expected' /\ pc' = "crashed" /\ Strayed'
<1>1. /\ AtArgument /\ OutsideTheBuffer(tag, cursor) /\ pc' = "crashed"
      /\ UNCHANGED <<input, stack, parsing, result>>
  BY DEF Crash
<1>2. Arrived' /\ Received' = Received /\ from' = from /\ end' = end
  BY <1>1, ArrivedKept DEF parsing, element
<1>3. Expected'
  BY <1>1, ExpectedKept DEF AtArgument, Opening, parsing, result
<1>4. StrayBlob(Received, from, end)
  <2>1. end \in Nat /\ end <= BufferSize /\ BufferSize \in Nat /\ cursor \in Nat
    BY <1>1, BufferAssumption DEF AtArgument, IInv, TypeOK, Opened
  <2>2. B(tag) = BlobTag /\ cursor + 4 > end
    BY <1>1, <2>1 DEF OutsideTheBuffer
  <2> QED  BY <1>1, <2>2, AtStrayBlob
<1> QED
  BY <1>1, <1>2, <1>3, <1>4 DEF Strayed

-----------------------------------------------------------------------------
(***************************************************************************)
(* The parser and the meaning                                              *)
(***************************************************************************)
\* The whole invariant: what has arrived, what it means, and how far the element in
\* hand has been checked or converted.
Tells == Arrived /\ Expected /\ InBundle /\ InMessage /\ InTags /\ InArguments /\ Strayed

(* Before the first datagram there is none, and it says nothing. *)
LEMMA InitTells == ASSUME Init PROVE Tells
<1> USE DEF Init
<1>1. Received = <<>>
  BY SubSeqEmpty DEF Received
<1>2. <<>> \in Seq(Bytes) /\ Len(<<>>) = 0
  BY EmptySeq
<1>3. Arrived
  BY <1>1, <1>2 DEF Arrived, SameBytes
<1>4. Meaning(Received).messages = <<>>
  BY <1>1, <1>2 DEF Meaning, Refused, Silent
<1>5. <<>> \in Seq(Messages(Received))
  BY EmptySeq
<1>6. Expected
  BY <1>4, <1>5 DEF Expected, Opening
<1> QED  BY <1>3, <1>6 DEF Tells, InBundle, InMessage, InTags, InArguments, Strayed

(* The labels at which a step leaves nothing to say of an element. *)
LEMMA TellsElsewhere ==
  ASSUME Arrived', Expected', pc' \notin Opening
  PROVE  Tells'
  BY DEF Tells, InBundle, InMessage, InTags, InArguments, Strayed, Opening

(* Every step keeps to what the datagram says. *)
LEMMA TellsStep == ASSUME IInv, Tells, [Next]_vars PROVE Tells'
<1> USE DEF Tells
<1>1. CASE UNCHANGED vars
  <2>1. /\ Received' = Received /\ Text' = Text /\ Where' = Where /\ InHand' = InHand
        /\ \A n : Values(n)' = Values(n)
    BY <1>1 DEF Received, Text, Where, InHand, Values, vars, input, parsing, element, message
  <2>2. Arrived' /\ InBundle' /\ InMessage' /\ Strayed'
    BY <1>1, <2>1 DEF Arrived, InBundle, InMessage, Strayed, SameBytes, vars, input, parsing, element
  <2>3. Expected'
    <3>1. /\ delivered' = delivered /\ pc' = pc /\ received' = received /\ outcome' = outcome
          /\ stack' = stack /\ Top' = Top /\ Sofar' = Sofar
      BY <1>1 DEF vars, input, result, Top, Sofar
    <3>2. \A n, rest : Behind(stack, n, rest)' <=> Behind(stack, n, rest)
      BY <2>1, <3>1 DEF Behind
    <3> QED  BY <2>1, <3>1, <3>2 DEF Expected
  <2>4. Tagged' = Tagged
    BY <1>1, <2>1 DEF Tagged, SamePlace, vars, input, parsing, element, message
  <2>5. InTags' /\ InArguments'
    BY <1>1, <2>1, <2>4
       DEF InTags, InArguments, SamePlace, vars, input, parsing, element, message
  <2> QED  BY <2>2, <2>3, <2>5
<1>2. CASE Receive
  <2>1. pc' = "packet"
    BY <1>2 DEF Receive
  <2> QED  BY <1>2, <2>1, ReceiveTells, TellsElsewhere DEF Opening
<1>3. CASE ProcessPacket
  <2>1. pc' \in {"idle", "bundle", "message"}
    BY <1>3 DEF ProcessPacket, Throw, Open
  <2> QED  BY <1>3, <2>1, ProcessPacketTells DEF InTags, InArguments, Strayed
<1>4. CASE BundleHead
  <2>1. pc' \in {"idle", "slots"}
    BY <1>4 DEF BundleHead, Throw
  <2> QED  BY <1>4, <2>1, BundleHeadTells DEF InTags, InArguments, Strayed
<1>5. CASE Slot
  <2>1. pc' \in {"idle", "slots"}
    BY <1>5 DEF Slot, Throw
  <2> QED  BY <1>5, <2>1, SlotTells DEF InTags, InArguments, Strayed
<1>6. CASE SlotsEnd
  <2>1. pc' = "elements"
    BY <1>6 DEF SlotsEnd
  <2> QED  BY <1>6, <2>1, SlotsEndTells DEF InTags, InArguments, Strayed
<1>7. CASE Element
  <2>1. pc' \in {"bundle", "message"}
    BY <1>7 DEF Element, Open
  <2> QED  BY <1>7, <2>1, ElementTells DEF InTags, InArguments, Strayed
<1>8. CASE BundleEnd
  <2>1. pc' \in {"idle", "elements"}
    BY <1>8 DEF BundleEnd, Continue
  <2> QED  BY <1>8, <2>1, BundleEndTells DEF InTags, InArguments, Strayed
<1>9. CASE MessageHead
  <2>1. pc' \in {"idle", "tags", "convert"}
    BY <1>9 DEF MessageHead, Throw, BareMessage, TaggedMessage
  <2> QED  BY <1>9, <2>1, MessageHeadTells DEF InBundle, Strayed
<1>10. CASE CheckTag
  <2>1. pc' \in {"idle", "tags", "level"}
    BY <1>10 DEF CheckTag, Throw
  <2> QED  BY <1>10, <2>1, CheckTagTells DEF InBundle, Strayed
<1>11. CASE TagsEnd
  <2>1. pc' \in {"idle", "convert"}
    BY <1>11 DEF TagsEnd, Throw
  <2> QED  BY <1>11, <2>1, TagsEndTells DEF InBundle, Strayed
<1>12. CASE Convert
  <2>1. pc' = "convert"
    BY <1>12 DEF Convert
  <2> QED  BY <1>12, <2>1, ConvertTells DEF InBundle, Strayed
<1>13. CASE Deliver
  <2>1. Arrived' /\ Expected' /\ pc' \in {"idle", "elements"}
    BY <1>13, DeliverTells
  <2> QED  BY <2>1, TellsElsewhere DEF Opening
<1>14. CASE Crash
  BY <1>14, CrashTells DEF InBundle, InMessage, InTags, InArguments
<1> QED
  BY <1>1, <1>2, <1>3, <1>4, <1>5, <1>6, <1>7, <1>8, <1>9, <1>10, <1>11, <1>12, <1>13, <1>14
     DEF Next, Run

(* The parser is always where the datagram says. *)
THEOREM Telling == Spec => []Tells
<1>1. IInv /\ Tells /\ [Next]_vars => Tells'
  BY TellsStep
<1> QED
  BY InitTells, <1>1, Invariant, PTL DEF Spec

(* What has been delivered is where the meaning of the datagram begins. *)
LEMMA DeliveredLeads ==
  ASSUME IInv, Tells
  PROVE  LET ms == Meaning(Received).messages
         IN  Len(delivered) <= Len(ms) /\ delivered = SubSeq(ms, 1, Len(delivered))
<1> DEFINE M == Messages(Received)
           said == Meaning(Received)
           n == Len(delivered)
<1>1. delivered \in Seq(M) /\ n \in Nat
  BY LenProperties DEF Tells, Expected
<1>2. ASSUME NEW t \in Seq(M), said.messages = delivered \o t
      PROVE  n <= Len(said.messages) /\ delivered = SubSeq(said.messages, 1, n)
  <2>1. Len(t) \in Nat /\ Len(delivered \o t) = n + Len(t)
    BY <1>1, LenProperties, ConcatProperties
  <2>2. SubSeq(delivered \o t, 1, n) = delivered
    <3>1. CASE n = 0
      <4>1. delivered = <<>>
        BY <1>1, <3>1, EmptySeq
      <4>2. SubSeq(delivered \o t, 1, 0) = <<>>
        BY SubSeqEmpty
      <4> QED  BY <3>1, <4>1, <4>2
    <3>2. CASE n # 0
      <4>1. 1 \in 1..n /\ n \in 1..n
        BY <1>1, <3>2
      <4>2. SubSeq(delivered \o t, 1, n) = SubSeq(delivered, 1, n)
        BY <1>1, <4>1, SubSeqOfConcat1
      <4>3. SubSeq(delivered, 1, n) = delivered
        BY <1>1, SubSeqFull
      <4> QED  BY <4>2, <4>3
    <3> QED  BY <3>1, <3>2
  <2> HIDE DEF n, said
  <2> QED  BY <1>1, <1>2, <2>1, <2>2
<1>3. ASSUME NEW x, x \in Said(Received), said = FollowedBy(Sofar, x)
      PROVE  \E t \in Seq(M) : said.messages = delivered \o t
  <2>1. said.messages = delivered \o x.messages
    BY <1>3 DEF FollowedBy, Sofar
  <2>2. x.messages \in Seq(M)
    BY <1>3 DEF Said, Result
  <2> QED  BY <2>1, <2>2
<1>4. \A x \in Said(Received), y \in Said(Received) : FollowedBy(x, y) \in Said(Received)
  BY FollowedByType DEF Said
<1>5. CASE pc = "idle"
  <2>1. said.messages = delivered \o <<>>
    BY <1>1, <1>5, ConcatEmptySeq DEF Tells, Expected
  <2>2. <<>> \in Seq(M)
    BY EmptySeq
  <2> HIDE DEF said, n
  <2> QED  BY <1>2, <2>1, <2>2 DEF said, n
<1>6. CASE pc = "packet"
  <2>1. delivered = <<>>
    BY <1>6 DEF Tells, Expected
  <2>2. said \in Said(Received)
    <3>2. Refused \in Said(Received)
      BY SilentType DEF Refused, Said, Ends
    <3>3. Received \in Seq(Bytes) /\ 0 \in 0..Len(Received) /\ Len(Received) \in 0..Len(Received)
      BY LenProperties DEF Tells, Arrived
    <3>4. ElementAt(Received, 0, Len(Received), Contents(Received)) \in Said(Received)
      BY <3>3, ElementSays
    <3> QED  BY <3>2, <3>4 DEF Meaning
  <2>3. said.messages \in Seq(M)
    BY <2>2 DEF Said, Result
  <2>4. said.messages = delivered \o said.messages
    BY <2>1, <2>3, ConcatEmptySeq
  <2> HIDE DEF said, n
  <2> QED  BY <1>2, <2>3, <2>4 DEF said, n
<1>7. CASE pc \in Opening
  <2>1. PICK rest \in Said(Received) : said = FollowedBy(Sofar, FollowedBy(InHand, rest))
    BY <1>7 DEF Tells, Expected
  <2>2. InHand \in Said(Received)
    <3>1. from \in 0..Len(Received) /\ end \in 0..Len(Received) /\ Received \in Seq(Bytes)
      BY <1>7 DEF Tells, Arrived, IInv, TypeOK, Opened, Opening
    <3> QED  BY <3>1, ElementSays DEF InHand
  <2>3. \E t \in Seq(M) : said.messages = delivered \o t
    BY <1>3, <1>4, <2>1, <2>2
  <2> HIDE DEF said, n
  <2> QED  BY <1>2, <2>3 DEF said, n
<1>8. CASE pc = "elements"
  <2> DEFINE left == From(Received, Top.at, Top.end)
  <2>1. PICK rest \in Said(Received) : said = FollowedBy(Sofar, FollowedBy(left, rest))
    BY <1>8 DEF Tells, Expected
  <2>2. left \in Said(Received)
    <3>1. stack \in Seq(Frame) /\ stack # <<>> /\ Received \in Seq(Bytes) /\ Len(Received) = size
          /\ size \in Nat
      BY <1>8 DEF IInv, TypeOK, Frames, Frame, Tells, Arrived
    <3>2. Len(stack) \in 1..Len(stack)
      BY <3>1, LenProperties, EmptySeq
    <3>3. Top \in Frame /\ FrameOK(Top)
      BY <3>1, <3>2, ElementOfSeq DEF Top, IInv, Frames, FramesOK
    <3>4. Top.at \in Nat /\ Top.end \in Nat /\ Top.end <= size /\ Top.at <= Top.end
      <4>1. Top.at \in Nat /\ Top.end \in Nat /\ Top.end <= size
        BY <3>3 DEF Frame, FrameOK
      <4>2. CASE Top.at \in Top.slots
        <5>1. Top.at < NextSlot(Top.at) /\ NextSlot(Top.at) <= Top.end
          BY <3>3, <4>2 DEF FrameOK, SlotsLead
        <5>2. NextSlot(Top.at) \in Nat
          BY <4>1, NextSlotType DEF IInv
        <5> QED  BY <4>1, <5>1, <5>2
      <4>3. CASE Top.at = Top.end
        BY <4>1, <4>3
      <4> QED  BY <3>3, <4>1, <4>2, <4>3 DEF FrameOK
    <3>5. Top.at \in 0..Len(Received) /\ Top.end \in 0..Len(Received)
      BY <3>1, <3>4
    <3> QED  BY <3>1, <3>5, FromSlot
  <2>3. \E t \in Seq(M) : said.messages = delivered \o t
    BY <1>3, <1>4, <2>1, <2>2
  <2> HIDE DEF said, n
  <2> QED  BY <1>2, <2>3 DEF said, n
<1> QED
  BY <1>5, <1>6, <1>7, <1>8 DEF IInv, TypeOK, Labels, Opening

(***************************************************************************)
(* Of a datagram, whatever its bytes are and whatever the buffer held      *)
(* before, ProcessPacket gives the receiver nothing but the messages that  *)
(* the datagram means, in its order.  When it is through, it has given all *)
(* of them up to the first fault, and has thrown if and only if there is   *)
(* one; a datagram whose first fault is an endless slot it is never        *)
(* through with.  What lies behind the buffer, where sizes of blobs may be *)
(* read, has no say in it.                                                 *)
(***************************************************************************)
THEOREM DeliversTheMeaning == Spec => []DeliversUpToTheFault
<1>1. ASSUME IInv, Tells  PROVE DeliversUpToTheFault
  <2>1. LET ms == Meaning(Received).messages
        IN  Len(delivered) <= Len(ms) /\ delivered = SubSeq(ms, 1, Len(delivered))
    BY <1>1, DeliveredLeads
  <2>2. ASSUME pc = "idle", received > 0
        PROVE  delivered = Meaning(Received).messages /\ outcome = Meaning(Received).ends
    BY <1>1, <2>2 DEF Tells, Expected
  <2> QED  BY <2>1, <2>2 DEF DeliversUpToTheFault
<1> QED
  BY <1>1, Invariant, Telling, PTL

(* Only a blob of which not even the size lies in its message is looked    *)
(* for outside of the message, and only such a blob ends the program:      *)
(* whatever is received and whatever memory holds, the two errors that are *)
(* constructed and not thrown let nothing else out.                        *)
THEOREM StaysInMemory == Spec => []OnlyStrayBlobsAreReadOutside
<1>1. ASSUME IInv, Tells  PROVE OnlyStrayBlobsAreReadOutside
  BY <1>1, AtStrayBlob DEF Tells, Strayed, OnlyStrayBlobsAreReadOutside
<1> QED
  BY <1>1, Invariant, Telling, PTL
====
