-------------------------- MODULE PacketStream_proofs --------------------------
(***************************************************************************)
(* What the operations of an OutboundPacketStream preserve, whatever the   *)
(* capacity of the buffer and the lengths they are given: they never write *)
(* outside it, the slots of the open elements keep leading downwards, and  *)
(* what is closed can be read.                                             *)
(***************************************************************************)
EXTENDS PacketStream, TLAPS, WellFoundedInduction

-----------------------------------------------------------------------------
(* Rounding up adds at most 3 and is monotone. *)
LEMMA RoundUp4Property ==
  ASSUME NEW n \in Nat
  PROVE  /\ RoundUp4(n) \in Nat
         /\ n <= RoundUp4(n)
         /\ RoundUp4(n) <= n + 3
         /\ RoundUp4(n) % 4 = 0
         /\ \A m \in Nat : m <= n => RoundUp4(m) <= RoundUp4(n)
BY DEF RoundUp4

(* An address takes a positive number of 32 bit words. *)
LEMMA AddressProperty ==
  ASSUME NEW length \in Nat
  PROVE  /\ RoundUp4(length + 1) \in Nat
         /\ RoundUp4(length + 1) % 4 = 0
         /\ RoundUp4(length + 1) >= 4
BY DEF RoundUp4

(* Sums and differences of whole words are whole words. *)
LEMMA WholeWords ==
  ASSUME NEW m \in Nat, NEW n \in Nat, m % 4 = 0, n % 4 = 0
  PROVE  /\ (m + n) % 4 = 0
         /\ n <= m => (m - n) % 4 = 0
         /\ n + 4 <= m => m - n - 4 \in Nat /\ (m - n - 4) % 4 = 0
OBVIOUS

-----------------------------------------------------------------------------
(***************************************************************************)
(* The inductive invariant of a packet.  The slots of the open elements    *)
(* are a set S that is closed under following the offsets they hold; every *)
(* offset leads downwards, and every slot lies below the cursor.           *)
(***************************************************************************)
IsPacket(p) == p.end \in Nat /\ p \in Packet(p.end)

Fits(p) ==
  /\ Size(p) <= p.end
  /\ p.cursor <= p.args
  /\ p.inMessage => p.args + p.tags < p.end

SlotsOf(p, S) ==
  /\ p.element # 0 => p.element \in S
  /\ \A o \in S :
       /\ o + 4 <= p.cursor
       /\ p.words[o] < o
       /\ p.words[o] # 0 => p.words[o] \in S

Nested(p) == \E S \in SUBSET (0..p.end) : SlotsOf(p, S)

PacketInv(p) == IsPacket(p) /\ Fits(p) /\ Nested(p)

(* The fields of a packet and the offsets of its buffer. *)
LEMMA PacketFields ==
  ASSUME NEW p, IsPacket(p)
  PROVE  /\ p.end \in Nat
         /\ p.args \in 0..p.end /\ p.cursor \in 0..p.end /\ p.tags \in 0..p.end
         /\ p.inMessage \in BOOLEAN /\ p.isOpen \in BOOLEAN
         /\ p.element \in 0..p.end
         /\ p.words \in [0..p.end -> Nat] /\ p.heads \in [0..p.end -> Nat]
         /\ p.depth \in Int /\ p.lists \in [0..p.end -> List]
BY DEF IsPacket, Packet

(* The constructor establishes the invariant. *)
LEMMA NewPacketInv ==
  ASSUME NEW capacity \in Nat, NEW p, p = NewPacket(capacity)
  PROVE  /\ PacketInv(p) /\ p.end = capacity
         /\ p.cursor = 0 /\ p.args = 0 /\ p.element = 0 /\ ~p.isOpen /\ ~p.inMessage
<1>1. /\ p.end = capacity /\ p.args = 0 /\ p.cursor = 0 /\ p.tags = 0
      /\ p.inMessage = FALSE /\ p.isOpen = FALSE /\ p.element = 0
  BY DEF NewPacket
<1>2. IsPacket(p)
  BY <1>1 DEF NewPacket, IsPacket, Packet, Unwritten, NoLists, List
<1>3. Fits(p)
  BY <1>1 DEF Fits, Size
<1>4. SlotsOf(p, {})
  BY <1>1 DEF SlotsOf
<1> QED  BY <1>1, <1>2, <1>3, <1>4 DEF PacketInv, Nested

-----------------------------------------------------------------------------
(***************************************************************************)
(* What each operation makes of the fields of a packet.                    *)
(***************************************************************************)
\* The element opened at the cursor is the innermost one, and its slot, if it has one,
\* holds the slot of the element around it.
Linked(p, q) ==
  /\ q.end = p.end /\ q.isOpen = TRUE
  /\ q.element = (IF p.isOpen THEN p.cursor ELSE 0)
  /\ q.words = (IF p.isOpen THEN [p.words EXCEPT ![p.cursor] = p.element] ELSE p.words)
  /\ q.lists = p.lists

\* Where that element begins, and what with.
StartAt(p) == p.cursor + SlotSize(p)

BundleStarts(p, q) == q.heads = [p.heads EXCEPT ![StartAt(p)] = BundleHead]

MessageStarts(p, q, length) ==
  q.heads = [p.heads EXCEPT ![StartAt(p)] = RoundUp4(length + 1)]

LEMMA BeginElementFields ==
  ASSUME NEW p, IsPacket(p), p.cursor + SlotSize(p) <= p.end, NEW b, b = BeginElement(p)
  PROVE  /\ IsPacket(b) /\ Linked(p, b)
         /\ b.cursor = p.cursor + SlotSize(p) /\ b.args = p.args /\ b.tags = p.tags
         /\ b.inMessage = p.inMessage /\ b.heads = p.heads
<1>1. CASE p.isOpen
  <2>1. b = [p EXCEPT !.words[p.cursor] = p.element, !.element = p.cursor, !.cursor = @ + 4]
    BY <1>1 DEF BeginElement
  <2>2. p.cursor + 4 \in 0..p.end
    BY <1>1, PacketFields DEF SlotSize
  <2>3. /\ b.end = p.end /\ b.cursor = p.cursor + 4 /\ b.args = p.args /\ b.tags = p.tags
        /\ b.inMessage = p.inMessage /\ b.isOpen = p.isOpen /\ b.element = p.cursor
        /\ b.words = [p.words EXCEPT ![p.cursor] = p.element] /\ b.heads = p.heads
        /\ b.lists = p.lists /\ b.depth = p.depth
    BY <2>1 DEF IsPacket, Packet
  <2>4. b.words \in [0..p.end -> Nat]
    BY <2>3, PacketFields
  <2>5. b \in Packet(p.end)
    BY <2>1, <2>2, <2>3, <2>4, PacketFields DEF IsPacket, Packet
  <2> QED  BY <1>1, <2>3, <2>5, PacketFields DEF SlotSize, IsPacket, Linked
<1>2. CASE ~p.isOpen
  <2>1. b = [p EXCEPT !.isOpen = TRUE, !.element = 0]
    BY <1>2 DEF BeginElement
  <2>2. 0 \in 0..p.end /\ p.cursor + SlotSize(p) = p.cursor
    BY <1>2, PacketFields DEF SlotSize
  <2> QED  BY <1>2, <2>1, <2>2 DEF IsPacket, Packet, Linked
<1> QED  BY <1>1, <1>2

LEMMA BeginBundleFields ==
  ASSUME NEW p, PacketInv(p), ~p.inMessage, BundleFits(p), NEW q, q = BeginBundle(p)
  PROVE  /\ IsPacket(q) /\ Linked(p, q)
         /\ StartAt(p) \in Nat /\ p.cursor <= StartAt(p) /\ StartAt(p) + 16 <= p.end
         /\ q.cursor = StartAt(p) + 16 /\ q.args = q.cursor /\ q.inMessage = FALSE
         /\ BundleStarts(p, q)
<1> DEFINE b == BeginElement(p)
<1>1. /\ IsPacket(p) /\ p.cursor <= p.args
      /\ p.end \in Nat /\ p.args \in Nat /\ p.cursor \in Nat
      /\ p.args + SlotSize(p) + 16 <= p.end
      /\ SlotSize(p) \in Nat
  BY PacketFields DEF PacketInv, Fits, BundleFits, Size, SlotSize
<1>2. StartAt(p) \in Nat /\ p.cursor <= StartAt(p) /\ StartAt(p) + 16 <= p.end
  BY <1>1 DEF StartAt
<1>3. /\ IsPacket(b) /\ Linked(p, b)
      /\ b.cursor = StartAt(p) /\ b.inMessage = p.inMessage /\ b.heads = p.heads
  <2>1. p.cursor + SlotSize(p) <= p.end
    BY <1>1
  <2> QED  BY <1>1, <2>1, BeginElementFields DEF StartAt
<1>4. q = [b EXCEPT !.heads[b.cursor] = BundleHead,
                    !.cursor = b.cursor + 16, !.args = b.cursor + 16]
  BY DEF BeginBundle
<1> HIDE DEF b
<1>5. /\ IsPacket(q)
      /\ q.end = b.end /\ q.isOpen = b.isOpen /\ q.element = b.element /\ q.words = b.words
      /\ q.cursor = b.cursor + 16 /\ q.args = b.cursor + 16 /\ q.inMessage = b.inMessage
      /\ q.heads = [b.heads EXCEPT ![b.cursor] = BundleHead] /\ q.lists = b.lists
  <2>1. b.cursor + 16 \in 0..b.end
    BY <1>1, <1>2, <1>3 DEF Linked
  <2>2. /\ q.end = b.end /\ q.isOpen = b.isOpen /\ q.element = b.element /\ q.words = b.words
        /\ q.cursor = b.cursor + 16 /\ q.args = b.cursor + 16
        /\ q.inMessage = b.inMessage /\ q.tags = b.tags
        /\ q.heads = [b.heads EXCEPT ![b.cursor] = BundleHead]
        /\ q.lists = b.lists /\ q.depth = b.depth
    BY <1>3, <1>4 DEF IsPacket, Packet
  <2>3. q.heads \in [0..b.end -> Nat]
    BY <1>3, <2>2, PacketFields DEF BundleHead
  <2>4. q \in Packet(b.end)
    BY <1>3, <1>4, <2>1, <2>2, <2>3, PacketFields DEF IsPacket, Packet
  <2> QED  BY <1>3, <2>2, <2>4, PacketFields DEF IsPacket
<1> QED  BY <1>2, <1>3, <1>5, PacketFields DEF Linked, BundleStarts, PacketInv

LEMMA BeginMessageFields ==
  ASSUME NEW p, PacketInv(p), ~p.inMessage, NEW length \in Nat, MessageFits(p, length),
         NEW q, q = BeginMessage(p, length)
  PROVE  /\ IsPacket(q) /\ Linked(p, q)
         /\ RoundUp4(length + 1) \in Nat
         /\ StartAt(p) \in Nat /\ p.cursor <= StartAt(p)
         /\ StartAt(p) + RoundUp4(length + 1) + 4 <= p.end
         /\ q.cursor = StartAt(p) + RoundUp4(length + 1) /\ q.args = q.cursor
         /\ q.inMessage /\ q.tags = 0 /\ q.depth = 0
         /\ MessageStarts(p, q, length)
<1> DEFINE b == BeginElement(p)
           address == RoundUp4(length + 1)
<1>1. address \in Nat
  BY AddressProperty
<1>2. MessageFits(p, length) = (Size(p) + SlotSize(p) + address + 4 <= p.end)
  BY DEF MessageFits
<1> HIDE DEF address
<1>3. /\ IsPacket(p) /\ p.cursor <= p.args
      /\ p.end \in Nat /\ p.args \in Nat /\ p.cursor \in Nat
      /\ p.args + SlotSize(p) + address + 4 <= p.end
      /\ SlotSize(p) \in Nat
  BY <1>1, <1>2, PacketFields DEF PacketInv, Fits, Size, SlotSize
<1>4. StartAt(p) \in Nat /\ p.cursor <= StartAt(p) /\ StartAt(p) + address + 4 <= p.end
  BY <1>1, <1>3 DEF StartAt
<1>5. /\ IsPacket(b) /\ Linked(p, b)
      /\ b.cursor = StartAt(p) /\ b.heads = p.heads
  <2>1. p.cursor + SlotSize(p) <= p.end
    BY <1>1, <1>3
  <2> QED  BY <1>3, <2>1, BeginElementFields DEF StartAt
<1>6. q = [b EXCEPT !.heads[b.cursor] = address,
                    !.cursor = b.cursor + address, !.args = b.cursor + address,
                    !.tags = 0, !.depth = 0, !.inMessage = TRUE]
  BY DEF BeginMessage, address
<1> HIDE DEF b
<1>7. /\ IsPacket(q)
      /\ q.end = b.end /\ q.isOpen = b.isOpen /\ q.element = b.element /\ q.words = b.words
      /\ q.cursor = b.cursor + address /\ q.args = b.cursor + address
      /\ q.inMessage = TRUE /\ q.tags = 0 /\ q.depth = 0 /\ q.lists = b.lists
      /\ q.heads = [b.heads EXCEPT ![b.cursor] = address]
  <2>1. b.cursor + address \in 0..b.end /\ 0 \in 0..b.end /\ 0 \in Int
    BY <1>1, <1>3, <1>4, <1>5 DEF Linked
  <2>2. /\ q.end = b.end /\ q.isOpen = b.isOpen /\ q.element = b.element /\ q.words = b.words
        /\ q.cursor = b.cursor + address /\ q.args = b.cursor + address
        /\ q.inMessage = TRUE /\ q.tags = 0 /\ q.depth = 0 /\ q.lists = b.lists
        /\ q.heads = [b.heads EXCEPT ![b.cursor] = address]
    BY <1>5, <1>6 DEF IsPacket, Packet
  <2>3. q.heads \in [0..b.end -> Nat]
    BY <1>1, <1>5, <2>2, PacketFields
  <2> DEFINE c == [b EXCEPT !.heads[b.cursor] = address,
                            !.cursor = b.cursor + address, !.args = b.cursor + address]
  <2>4. c \in Packet(b.end)
    <3>1. [b.heads EXCEPT ![b.cursor] = address] \in [0..b.end -> Nat]
      BY <2>2, <2>3
    <3> QED  BY <1>5, <2>1, <3>1 DEF IsPacket, Packet
  <2>5. q = [c EXCEPT !.tags = 0, !.depth = 0, !.inMessage = TRUE]
    BY <1>5, <1>6, <2>4 DEF IsPacket, Packet
  <2>6. q \in Packet(b.end)
    <3> HIDE DEF c
    <3> QED  BY <2>1, <2>4, <2>5 DEF Packet
  <2> QED  BY <1>5, <2>2, <2>6, PacketFields DEF IsPacket
<1> QED  BY <1>1, <1>4, <1>5, <1>7 DEF Linked, MessageStarts, address

\* What closing an element at the offset "end" makes of the slots.
Unlinked(p, end, q) ==
  /\ q.end = p.end
  /\ IF p.element # 0
       THEN /\ q.isOpen = p.isOpen
            /\ q.element = p.words[p.element]
            /\ q.words = [p.words EXCEPT ![p.element] = end - p.element - 4]
       ELSE /\ q.isOpen = FALSE /\ q.element = 0
            /\ q.words = p.words
  /\ q.heads = p.heads

LEMMA EndElementFields ==
  ASSUME NEW p, IsPacket(p), Nested(p), NEW q, q = EndElement(p)
  PROVE  /\ IsPacket(q) /\ Unlinked(p, p.cursor, q)
         /\ q.cursor = p.cursor /\ q.args = p.args /\ q.tags = p.tags
         /\ q.inMessage = p.inMessage /\ q.lists = p.lists /\ q.depth = p.depth
<1>1. CASE p.element # 0
  <2>1. q = [p EXCEPT !.words[p.element] = p.cursor - p.element - 4,
                      !.element = p.words[p.element]]
    BY <1>1 DEF EndElement
  <2>2. /\ p.element \in 0..p.end
        /\ p.cursor - p.element - 4 \in Nat
        /\ p.words[p.element] \in 0..p.end
    BY <1>1, PacketFields DEF Nested, SlotsOf
  <2>3. /\ q.end = p.end /\ q.cursor = p.cursor /\ q.args = p.args /\ q.tags = p.tags
        /\ q.inMessage = p.inMessage /\ q.isOpen = p.isOpen
        /\ q.element = p.words[p.element]
        /\ q.words = [p.words EXCEPT ![p.element] = p.cursor - p.element - 4]
        /\ q.heads = p.heads /\ q.lists = p.lists /\ q.depth = p.depth
    BY <2>1 DEF IsPacket, Packet
  <2>4. q.words \in [0..p.end -> Nat]
    BY <2>2, <2>3, PacketFields
  <2>5. q \in Packet(p.end)
    BY <2>1, <2>2, <2>3, <2>4, PacketFields DEF IsPacket, Packet
  <2> QED  BY <1>1, <2>3, <2>5, PacketFields DEF IsPacket, Unlinked
<1>2. CASE p.element = 0
  <2>1. q = [p EXCEPT !.isOpen = FALSE]
    BY <1>2 DEF EndElement
  <2> QED  BY <1>2, <2>1 DEF IsPacket, Packet, Unlinked
<1> QED  BY <1>1, <1>2

\* A tag is added, and an argument of some bytes.
Appended(p, q, bytes) ==
  /\ q.end = p.end
  /\ q.args = p.args + bytes /\ q.tags = p.tags + 1 /\ q.cursor = p.cursor
  /\ q.inMessage = p.inMessage /\ q.isOpen = p.isOpen /\ q.element = p.element
  /\ q.words = p.words /\ q.heads = p.heads /\ q.lists = p.lists

LEMMA AddArgumentFields ==
  ASSUME NEW p, IsPacket(p), NEW bytes \in Nat, ArgumentFits(p, bytes),
         NEW q, q = AddArgument(p, bytes)
  PROVE  IsPacket(q) /\ Appended(p, q, bytes) /\ q.depth = p.depth
<1>1. p.args \in Nat /\ p.tags \in Nat /\ p.tags + 3 \in Nat /\ p.end \in Nat
  BY PacketFields
<1>2. RoundUp4(p.tags + 3) \in Nat /\ p.tags + 3 <= RoundUp4(p.tags + 3)
  BY <1>1, RoundUp4Property
<1>3. p.args + bytes \in 0..p.end /\ p.tags + 1 \in 0..p.end
  BY <1>1, <1>2 DEF ArgumentFits
<1>4. q = [p EXCEPT !.args = p.args + bytes, !.tags = p.tags + 1]
  BY DEF AddArgument
<1>5. /\ q.args = p.args + bytes /\ q.tags = p.tags + 1 /\ q.cursor = p.cursor
      /\ q.end = p.end /\ q.inMessage = p.inMessage /\ q.isOpen = p.isOpen
      /\ q.element = p.element /\ q.words = p.words /\ q.heads = p.heads
      /\ q.lists = p.lists /\ q.depth = p.depth
  BY <1>4 DEF IsPacket, Packet
<1>6. q \in Packet(p.end)
  BY <1>3, <1>4, <1>5, PacketFields DEF IsPacket, Packet
<1> QED  BY <1>1, <1>5, <1>6 DEF IsPacket, Appended

LEMMA AddBracketFields ==
  ASSUME NEW p, IsPacket(p), NEW level \in Int, ArgumentFits(p, 0),
         NEW q, q = AddBracket(p, level)
  PROVE  IsPacket(q) /\ Appended(p, q, 0) /\ q.depth = p.depth + level
<1> DEFINE a == AddArgument(p, 0)
<1>1. IsPacket(a) /\ Appended(p, a, 0) /\ a.depth = p.depth
  BY AddArgumentFields
<1>2. q = [a EXCEPT !.depth = @ + level]
  BY DEF AddBracket
<1> HIDE DEF a
<1>3. /\ q.args = a.args /\ q.tags = a.tags /\ q.cursor = a.cursor
      /\ q.end = a.end /\ q.inMessage = a.inMessage /\ q.isOpen = a.isOpen
      /\ q.element = a.element /\ q.words = a.words /\ q.heads = a.heads
      /\ q.lists = a.lists /\ q.depth = a.depth + level
  BY <1>1, <1>2 DEF IsPacket, Packet
<1>4. q.depth \in Int
  BY <1>1, <1>3, PacketFields
<1>5. IsPacket(q)
  BY <1>1, <1>2, <1>3, <1>4 DEF IsPacket, Packet
<1> QED  BY <1>1, <1>3, <1>5 DEF Appended

\* What closing a message at the offset "to" leaves behind its address.
Listed(p, to, q) ==
  q.lists = [p.lists EXCEPT ![p.cursor] = [size |-> to - p.cursor, balanced |-> p.depth = 0]]

\* The cursor, raised past the tags, is where the message ends.
LEMMA EndMessageFields ==
  ASSUME NEW p, PacketInv(p), p.inMessage, NEW q, q = EndMessage(p)
  PROVE  /\ IsPacket(q) /\ Unlinked(p, Size(p), q)
         /\ Size(p) \in Nat /\ p.args < Size(p)
         /\ Size(p) = p.args + RoundUp4(p.tags + 2) /\ RoundUp4(p.tags + 2) % 4 = 0
         /\ q.cursor = Size(p) /\ q.args = Size(p) /\ q.tags = 0 /\ q.inMessage = FALSE
         /\ Listed(p, Size(p), q)
<1> DEFINE end == p.args + RoundUp4(p.tags + 2)
           list == [size |-> end - p.cursor, balanced |-> p.depth = 0]
           m == [p EXCEPT !.cursor = end, !.args = end, !.tags = 0, !.depth = 0,
                          !.lists[p.cursor] = list]
           b == EndElement(m)
<1>1. /\ IsPacket(p) /\ Nested(p)
      /\ p.args \in Nat /\ p.cursor \in Nat /\ p.tags + 2 \in Nat /\ p.end \in Nat
      /\ p.cursor <= p.args
      /\ Size(p) = end /\ Size(p) <= p.end
  BY PacketFields DEF PacketInv, Fits, Size
<1>2. /\ Size(p) \in Nat /\ p.args < Size(p) /\ Size(p) \in 0..p.end /\ 0 \in 0..p.end /\ 0 \in Int
      /\ RoundUp4(p.tags + 2) % 4 = 0
  <2>1. /\ RoundUp4(p.tags + 2) \in Nat /\ p.tags + 2 <= RoundUp4(p.tags + 2)
        /\ RoundUp4(p.tags + 2) % 4 = 0
    BY <1>1, RoundUp4Property
  <2>2. p.tags \in Nat
    BY <1>1, PacketFields
  <2> QED  BY <1>1, <2>1, <2>2
<1>3. q = [b EXCEPT !.inMessage = FALSE]
  BY DEF EndMessage
<1>4. /\ m = [p EXCEPT !.cursor = Size(p), !.args = Size(p), !.tags = 0, !.depth = 0,
                        !.lists[p.cursor] = list]
      /\ list = [size |-> Size(p) - p.cursor, balanced |-> p.depth = 0]
  BY <1>1
<1>0. list \in List
  BY <1>1, <1>2, <1>4 DEF List
<1> HIDE DEF m, end, list
<1>5. /\ IsPacket(m)
      /\ m.cursor = Size(p) /\ m.args = Size(p) /\ m.tags = 0 /\ m.end = p.end
      /\ m.isOpen = p.isOpen
      /\ m.words = p.words /\ m.element = p.element /\ m.heads = p.heads
      /\ Listed(p, Size(p), m)
  <2>1. /\ m.cursor = Size(p) /\ m.args = Size(p) /\ m.tags = 0 /\ m.end = p.end
        /\ m.isOpen = p.isOpen /\ m.inMessage = p.inMessage /\ m.depth = 0
        /\ m.words = p.words /\ m.element = p.element /\ m.heads = p.heads
        /\ m.lists = [p.lists EXCEPT ![p.cursor] = list]
    BY <1>1, <1>4 DEF IsPacket, Packet
  <2>2. m.lists \in [0..p.end -> List]
    BY <1>0, <1>1, <2>1, PacketFields
  <2>3. m \in Packet(p.end)
    BY <1>1, <1>2, <1>4, <2>1, <2>2, PacketFields DEF IsPacket, Packet
  <2> QED  BY <1>1, <1>4, <2>1, <2>3 DEF IsPacket, Listed
<1>6. Nested(m)
  <2>1. PICK S \in SUBSET (0..p.end) : SlotsOf(p, S)
    BY <1>1 DEF Nested
  <2>2. SlotsOf(m, S)
    BY <1>1, <1>2, <1>5, <2>1 DEF SlotsOf
  <2> QED  BY <1>5, <2>1, <2>2 DEF Nested
<1>7. /\ IsPacket(b) /\ Unlinked(m, m.cursor, b)
      /\ b.cursor = m.cursor /\ b.args = m.args /\ b.tags = m.tags /\ b.lists = m.lists
  BY <1>5, <1>6, EndElementFields
<1> HIDE DEF b
<1>8. /\ IsPacket(q)
      /\ q.end = b.end /\ q.cursor = b.cursor /\ q.args = b.args /\ q.tags = b.tags
      /\ q.inMessage = FALSE /\ q.isOpen = b.isOpen
      /\ q.words = b.words /\ q.element = b.element /\ q.heads = b.heads
      /\ q.lists = b.lists
  BY <1>3, <1>7 DEF IsPacket, Packet
<1>9. Unlinked(p, Size(p), q)
  BY <1>5, <1>7, <1>8 DEF Unlinked
<1>10. Listed(p, Size(p), q)
  BY <1>5, <1>7, <1>8 DEF Listed
<1> QED  BY <1>1, <1>2, <1>5, <1>7, <1>8, <1>9, <1>10 DEF end

-----------------------------------------------------------------------------
(***************************************************************************)
(* The slots stay nested.  A new slot, if it is needed, is the new end of  *)
(* the chain; when an element is closed, the slots below its own are the   *)
(* open ones left; and a cursor that moves forward leaves them where they  *)
(* were.                                                                   *)
(***************************************************************************)
LEMMA LinkedNested ==
  ASSUME NEW p, IsPacket(p), Nested(p), NEW q, IsPacket(q), Linked(p, q),
         StartAt(p) <= q.cursor
  PROVE  Nested(q)
<1>1. PICK S \in SUBSET (0..p.end) : SlotsOf(p, S)
  BY DEF Nested
<1>2. /\ \A o \in S : o \in Nat /\ o + 4 <= p.cursor /\ p.words[o] \in Nat
      /\ p.cursor \in 0..p.end /\ q.cursor \in Nat /\ p.element \in Nat
  <2>1. /\ p.end \in Nat /\ p.words \in [0..p.end -> Nat]
        /\ p.cursor \in 0..p.end /\ p.element \in 0..p.end
    BY PacketFields
  <2>2. q.end \in Nat /\ q.cursor \in 0..q.end
    BY PacketFields
  <2>3. \A o \in S : o \in 0..p.end /\ o + 4 <= p.cursor
    BY <1>1 DEF SlotsOf
  <2> QED  BY <2>1, <2>2, <2>3
<1>3. CASE p.isOpen
  <2> DEFINE T == IF p.cursor = 0 THEN S ELSE S \cup {p.cursor}
  <2>1. /\ q.end = p.end /\ q.element = p.cursor /\ p.cursor + 4 <= q.cursor
        /\ q.words[p.cursor] = p.element
        /\ \A o \in 0..p.end : o # p.cursor => q.words[o] = p.words[o]
    BY <1>2, <1>3, PacketFields DEF Linked, StartAt, SlotSize
  <2>2. p.element # 0 => p.element \in S /\ p.element < p.cursor
    BY <1>1, <1>2 DEF SlotsOf
  <2>3. T \in SUBSET (0..q.end)
    BY <1>2, <2>1
  <2>4. q.element # 0 => q.element \in T
    BY <2>1
  <2>5. ASSUME NEW o \in T
        PROVE  o + 4 <= q.cursor /\ q.words[o] < o /\ (q.words[o] # 0 => q.words[o] \in T)
    <3>1. CASE o \in S
      <4>1. o # p.cursor /\ q.words[o] = p.words[o]
        BY <1>2, <2>1, <3>1
      <4> QED  BY <1>1, <1>2, <2>1, <3>1, <4>1 DEF SlotsOf
    <3>2. CASE o = p.cursor /\ p.cursor # 0
      BY <1>2, <2>1, <2>2, <3>2
    <3> QED  BY <3>1, <3>2
  <2> HIDE DEF T
  <2>6. SlotsOf(q, T)
    BY <2>4, <2>5 DEF SlotsOf
  <2> QED  BY <2>3, <2>6 DEF Nested
<1>4. CASE ~p.isOpen
  <2>1. q.end = p.end /\ q.element = 0 /\ q.words = p.words /\ p.cursor <= q.cursor
    BY <1>2, <1>4 DEF Linked, StartAt, SlotSize
  <2>2. SlotsOf(q, S)
    BY <1>1, <1>2, <2>1 DEF SlotsOf
  <2> QED  BY <1>1, <2>1, <2>2 DEF Nested
<1> QED  BY <1>3, <1>4

LEMMA UnlinkedNested ==
  ASSUME NEW p, IsPacket(p), Nested(p), NEW q, IsPacket(q),
         NEW end \in Nat, Unlinked(p, end, q), p.cursor <= q.cursor
  PROVE  Nested(q)
<1>1. PICK S \in SUBSET (0..p.end) : SlotsOf(p, S)
  BY DEF Nested
<1>2. /\ \A o \in S : o \in 0..p.end /\ o + 4 <= q.cursor /\ p.words[o] \in Nat
      /\ p.cursor \in Nat /\ q.cursor \in Nat /\ p.element \in Nat
  <2>1. /\ p.end \in Nat /\ p.words \in [0..p.end -> Nat]
        /\ p.cursor \in 0..p.end /\ p.element \in 0..p.end
    BY PacketFields
  <2>2. q.end \in Nat /\ q.cursor \in 0..q.end
    BY PacketFields
  <2>3. \A o \in S : o \in 0..p.end /\ o + 4 <= p.cursor
    BY <1>1 DEF SlotsOf
  <2> QED  BY <2>1, <2>2, <2>3
<1>3. CASE p.element # 0
  <2> DEFINE T == {o \in S : o < p.element}
  <2>1. /\ p.element \in S
        /\ p.words[p.element] < p.element
        /\ p.words[p.element] # 0 => p.words[p.element] \in S
        /\ q.end = p.end /\ q.element = p.words[p.element]
        /\ \A o \in 0..p.end : o # p.element => q.words[o] = p.words[o]
    BY <1>1, <1>3, PacketFields DEF SlotsOf, Unlinked
  <2>2. q.element # 0 => q.element \in T
    BY <2>1
  <2>3. ASSUME NEW o \in T
        PROVE  o + 4 <= q.cursor /\ q.words[o] < o /\ (q.words[o] # 0 => q.words[o] \in T)
    <3>1. o \in S /\ o \in Nat /\ o < p.element /\ q.words[o] = p.words[o]
      BY <1>2, <2>1
    <3>2. p.words[o] < o /\ (p.words[o] # 0 => p.words[o] \in S)
      BY <1>1, <3>1 DEF SlotsOf
    <3> QED  BY <1>2, <3>1, <3>2
  <2>4. T \in SUBSET (0..q.end)
    BY <2>1
  <2> HIDE DEF T
  <2>5. SlotsOf(q, T)
    BY <2>2, <2>3 DEF SlotsOf
  <2> QED  BY <2>4, <2>5 DEF Nested
<1>4. CASE p.element = 0
  <2>1. q.end = p.end /\ q.element = 0 /\ q.words = p.words
    BY <1>4 DEF Unlinked
  <2>2. SlotsOf(q, S)
    BY <1>1, <1>2, <2>1 DEF SlotsOf
  <2> QED  BY <1>1, <2>1, <2>2 DEF Nested
<1> QED  BY <1>3, <1>4

-----------------------------------------------------------------------------
(* BeginBundle preserves the invariant when its space check passes. *)
LEMMA BeginBundleInv ==
  ASSUME NEW p, PacketInv(p), ~p.inMessage, BundleFits(p)
  PROVE  PacketInv(BeginBundle(p)) /\ BeginBundle(p).end = p.end
<1> DEFINE q == BeginBundle(p)
<1>1. /\ IsPacket(q) /\ Linked(p, q)
      /\ StartAt(p) \in Nat /\ StartAt(p) + 16 <= p.end
      /\ q.cursor = StartAt(p) + 16 /\ q.args = q.cursor /\ q.inMessage = FALSE
  BY BeginBundleFields
<1> HIDE DEF q
<1>2. q.end = p.end
  BY <1>1 DEF Linked
<1>3. Fits(q)
  BY <1>1, <1>2 DEF Fits, Size
<1>4. Nested(q)
  BY <1>1, LinkedNested DEF PacketInv
<1> QED  BY <1>1, <1>2, <1>3, <1>4 DEF PacketInv, q

(* BeginMessage preserves the invariant when its space check passes. *)
LEMMA BeginMessageInv ==
  ASSUME NEW p, PacketInv(p), ~p.inMessage, NEW length \in Nat, MessageFits(p, length)
  PROVE  PacketInv(BeginMessage(p, length)) /\ BeginMessage(p, length).end = p.end
<1> SUFFICES ASSUME NEW q, q = BeginMessage(p, length)
             PROVE  PacketInv(q) /\ q.end = p.end
  OBVIOUS
<1> DEFINE address == RoundUp4(length + 1)
<1>1. /\ IsPacket(q) /\ Linked(p, q)
      /\ address \in Nat
      /\ StartAt(p) \in Nat /\ StartAt(p) + address + 4 <= p.end
      /\ q.cursor = StartAt(p) + address /\ q.args = q.cursor
      /\ q.inMessage /\ q.tags = 0
  BY BeginMessageFields
<1> HIDE DEF address
<1>2. q.end = p.end /\ p.end \in Nat
  BY <1>1, PacketFields DEF Linked, PacketInv
<1>3. Fits(q)
  <2>1. RoundUp4(2) = 4
    BY DEF RoundUp4
  <2>2. Size(q) = q.args + 4
    BY <1>1, <2>1 DEF Size
  <2> QED  BY <1>1, <1>2, <2>2 DEF Fits
<1>4. Nested(q)
  <2>1. StartAt(p) <= q.cursor
    BY <1>1
  <2> QED  BY <1>1, <2>1, LinkedNested DEF PacketInv
<1> QED  BY <1>1, <1>2, <1>3, <1>4 DEF PacketInv

(* EndMessage never needs space that the earlier checks did not reserve. *)
LEMMA EndMessageInv ==
  ASSUME NEW p, PacketInv(p), p.inMessage
  PROVE  /\ PacketInv(EndMessage(p)) /\ EndMessage(p).end = p.end
         /\ Size(EndMessage(p)) = Size(p)
<1> DEFINE q == EndMessage(p)
<1>1. /\ IsPacket(q) /\ Unlinked(p, Size(p), q)
      /\ Size(p) \in Nat /\ p.args < Size(p)
      /\ q.cursor = Size(p) /\ q.args = Size(p) /\ q.inMessage = FALSE
  BY EndMessageFields
<1> HIDE DEF q
<1>2. /\ q.end = p.end /\ Size(p) <= p.end /\ Size(q) = Size(p)
      /\ p.cursor <= p.args /\ p.cursor \in Nat /\ p.args \in Nat
  <2>1. Size(q) = q.args
    BY <1>1, PacketFields DEF Size
  <2>2. Size(p) <= p.end /\ p.cursor <= p.args
    BY DEF PacketInv, Fits
  <2>3. p.cursor \in Nat /\ p.args \in Nat
    BY PacketFields DEF PacketInv
  <2> QED  BY <1>1, <2>1, <2>2, <2>3 DEF Unlinked
<1>3. Fits(q)
  BY <1>1, <1>2 DEF Fits
<1>4. Nested(q)
  <2>1. p.cursor <= q.cursor
    BY <1>1, <1>2
  <2> QED  BY <1>1, <2>1, UnlinkedNested DEF PacketInv
<1> QED  BY <1>1, <1>2, <1>3, <1>4 DEF PacketInv, q

(* A tag and its argument preserve the invariant when the space check passes. *)
LEMMA AppendedInv ==
  ASSUME NEW p, PacketInv(p), NEW bytes \in Nat, ArgumentFits(p, bytes),
         NEW q, IsPacket(q), Appended(p, q, bytes)
  PROVE  PacketInv(q)
<1>1. /\ q.end = p.end
      /\ q.args = p.args + bytes /\ q.tags = p.tags + 1 /\ q.cursor = p.cursor
      /\ q.inMessage = p.inMessage /\ q.element = p.element /\ q.words = p.words
  BY DEF Appended
<1>2. /\ p.args \in Nat /\ p.cursor \in Nat /\ p.tags \in Nat /\ p.end \in Nat
      /\ p.inMessage \in BOOLEAN
      /\ p.cursor <= p.args /\ p.args + bytes + RoundUp4(p.tags + 3) <= p.end
  BY PacketFields DEF PacketInv, Fits, ArgumentFits
<1>3. Fits(q)
  <2>1. q.tags + 2 = p.tags + 3
    BY <1>1, <1>2
  <2>2. p.tags + 3 <= RoundUp4(p.tags + 3) /\ RoundUp4(p.tags + 3) \in Nat
    BY <1>2, RoundUp4Property
  <2> QED  BY <1>1, <1>2, <2>1, <2>2 DEF Fits, Size
<1>4. Nested(q)
  BY <1>1 DEF PacketInv, Nested, SlotsOf
<1> QED  BY <1>3, <1>4 DEF PacketInv

(* EndBundle preserves the invariant. *)
LEMMA EndBundleInv ==
  ASSUME NEW p, PacketInv(p), ~p.inMessage
  PROVE  /\ PacketInv(EndBundle(p)) /\ EndBundle(p).end = p.end
         /\ Size(EndBundle(p)) = Size(p)
<1> DEFINE q == EndElement(p)
<1>1. IsPacket(p) /\ Nested(p) /\ Fits(p) /\ p.cursor \in Nat /\ p.inMessage = FALSE
  BY PacketFields DEF PacketInv
<1>2. /\ IsPacket(q) /\ Unlinked(p, p.cursor, q)
      /\ q.cursor = p.cursor /\ q.args = p.args /\ q.tags = p.tags
      /\ q.inMessage = p.inMessage
  BY <1>1, EndElementFields
<1> HIDE DEF q
<1>3. q.end = p.end /\ Size(q) = Size(p) /\ Fits(q)
  BY <1>1, <1>2 DEF Fits, Size, Unlinked
<1>4. Nested(q)
  <2>1. p.cursor <= q.cursor
    BY <1>1, <1>2
  <2> QED  BY <1>1, <1>2, <2>1, UnlinkedNested
<1> QED  BY <1>2, <1>3, <1>4 DEF PacketInv, EndBundle, q

-----------------------------------------------------------------------------
(***************************************************************************)
(* Reading.  "Ends" is defined by recursion on the offset, which goes up;  *)
(* the facts about it are proved without induction:                        *)
(*   - a function with its equation exists: the union of all functions     *)
(*     that the equation does not refute;                                  *)
(*   - a property that holds at an offset if it holds at the higher ones   *)
(*     holds everywhere, because there is no highest counterexample.       *)
(***************************************************************************)
LEMMA Descent ==
  ASSUME NEW n \in Nat, NEW Bad \in SUBSET (0..n), \A a \in Bad : \E c \in Bad : c > a
  PROVE  Bad = {}
<1> SUFFICES ASSUME Bad # {}  PROVE FALSE
  OBVIOUS
<1> DEFINE T == {n - a : a \in Bad}
<1>1. T \in SUBSET Nat /\ T # {}
  <2>1. \A a \in Bad : n - a \in Nat
    OBVIOUS
  <2> QED  BY <2>1
<1>2. PICK m \in T : \A y \in T : ~(<<y, m>> \in OpToRel(<, Nat))
  BY <1>1, NatLessThanWellFounded, WFMin
<1>3. PICK a \in Bad : m = n - a
  OBVIOUS
<1>4. PICK c \in Bad : c > a
  OBVIOUS
<1>5. n - c \in T /\ n - c \in Nat /\ m \in Nat /\ n - c < m
  BY <1>1, <1>3, <1>4
<1> QED  BY <1>2, <1>5 DEF OpToRel

\* The right-hand side of the equation of Ends.
Step(p, f, a) == {a} \cup IF SlotReads(p, a, f) THEN f[NextSlot(p, a)] ELSE {}

(* The next slot is a higher offset of the buffer, and so is a first element. *)
LEMMA SlotReadsAbove ==
  ASSUME NEW p, IsPacket(p), NEW a \in 0..p.end, NEW f, SlotReads(p, a, f)
  PROVE  /\ NextSlot(p, a) \in 0..p.end /\ a + 4 < NextSlot(p, a)
         /\ a + 4 \in 0..p.end
         /\ p.heads[a + 4] = BundleHead =>
              a + 20 \in 0..p.end /\ a + 20 <= NextSlot(p, a)
<1>1. p.end \in Nat /\ p.words[a] \in Nat
  BY PacketFields
<1> QED  BY <1>1 DEF SlotReads, NextSlot, MessageReads

(* The equation is monotone. *)
LEMMA StepMonotone ==
  ASSUME NEW p, IsPacket(p), NEW a \in 0..p.end,
         NEW f, NEW g, \A o \in 0..p.end : f[o] \subseteq g[o]
  PROVE  Step(p, f, a) \subseteq Step(p, g, a)
<1>1. CASE SlotReads(p, a, f)
  <2>1. SlotReads(p, a, g)
    BY <1>1, SlotReadsAbove DEF SlotReads
  <2> QED  BY <1>1, <2>1, SlotReadsAbove DEF Step
<1>2. CASE ~SlotReads(p, a, f)
  BY <1>2 DEF Step
<1> QED  BY <1>1, <1>2

(* A function that satisfies the equation exists. *)
LEMMA EndsExists ==
  ASSUME NEW p, IsPacket(p)
  PROVE  \E f : f = [a \in 0..p.end |-> Step(p, f, a)]
<1> DEFINE N == 0..p.end
           Consistent(g) == \A a \in N : g[a] \subseteq Step(p, g, a)
           F == [a \in N |-> {b \in N : \E g \in [N -> SUBSET N] : Consistent(g) /\ b \in g[a]}]
           G == [a \in N |-> Step(p, F, a)]
<1>1. F \in [N -> SUBSET N]
  OBVIOUS
<1>2. \A g \in [N -> SUBSET N] : Consistent(g) => \A a \in N : g[a] \subseteq F[a]
  OBVIOUS
<1>3. \A a \in N : F[a] \subseteq Step(p, F, a)
  <2> SUFFICES ASSUME NEW a \in N, NEW b \in F[a]  PROVE b \in Step(p, F, a)
    OBVIOUS
  <2>1. PICK g \in [N -> SUBSET N] : Consistent(g) /\ b \in g[a]
    OBVIOUS
  <2>2. \A o \in N : g[o] \subseteq F[o]
    BY <1>2, <2>1
  <2> HIDE DEF F
  <2>3. Step(p, g, a) \subseteq Step(p, F, a)
    BY <2>2, StepMonotone
  <2> QED  BY <2>1, <2>3
<1> HIDE DEF F
<1>4. G \in [N -> SUBSET N]
  <2> SUFFICES ASSUME NEW a \in N  PROVE Step(p, F, a) \subseteq N
    OBVIOUS
  <2> QED  BY <1>1, SlotReadsAbove DEF Step
<1>5. Consistent(G)
  <2> SUFFICES ASSUME NEW a \in N  PROVE G[a] \subseteq Step(p, G, a)
    OBVIOUS
  <2>1. \A o \in N : F[o] \subseteq G[o]
    BY <1>3
  <2>2. G[a] = Step(p, F, a)
    OBVIOUS
  <2> HIDE DEF G
  <2> QED  BY <2>1, <2>2, StepMonotone
<1>6. \A a \in N : F[a] = Step(p, F, a)
  <2>1. \A a \in N : G[a] \subseteq F[a] /\ G[a] = Step(p, F, a)
    BY <1>2, <1>4, <1>5
  <2> HIDE DEF G
  <2> QED  BY <1>3, <2>1
<1> QED  BY <1>1, <1>6

(* The equation of Ends. *)
LEMMA EndsEquation ==
  ASSUME NEW p, IsPacket(p)
  PROVE  \A a \in 0..p.end : Ends(p)[a] = Step(p, Ends(p), a)
<1>1. Ends(p) = CHOOSE f : f = [a \in 0..p.end |-> Step(p, f, a)]
  BY DEF Ends, Step
<1>2. Ends(p) = [a \in 0..p.end |-> Step(p, Ends(p), a)]
  BY <1>1, EndsExists
<1> QED  BY <1>2

(* A sequence of elements ends where it starts, or one element later. *)
LEMMA EndsCases ==
  ASSUME NEW p, IsPacket(p), NEW a \in 0..p.end
  PROVE  /\ a \in Ends(p)[a]
         /\ \A b : b \in Ends(p)[a] /\ b # a =>
              SlotReads(p, a, Ends(p)) /\ b \in Ends(p)[NextSlot(p, a)]
         /\ SlotReads(p, a, Ends(p)) => Ends(p)[NextSlot(p, a)] \subseteq Ends(p)[a]
<1>1. Ends(p)[a] = Step(p, Ends(p), a)
  BY EndsEquation
<1> QED  BY <1>1 DEF Step

(* It ends in the buffer, and not before it starts. *)
LEMMA EndsBounds ==
  ASSUME NEW p, IsPacket(p), NEW a \in 0..p.end, NEW b \in Ends(p)[a]
  PROVE  b \in 0..p.end /\ a <= b
<1> DEFINE Bad == {o \in 0..p.end : \E e \in Ends(p)[o] : ~(e \in 0..p.end /\ o <= e)}
<1>1. p.end \in Nat
  BY PacketFields
<1>2. ASSUME NEW o \in Bad  PROVE \E c \in Bad : c > o
  <2>1. PICK e \in Ends(p)[o] : ~(e \in 0..p.end /\ o <= e)
    OBVIOUS
  <2>2. e # o
    BY <1>1, <2>1
  <2>3. SlotReads(p, o, Ends(p)) /\ e \in Ends(p)[NextSlot(p, o)]
    BY <2>2, EndsCases
  <2>4. NextSlot(p, o) \in 0..p.end /\ o + 4 < NextSlot(p, o)
    BY <2>3, SlotReadsAbove
  <2>5. ~(e \in 0..p.end /\ NextSlot(p, o) <= e)
    BY <1>1, <2>1, <2>4
  <2> QED  BY <1>1, <2>3, <2>4, <2>5
<1> HIDE DEF Bad
<1>3. Bad \in SUBSET (0..p.end)
  BY DEF Bad
<1>4. Bad = {}
  BY <1>1, <1>2, <1>3, Descent
<1> QED  BY <1>4 DEF Bad

(* Two sequences of elements, one behind the other, are one. *)
LEMMA EndsConcat ==
  ASSUME NEW p, IsPacket(p), NEW a \in 0..p.end, NEW b \in Ends(p)[a], NEW d \in Ends(p)[b]
  PROVE  d \in Ends(p)[a]
<1> DEFINE Bad == {o \in 0..p.end : b \in Ends(p)[o] /\ d \notin Ends(p)[o]}
<1>1. p.end \in Nat
  BY PacketFields
<1>2. ASSUME NEW o \in Bad  PROVE \E c \in Bad : c > o
  <2>1. b # o
    OBVIOUS
  <2>2. SlotReads(p, o, Ends(p)) /\ b \in Ends(p)[NextSlot(p, o)]
    BY <2>1, EndsCases
  <2>3. NextSlot(p, o) \in 0..p.end /\ o + 4 < NextSlot(p, o)
    BY <2>2, SlotReadsAbove
  <2>4. d \notin Ends(p)[NextSlot(p, o)]
    BY <2>2, EndsCases
  <2> QED  BY <1>1, <2>2, <2>3, <2>4
<1> HIDE DEF Bad
<1>3. Bad \in SUBSET (0..p.end)
  BY DEF Bad
<1>4. Bad = {}
  BY <1>1, <1>2, <1>3, Descent
<1> QED  BY <1>4 DEF Bad

\* p and q hold the same bytes between two offsets.
Agree(p, q, from, to) ==
  /\ q.end = p.end
  /\ \A o \in 0..p.end : from <= o /\ o < to =>
       q.words[o] = p.words[o] /\ q.heads[o] = p.heads[o] /\ q.lists[o] = p.lists[o]

(* What a sequence of elements reads as depends on its own bytes only. *)
LEMMA EndsLocal ==
  ASSUME NEW p, IsPacket(p), NEW q, IsPacket(q), NEW a \in 0..p.end, NEW b \in Ends(p)[a],
         Agree(p, q, a, b)
  PROVE  b \in Ends(q)[a]
<1> DEFINE Bad == {o \in 0..p.end :
                     a <= o /\ \E e \in Ends(p)[o] : e <= b /\ e \notin Ends(q)[o]}
<1>1. p.end \in Nat /\ b \in 0..p.end /\ q.end = p.end
  BY PacketFields, EndsBounds DEF Agree
<1>2. ASSUME NEW o \in Bad  PROVE \E c \in Bad : c > o
  <2>1. PICK e \in Ends(p)[o] : e <= b /\ e \notin Ends(q)[o]
    OBVIOUS
  <2>2. e # o
    BY <1>1, <2>1, EndsCases
  <2>3. SlotReads(p, o, Ends(p)) /\ e \in Ends(p)[NextSlot(p, o)]
    BY <2>2, EndsCases
  <2>4. /\ NextSlot(p, o) \in 0..p.end /\ o + 4 < NextSlot(p, o) /\ o + 4 \in 0..p.end
        /\ p.heads[o + 4] = BundleHead => o + 20 \in 0..p.end /\ o + 20 <= NextSlot(p, o)
    BY <2>3, SlotReadsAbove
  <2>5. e \in 0..p.end /\ NextSlot(p, o) <= e
    BY <2>3, <2>4, EndsBounds
  <2>6. q.words[o] = p.words[o] /\ q.heads[o + 4] = p.heads[o + 4]
    BY <1>1, <2>1, <2>4, <2>5 DEF Agree
  <2>7. NextSlot(q, o) = NextSlot(p, o)
    BY <2>6 DEF NextSlot
  <2>8. CASE SlotReads(q, o, Ends(q))
    <3>1. e \notin Ends(q)[NextSlot(p, o)]
      BY <1>1, <2>1, <2>7, <2>8, EndsCases
    <3> QED  BY <1>1, <2>1, <2>3, <2>4, <3>1
  <2>9. CASE ~SlotReads(q, o, Ends(q))
    <3>2. NextSlot(p, o) <= b
      BY <1>1, <2>1, <2>4, <2>5
    <3>3. ASSUME MessageReads(p, o + 4, NextSlot(p, o))
          PROVE  MessageReads(q, o + 4, NextSlot(p, o))
      <4> DEFINE list == o + 4 + p.heads[o + 4]
      <4>1. p.heads[o + 4] \in Nat
        BY <2>4, PacketFields
      <4>2. list < NextSlot(p, o) => q.lists[list] = p.lists[list]
        <5> SUFFICES ASSUME list < NextSlot(p, o)  PROVE q.lists[list] = p.lists[list]
          OBVIOUS
        <5>1. list \in 0..p.end /\ a <= list /\ list < b
          BY <1>1, <2>1, <2>4, <3>2, <4>1
        <5> QED  BY <5>1 DEF Agree
      <4> QED  BY <2>6, <3>3, <4>2 DEF MessageReads, TagsRead
    <3>1. /\ p.heads[o + 4] = BundleHead
          /\ NextSlot(p, o) \in Ends(p)[o + 20] /\ NextSlot(p, o) \notin Ends(q)[o + 20]
      BY <1>1, <2>3, <2>6, <2>7, <2>9, <3>3 DEF SlotReads
    <3> QED  BY <1>1, <2>4, <3>1, <3>2
  <2> QED  BY <2>8, <2>9
<1> HIDE DEF Bad
<1>3. Bad \in SUBSET (0..p.end)
  BY DEF Bad
<1>4. Bad = {}
  BY <1>1, <1>2, <1>3, Descent
<1> QED  BY <1>1, <1>4 DEF Bad

-----------------------------------------------------------------------------
(***************************************************************************)
(* The invariant of a packet whose client keeps to the protocol.  Every    *)
(* open element but the innermost is a bundle, and is well formed up to    *)
(* the slot of the element inside it; the innermost is a bundle that is    *)
(* well formed up to the cursor, or a message whose address ends at the    *)
(* cursor.  A packet with no open element is empty or can be read.         *)
(***************************************************************************)
\* Where the element of a slot begins.
Base(slot) == IF slot = 0 THEN 0 ELSE slot + 4

InBundle(p, start, to) ==
  /\ start + 16 <= to /\ to <= p.end
  /\ p.heads[start] = BundleHead
  /\ to \in Ends(p)[start + 16]

InMessage(p, start) ==
  /\ p.heads[start] # BundleHead
  /\ start + p.heads[start] = p.cursor

Stacked(p, S) ==
  /\ SlotsOf(p, S)
  /\ \A o \in S : o % 4 = 0 /\ InBundle(p, Base(p.words[o]), o)

Innermost(p) ==
  IF p.inMessage THEN InMessage(p, Base(p.element))
                 ELSE p.args = p.cursor /\ InBundle(p, Base(p.element), p.cursor)

WellFormed(p) ==
  /\ p.cursor % 4 = 0 /\ p.args % 4 = 0
  /\ p.isOpen  => Innermost(p) /\ \E S \in SUBSET (0..p.end) : Stacked(p, S)
  /\ ~p.isOpen => /\ ~p.inMessage /\ p.element = 0 /\ p.args = p.cursor
                  /\ p.cursor = 0 \/ Reads(p, p.cursor)

LEMMA NewPacketWellFormed ==
  ASSUME NEW capacity \in Nat, NEW p, p = NewPacket(capacity)
  PROVE  WellFormed(p)
BY NewPacketInv DEF WellFormed

(* A bundle reads as it did when only bytes outside it were written. *)
LEMMA InBundleLocal ==
  ASSUME NEW p, IsPacket(p), NEW q, IsPacket(q), NEW start \in Nat, NEW to \in Nat,
         InBundle(p, start, to), Agree(p, q, start, to)
  PROVE  InBundle(q, start, to)
<1>1. /\ start + 16 <= to /\ to <= p.end /\ p.heads[start] = BundleHead
      /\ to \in Ends(p)[start + 16] /\ p.end \in Nat
  BY PacketFields DEF InBundle
<1>2. q.end = p.end /\ q.heads[start] = p.heads[start]
  BY <1>1 DEF Agree
<1>3. start + 16 \in 0..p.end /\ Agree(p, q, start + 16, to)
  BY <1>1 DEF Agree
<1>4. to \in Ends(q)[start + 16]
  BY <1>1, <1>3, EndsLocal
<1> QED  BY <1>1, <1>2, <1>4 DEF InBundle

(* What opening an element makes of the slots. *)
LEMMA LinkedStacked ==
  ASSUME NEW p, IsPacket(p), WellFormed(p), p.isOpen \/ p.cursor = 0, ~p.inMessage,
         NEW q, IsPacket(q), Linked(p, q), StartAt(p) <= q.cursor,
         \A o \in 0..p.end : o # StartAt(p) => q.heads[o] = p.heads[o]
  PROVE  /\ StartAt(p) % 4 = 0 /\ Base(q.element) = StartAt(p)
         /\ \E S \in SUBSET (0..q.end) : Stacked(q, S)
<1>1. /\ p.end \in Nat /\ p.words \in [0..p.end -> Nat]
      /\ p.cursor \in 0..p.end /\ p.element \in 0..p.end
      /\ q.end \in Nat /\ q.cursor \in 0..q.end /\ q.end = p.end
  BY PacketFields DEF Linked
<1>2. CASE p.isOpen
  <2>1. PICK S \in SUBSET (0..p.end) : Stacked(p, S)
    BY <1>2 DEF WellFormed
  <2>2. InBundle(p, Base(p.element), p.cursor) /\ p.cursor % 4 = 0
    BY <1>2 DEF WellFormed, Innermost
  <2>3. StartAt(p) = p.cursor + 4
    BY <1>2 DEF StartAt, SlotSize
  <2>4. /\ q.element = p.cursor /\ q.words[p.cursor] = p.element
        /\ \A o \in 0..p.end : o # p.cursor => q.words[o] = p.words[o]
    BY <1>1, <1>2 DEF Linked
  <2>5. Base(p.element) \in Nat /\ Base(p.element) + 16 <= p.cursor
    BY <1>1, <2>2 DEF Base, InBundle
  <2>6. /\ \A o \in 0..p.end : o < p.cursor => q.words[o] = p.words[o] /\ q.heads[o] = p.heads[o]
        /\ q.lists = p.lists
    BY <1>1, <2>3, <2>4 DEF Linked
  <2>7. \A start, to \in Nat : to <= p.cursor /\ InBundle(p, start, to) => InBundle(q, start, to)
    <3> SUFFICES ASSUME NEW start \in Nat, NEW to \in Nat, to <= p.cursor, InBundle(p, start, to)
                 PROVE  InBundle(q, start, to)
      OBVIOUS
    <3>1. Agree(p, q, start, to)
      BY <1>1, <2>6 DEF Agree
    <3> QED  BY <3>1, InBundleLocal
  <2> DEFINE T == S \cup {p.cursor}
  <2>8. p.element # 0 => p.element \in S
    BY <2>1 DEF Stacked, SlotsOf
  <2>9. ASSUME NEW o \in T
        PROVE  /\ o + 4 <= q.cursor /\ q.words[o] < o /\ (q.words[o] # 0 => q.words[o] \in T)
               /\ o % 4 = 0 /\ InBundle(q, Base(q.words[o]), o)
    <3>1. CASE o = p.cursor
      <4>1. p.element < p.cursor
        BY <1>1, <2>5 DEF Base
      <4> QED  BY <1>1, <2>2, <2>3, <2>4, <2>5, <2>7, <2>8, <3>1, <4>1
    <3>2. CASE o \in S
      <4>1. /\ o \in 0..p.end /\ o + 4 <= p.cursor /\ p.words[o] < o /\ p.words[o] \in Nat
            /\ (p.words[o] # 0 => p.words[o] \in S)
            /\ o % 4 = 0 /\ InBundle(p, Base(p.words[o]), o)
        BY <1>1, <2>1, <3>2 DEF Stacked, SlotsOf
      <4>2. Base(p.words[o]) \in Nat /\ o \in Nat /\ o <= p.cursor /\ q.words[o] = p.words[o]
        <5>1. Base(p.words[o]) \in Nat
          BY <4>1 DEF Base
        <5>2. o \in Nat /\ o <= p.cursor /\ o < p.cursor
          BY <1>1, <4>1
        <5> QED  BY <2>6, <4>1, <5>1, <5>2
      <4>3. InBundle(q, Base(q.words[o]), o)
        BY <2>7, <4>1, <4>2
      <4> QED  BY <1>1, <2>3, <4>1, <4>2, <4>3
    <3> QED  BY <3>1, <3>2
  <2>10. T \in SUBSET (0..q.end) /\ q.element \in T
    BY <1>1, <2>4
  <2> HIDE DEF T
  <2>11. Stacked(q, T)
    BY <2>9, <2>10 DEF Stacked, SlotsOf
  <2>12. Base(q.element) = StartAt(p) /\ StartAt(p) % 4 = 0
    <3>1. p.cursor # 0 /\ p.cursor \in Nat
      BY <1>1, <2>5
    <3>2. Base(p.cursor) = p.cursor + 4
      BY <3>1 DEF Base
    <3>3. (p.cursor + 4) % 4 = 0
      BY <2>2, <3>1
    <3> QED  BY <2>3, <2>4, <3>2, <3>3
  <2> QED  BY <2>10, <2>11, <2>12
<1>3. CASE ~p.isOpen
  <2>1. p.cursor = 0 /\ StartAt(p) = 0 /\ q.element = 0
    BY <1>3 DEF StartAt, SlotSize, Linked
  <2>2. Stacked(q, {})
    BY <2>1 DEF Stacked, SlotsOf
  <2> QED  BY <2>1, <2>2 DEF Base
<1> QED  BY <1>2, <1>3

(* An opened bundle is well formed, and so is an opened message. *)
LEMMA BeginBundleWellFormed ==
  ASSUME NEW p, PacketInv(p), WellFormed(p), p.isOpen \/ p.cursor = 0, ~p.inMessage,
         BundleFits(p), NEW q, q = BeginBundle(p)
  PROVE  WellFormed(q)
<1>1. /\ IsPacket(q) /\ Linked(p, q)
      /\ StartAt(p) \in Nat /\ StartAt(p) + 16 <= p.end
      /\ q.cursor = StartAt(p) + 16 /\ q.args = q.cursor /\ q.inMessage = FALSE
      /\ BundleStarts(p, q)
  BY BeginBundleFields
<1>2. /\ p.end \in Nat /\ p.heads \in [0..p.end -> Nat] /\ IsPacket(p)
  BY PacketFields DEF PacketInv
<1>3. /\ q.heads[StartAt(p)] = BundleHead
      /\ \A o \in 0..p.end : o # StartAt(p) => q.heads[o] = p.heads[o]
  BY <1>1, <1>2 DEF BundleStarts
<1>4. /\ StartAt(p) % 4 = 0 /\ Base(q.element) = StartAt(p)
      /\ \E S \in SUBSET (0..q.end) : Stacked(q, S)
  <2>1. StartAt(p) <= q.cursor
    BY <1>1
  <2> QED  BY <1>1, <1>2, <1>3, <2>1, LinkedStacked
<1>5. q.isOpen /\ q.end = p.end
  BY <1>1 DEF Linked
<1>6. q.cursor % 4 = 0 /\ q.cursor \in 0..q.end
  BY <1>1, <1>2, <1>4, <1>5
<1>7. InBundle(q, Base(q.element), q.cursor)
  <2>1. q.cursor \in Ends(q)[q.cursor]
    BY <1>1, <1>6, EndsCases
  <2> QED  BY <1>1, <1>3, <1>4, <1>6, <2>1 DEF InBundle
<1> QED  BY <1>1, <1>4, <1>5, <1>6, <1>7 DEF WellFormed, Innermost

LEMMA BeginMessageWellFormed ==
  ASSUME NEW p, PacketInv(p), WellFormed(p), p.isOpen \/ p.cursor = 0, ~p.inMessage,
         NEW length \in Nat, MessageFits(p, length), NEW q, q = BeginMessage(p, length)
  PROVE  WellFormed(q)
<1> DEFINE address == RoundUp4(length + 1)
<1>1. /\ IsPacket(q) /\ Linked(p, q)
      /\ StartAt(p) \in Nat /\ StartAt(p) + address + 4 <= p.end
      /\ q.cursor = StartAt(p) + address /\ q.args = q.cursor /\ q.inMessage
      /\ MessageStarts(p, q, length)
  BY BeginMessageFields
<1>2. address \in Nat /\ address % 4 = 0 /\ address >= 4
  BY AddressProperty
<1>3. /\ p.end \in Nat /\ p.heads \in [0..p.end -> Nat] /\ IsPacket(p)
  BY PacketFields DEF PacketInv
<1>4. q.heads = [p.heads EXCEPT ![StartAt(p)] = address]
  BY <1>1 DEF MessageStarts
<1> HIDE DEF address
<1>5. /\ q.heads[StartAt(p)] = address
      /\ \A o \in 0..p.end : o # StartAt(p) => q.heads[o] = p.heads[o]
  BY <1>1, <1>2, <1>3, <1>4
<1>6. /\ StartAt(p) % 4 = 0 /\ Base(q.element) = StartAt(p)
      /\ \E S \in SUBSET (0..q.end) : Stacked(q, S)
  <2>1. StartAt(p) <= q.cursor
    BY <1>1, <1>2
  <2> QED  BY <1>1, <1>3, <1>5, <2>1, LinkedStacked
<1>7. q.isOpen
  BY <1>1 DEF Linked
<1>8. q.cursor % 4 = 0
  BY <1>1, <1>2, <1>6
<1>9. InMessage(q, Base(q.element))
  BY <1>1, <1>2, <1>5, <1>6 DEF InMessage, BundleHead
<1> QED  BY <1>1, <1>6, <1>7, <1>8, <1>9 DEF WellFormed, Innermost

(* What closing an element at the offset "to" makes of a packet. *)
LEMMA UnlinkedWellFormed ==
  ASSUME NEW p, PacketInv(p), WellFormed(p), p.isOpen,
         NEW q, IsPacket(q), NEW to \in 0..p.end, Unlinked(p, to, q),
         p.args <= to, to % 4 = 0,
         IF p.inMessage THEN p.args < to /\ Listed(p, to, q) /\ p.depth = 0
                        ELSE to = p.cursor /\ q.lists = p.lists,
         q.cursor = to, q.args = to, ~q.inMessage
  PROVE  WellFormed(q)
<1> DEFINE e == p.element
           start == Base(e)
<1>1. /\ p.end \in Nat /\ p.words \in [0..p.end -> Nat] /\ p.heads \in [0..p.end -> Nat]
      /\ p.cursor \in 0..p.end /\ p.args \in 0..p.end /\ e \in 0..p.end /\ to \in Nat
      /\ q.end = p.end /\ q.heads = p.heads
      /\ IsPacket(p) /\ p.cursor <= p.args
  <2>1. IsPacket(p) /\ p.cursor <= p.args
    BY DEF PacketInv, Fits
  <2>2. q.end = p.end /\ q.heads = p.heads
    BY DEF Unlinked
  <2> QED  BY <2>1, <2>2, PacketFields
<1>0. /\ p.end \in Nat /\ p.cursor \in Nat /\ p.args \in Nat /\ to \in Nat
      /\ p.cursor <= to /\ p.args <= to /\ to <= p.end
  <2>1. /\ p.end \in Nat /\ p.cursor \in 0..p.end /\ p.args \in 0..p.end
        /\ p.cursor <= p.args
    BY <1>1
  <2> QED  BY <2>1
<1>2. start \in Nat
  BY <1>1 DEF Base
<1>3. Innermost(p)
  BY DEF WellFormed
<1>4. \/ /\ ~p.inMessage /\ InBundle(p, start, to) /\ p.heads[start] = BundleHead
      \/ /\ p.inMessage /\ p.heads[start] # BundleHead
         /\ start + p.heads[start] = p.cursor /\ start < to
         /\ TagsRead(q, p.cursor, to)
  <2>1. CASE p.inMessage
    <3>1. p.heads[start] # BundleHead /\ start + p.heads[start] = p.cursor
      BY <1>3, <2>1 DEF Innermost, InMessage
    <3>2. start \in 0..p.end
      <4>1. e = 0 \/ e + 4 <= p.cursor
        BY <1>1 DEF PacketInv, Nested, SlotsOf
      <4> QED  BY <1>0, <1>1, <4>1 DEF Base
    <3> HIDE DEF start
    <3>3. p.heads[start] \in Nat
      BY <1>1, <3>2
    <3>4. start <= p.cursor /\ p.cursor < to
      <4>1. p.cursor <= p.args /\ p.args < to
        BY <1>1, <2>1
      <4> QED  BY <1>0, <1>2, <3>1, <3>3, <4>1
    <3>5. q.lists[p.cursor] = [size |-> to - p.cursor, balanced |-> TRUE]
      <4>1. p.lists \in [0..p.end -> List] /\ p.cursor \in 0..p.end
        BY <1>1, PacketFields
      <4>2. q.lists = [p.lists EXCEPT ![p.cursor] = [size |-> to - p.cursor, balanced |-> TRUE]]
        BY <2>1 DEF Listed
      <4> QED  BY <4>1, <4>2
    <3>6. TagsRead(q, p.cursor, to)
      BY <1>0, <3>5 DEF TagsRead
    <3> QED  BY <1>0, <1>2, <2>1, <3>1, <3>4, <3>6
  <2>2. CASE ~p.inMessage
    BY <1>3, <2>2 DEF Innermost, InBundle
  <2> QED  BY <2>1, <2>2
<1> HIDE DEF start
<1>5. CASE e = 0
  <2>1. ~q.isOpen /\ q.element = 0 /\ q.words = p.words /\ start = 0
    BY <1>5 DEF Unlinked, Base, start
  <2>2. Reads(q, to)
    <3>1. CASE p.inMessage
      <4>1. q.heads[0] # BundleHead
        BY <1>1, <1>4, <2>1, <3>1
      <4>2. MessageReads(q, 0, to)
        BY <1>0, <1>1, <1>4, <2>1, <3>1 DEF MessageReads
      <4> QED  BY <4>1, <4>2 DEF Reads
    <3>2. CASE ~p.inMessage
      <4>1. InBundle(p, 0, to) /\ Agree(p, q, 0, to)
        BY <1>1, <1>4, <2>1, <3>2 DEF Agree
      <4>2. InBundle(q, 0, to)
        BY <1>1, <4>1, InBundleLocal
      <4> QED  BY <4>2 DEF InBundle, Reads
    <3> QED  BY <3>1, <3>2
  <2> QED  BY <2>1, <2>2 DEF WellFormed
<1>6. CASE e # 0
  <2>1. PICK S \in SUBSET (0..p.end) : Stacked(p, S)
    BY DEF WellFormed
  <2>2. /\ e \in S /\ e % 4 = 0 /\ e + 4 <= p.cursor
        /\ p.words[e] < e /\ p.words[e] \in Nat /\ (p.words[e] # 0 => p.words[e] \in S)
        /\ InBundle(p, Base(p.words[e]), e)
    BY <1>1, <1>6, <2>1 DEF Stacked, SlotsOf
  <2>14. e \in Nat /\ e + 4 <= to
    <3>1. e \in Nat /\ e + 4 <= p.cursor
      BY <1>1, <2>2
    <3> HIDE DEF e
    <3> QED  BY <1>0, <3>1
  <2>15. e % 4 = 0 /\ p.words[e] \in Nat /\ p.words[e] < e
    BY <2>2
  <2>3. /\ q.isOpen = p.isOpen /\ q.element = p.words[e]
        /\ q.words = [p.words EXCEPT ![e] = to - e - 4]
    BY <1>6 DEF Unlinked
  <2>4. start = e + 4
    BY <1>6 DEF Base, start
  <2>5. /\ q.words[e] = to - e - 4
        /\ \A o \in 0..p.end : o # e => q.words[o] = p.words[o]
    BY <1>1, <2>3
  <2> HIDE DEF e
  <2>6. NextSlot(q, e) = to /\ q.words[e] % 4 = 0 /\ e + 4 <= to /\ e \in Nat
    <3>1. e + 4 + (to - e - 4) = to
      BY <1>0, <2>14
    <3>2. (to - e - 4) % 4 = 0
      BY <1>0, <2>14, <2>15, WholeWords
    <3> QED  BY <2>5, <2>14, <3>1, <3>2 DEF NextSlot
  <2>7. SlotReads(q, e, Ends(q))
    <3>1. CASE p.inMessage
      <4>1. q.heads[e + 4] # BundleHead /\ MessageReads(q, e + 4, to)
        <5>1. /\ q.heads[e + 4] # BundleHead /\ e + 4 < to
              /\ e + 4 + q.heads[e + 4] = p.cursor /\ TagsRead(q, p.cursor, to)
          BY <1>1, <1>4, <2>4, <3>1
        <5>2. (to - (e + 4)) % 4 = 0
          <6>1. to - (e + 4) = to - e - 4
            BY <1>0, <2>14
          <6> QED  BY <1>0, <2>14, <2>15, <6>1, WholeWords
        <5> QED  BY <1>0, <2>6, <5>1, <5>2 DEF MessageReads
      <4>2. q.end = p.end /\ to <= q.end /\ e + 4 <= q.end
        <5>1. q.end = p.end
          BY <1>1
        <5> QED  BY <1>0, <2>14, <5>1
      <4> QED  BY <2>6, <4>1, <4>2 DEF SlotReads
    <3>2. CASE ~p.inMessage
      <4>1. InBundle(p, e + 4, to) /\ Agree(p, q, e + 4, to) /\ e + 4 \in Nat
        BY <1>1, <1>4, <2>4, <2>5, <2>6, <3>2 DEF Agree
      <4>2. InBundle(q, e + 4, to)
        BY <1>1, <4>1, InBundleLocal
      <4>3. /\ q.heads[e + 4] = BundleHead /\ e + 20 <= to /\ to \in Ends(q)[e + 20]
        <5>1. e + 4 + 16 = e + 20
          BY <2>6
        <5> QED  BY <4>2, <5>1 DEF InBundle
      <4>4. q.end = p.end /\ to <= q.end /\ e + 4 <= q.end
        <5>1. q.end = p.end
          BY <1>1
        <5> QED  BY <1>0, <2>14, <5>1
      <4> QED  BY <2>6, <4>3, <4>4 DEF SlotReads
    <3> QED  BY <3>1, <3>2
  <2>8. to \in Ends(q)[e]
    <3>1. to \in Ends(q)[to]
      BY <1>1, EndsCases
    <3> QED  BY <1>1, <2>6, <2>7, <3>1, EndsCases
  <2>9. ASSUME NEW o \in S, o <= e
        PROVE  InBundle(q, Base(p.words[o]), o)
    <3>1. Base(p.words[o]) \in Nat /\ o \in Nat /\ InBundle(p, Base(p.words[o]), o)
      <4>1. p.words[o] \in Nat
        BY <1>1, <2>1
      <4>2. Base(p.words[o]) \in Nat
        BY <4>1 DEF Base
      <4>3. o \in 0..p.end
        BY <2>1
      <4> QED  BY <1>0, <2>1, <4>2, <4>3 DEF Stacked
    <3>2. Agree(p, q, Base(p.words[o]), o)
      <4> SUFFICES ASSUME NEW a \in 0..p.end, a < o
                   PROVE  /\ q.words[a] = p.words[a] /\ q.heads[a] = p.heads[a]
                          /\ q.lists[a] = p.lists[a]
        BY <1>1 DEF Agree
      <4>1. a # e /\ a # p.cursor
        <5>1. e \in Nat /\ o \in Nat /\ a \in Nat
          BY <1>0, <2>14, <3>1
        <5>2. e < p.cursor
          BY <1>0, <2>2, <5>1
        <5> QED  BY <1>0, <2>9, <5>1, <5>2
      <4>2. q.lists[a] = p.lists[a]
        BY <4>1, PacketFields, <1>1 DEF Listed
      <4> QED  BY <1>1, <2>5, <4>1, <4>2
    <3> QED  BY <1>1, <3>1, <3>2, InBundleLocal
  <2>10. InBundle(q, Base(q.element), to)
    <3>1. InBundle(q, Base(p.words[e]), e)
      BY <2>2, <2>6, <2>9
    <3>2. Base(p.words[e]) \in Nat
      BY <2>2 DEF Base
    <3>3. /\ Base(p.words[e]) + 16 <= e /\ q.heads[Base(p.words[e])] = BundleHead
          /\ e \in Ends(q)[Base(p.words[e]) + 16]
      BY <3>1 DEF InBundle
    <3>4. Base(p.words[e]) + 16 \in 0..q.end /\ q.end = p.end
      BY <1>0, <1>1, <2>14, <3>2, <3>3
    <3>5. to \in Ends(q)[Base(p.words[e]) + 16]
      BY <2>8, <3>3, <3>4, EndsConcat
    <3>6. Base(p.words[e]) + 16 <= to /\ to <= q.end
      BY <1>0, <2>14, <3>2, <3>3, <3>4
    <3> QED  BY <2>3, <3>3, <3>5, <3>6 DEF InBundle
  <2> DEFINE T == {o \in S : o < e}
  <2>11. ASSUME NEW o \in T
         PROVE  /\ o + 4 <= to /\ q.words[o] < o /\ (q.words[o] # 0 => q.words[o] \in T)
                /\ o % 4 = 0 /\ InBundle(q, Base(q.words[o]), o)
    <3>1. o \in Nat /\ o < e /\ o \in S /\ q.words[o] = p.words[o] /\ p.words[o] \in Nat
      <4>1. o \in 0..p.end /\ o \in S /\ o < e
        BY <2>1
      <4>2. o \in Nat /\ o # e
        BY <1>0, <2>14, <4>1
      <4> QED  BY <1>1, <2>5, <4>1, <4>2
    <3>2. /\ o % 4 = 0 /\ p.words[o] < o /\ (p.words[o] # 0 => p.words[o] \in S)
      BY <2>1, <3>1 DEF Stacked, SlotsOf
    <3>3. InBundle(q, Base(q.words[o]), o)
      BY <2>6, <2>9, <3>1
    <3>4. o + 4 <= to /\ q.words[o] < e
      BY <1>0, <2>14, <3>1, <3>2
    <3> QED  BY <3>1, <3>2, <3>3, <3>4
  <2>12. T \in SUBSET (0..q.end) /\ (q.element # 0 => q.element \in T)
    BY <1>1, <2>2, <2>3
  <2> HIDE DEF T
  <2>13. Stacked(q, T)
    BY <2>11, <2>12 DEF Stacked, SlotsOf
  <2> QED  BY <2>3, <2>10, <2>12, <2>13 DEF WellFormed, Innermost
<1> QED  BY <1>5, <1>6

(* Closing the innermost bundle, or the message in it. *)
LEMMA EndBundleWellFormed ==
  ASSUME NEW p, PacketInv(p), WellFormed(p), p.isOpen, ~p.inMessage,
         NEW q, q = EndBundle(p)
  PROVE  WellFormed(q)
<1>1. /\ IsPacket(p) /\ Nested(p) /\ q = EndElement(p)
  BY DEF PacketInv, EndBundle
<1>2. /\ IsPacket(q) /\ Unlinked(p, p.cursor, q)
      /\ q.cursor = p.cursor /\ q.args = p.args /\ q.inMessage = p.inMessage
      /\ q.lists = p.lists
  BY <1>1, EndElementFields
<1>3. p.cursor \in 0..p.end /\ p.cursor % 4 = 0 /\ p.args = p.cursor
  BY <1>1, PacketFields DEF WellFormed, Innermost
<1> QED  BY <1>2, <1>3, UnlinkedWellFormed

LEMMA EndMessageWellFormed ==
  ASSUME NEW p, PacketInv(p), WellFormed(p), p.inMessage, p.depth = 0,
         NEW q, q = EndMessage(p)
  PROVE  WellFormed(q)
<1>1. /\ IsPacket(q) /\ Unlinked(p, Size(p), q)
      /\ Size(p) \in Nat /\ p.args < Size(p)
      /\ Size(p) = p.args + RoundUp4(p.tags + 2)
      /\ q.cursor = Size(p) /\ q.args = Size(p) /\ q.inMessage = FALSE
      /\ Listed(p, Size(p), q)
  BY EndMessageFields
<1>2. p.isOpen /\ p.args % 4 = 0 /\ p.args \in Nat /\ p.tags + 2 \in Nat /\ p.end \in Nat
  BY PacketFields DEF WellFormed, PacketInv
<1>3. Size(p) % 4 = 0
  <2>1. RoundUp4(p.tags + 2) \in Nat /\ RoundUp4(p.tags + 2) % 4 = 0
    BY <1>2, RoundUp4Property
  <2> QED  BY <1>1, <1>2, <2>1
<1>4. Size(p) \in 0..p.end /\ p.args <= Size(p)
  BY <1>1, <1>2 DEF PacketInv, Fits
<1> QED  BY <1>1, <1>2, <1>3, <1>4, UnlinkedWellFormed

(* An argument of whole 32 bit words, added to a message. *)
LEMMA AppendedWellFormed ==
  ASSUME NEW p, PacketInv(p), WellFormed(p), p.inMessage, NEW bytes \in Nat, bytes % 4 = 0,
         NEW q, IsPacket(q), Appended(p, q, bytes)
  PROVE  WellFormed(q)
<1>1. /\ IsPacket(q) /\ q.end = p.end /\ IsPacket(p)
      /\ q.args = p.args + bytes /\ q.cursor = p.cursor
      /\ q.inMessage = p.inMessage /\ q.isOpen = p.isOpen /\ q.element = p.element
      /\ q.words = p.words /\ q.heads = p.heads /\ q.lists = p.lists
  BY DEF PacketInv, Appended
<1>2. /\ p.isOpen /\ p.args % 4 = 0 /\ p.args \in 0..p.end /\ p.end \in Nat /\ p.element \in 0..p.end
      /\ p.heads \in [0..p.end -> Nat] /\ p.words \in [0..p.end -> Nat]
      /\ InMessage(p, Base(p.element))
  BY <1>1, PacketFields DEF WellFormed, Innermost
<1>3. InMessage(q, Base(q.element))
  BY <1>1, <1>2 DEF InMessage
<1>4. \E S \in SUBSET (0..q.end) : Stacked(q, S)
  <2>1. PICK S \in SUBSET (0..p.end) : Stacked(p, S)
    BY <1>2 DEF WellFormed
  <2>2. SlotsOf(q, S)
    BY <1>1, <2>1 DEF Stacked, SlotsOf
  <2>3. ASSUME NEW o \in S  PROVE o % 4 = 0 /\ InBundle(q, Base(q.words[o]), o)
    <3>1. o \in Nat /\ Base(p.words[o]) \in Nat /\ q.words[o] = p.words[o]
      <4>1. o \in 0..p.end /\ p.words[o] \in Nat
        BY <1>2, <2>1
      <4> QED  BY <1>1, <1>2, <4>1 DEF Base
    <3>2. o % 4 = 0 /\ InBundle(p, Base(p.words[o]), o)
      BY <2>1 DEF Stacked
    <3>3. Agree(p, q, Base(p.words[o]), o)
      BY <1>1 DEF Agree
    <3> QED  BY <1>1, <3>1, <3>2, <3>3, InBundleLocal
  <2> QED  BY <1>1, <2>1, <2>2, <2>3 DEF Stacked
<1>5. q.args % 4 = 0 /\ q.cursor % 4 = 0
  <2>1. p.cursor % 4 = 0
    BY DEF WellFormed
  <2>2. p.args \in Nat
    BY <1>2
  <2>3. (p.args + bytes) % 4 = 0
    BY <1>2, <2>2, WholeWords
  <2> QED  BY <1>1, <2>1, <2>3
<1> QED  BY <1>1, <1>2, <1>3, <1>4, <1>5 DEF WellFormed, Innermost

(* What is closed and not empty can be read. *)
LEMMA ReadyReads ==
  ASSUME NEW p, PacketInv(p), WellFormed(p), IsReady(p), Size(p) > 0
  PROVE  Reads(p, Size(p))
<1>1. ~p.inMessage /\ ~p.isOpen /\ p.args = p.cursor /\ p.args \in Nat
  BY PacketFields DEF IsReady, WellFormed, PacketInv
<1>2. Size(p) = p.cursor
  BY <1>1 DEF Size
<1> QED  BY <1>1, <1>2 DEF WellFormed

(* A packet that satisfies the invariant is not longer than the buffer. *)
LEMMA SizeBound ==
  ASSUME NEW p, PacketInv(p)
  PROVE  Size(p) \in Nat /\ Size(p) <= p.end
<1>1. p.args \in Nat /\ p.tags + 2 \in Nat
  BY PacketFields DEF PacketInv
<1>2. RoundUp4(p.tags + 2) \in Nat
  BY <1>1, RoundUp4Property
<1>3. Size(p) <= p.end
  BY DEF PacketInv, Fits
<1> QED  BY <1>1, <1>2, <1>3 DEF Size

-----------------------------------------------------------------------------
(***************************************************************************)
(* A bundle with one message in it, the packet of OSCSender and OSCMsg.    *)
(* Until it is closed, the message is the innermost element: its slot is   *)
(* the 4 bytes at 16, behind the head of the bundle, and holds the offset  *)
(* 0 of the bundle itself.                                                 *)
(***************************************************************************)
BeingBuilt(p) ==
  /\ p.inMessage
  /\ p.isOpen
  /\ p.element = 16
  /\ p.words[16] = 0
  /\ p.depth = 0

LEMMA MsgPacket ==
  ASSUME NEW capacity \in Nat, NEW length \in Nat,
         NEW n, n = NewPacket(capacity), BundleFits(n),
         NEW b, b = BeginBundle(n), MessageFits(b, length),
         NEW q, q = BeginMessage(b, length)
  PROVE  PacketInv(q) /\ q.end = capacity /\ q.tags = 0 /\ BeingBuilt(q) /\ WellFormed(q)
<1>1. /\ PacketInv(n) /\ n.end = capacity /\ n.cursor = 0 /\ ~n.isOpen /\ ~n.inMessage
      /\ WellFormed(n)
  BY NewPacketInv, NewPacketWellFormed
<1>2. PacketInv(b) /\ b.end = capacity
  BY <1>1, BeginBundleInv
<1>3. WellFormed(b)
  BY <1>1, BeginBundleWellFormed
<1>4. b.isOpen /\ ~b.inMessage /\ b.element = 0 /\ b.cursor = 16
  <2>1. Linked(n, b) /\ b.cursor = StartAt(n) + 16 /\ b.inMessage = FALSE
    BY <1>1, BeginBundleFields
  <2>2. StartAt(n) = 0
    BY <1>1 DEF StartAt, SlotSize
  <2> QED  BY <1>1, <2>1, <2>2 DEF Linked
<1>5. PacketInv(q) /\ q.end = capacity
  BY <1>2, <1>4, BeginMessageInv
<1>6. WellFormed(q)
  BY <1>2, <1>3, <1>4, BeginMessageWellFormed
<1>7. Linked(b, q) /\ q.inMessage /\ q.tags = 0 /\ q.depth = 0
  BY <1>2, <1>4, BeginMessageFields
<1>8. q.isOpen /\ q.element = 16 /\ q.words[16] = 0
  <2>1. b.words \in [0..b.end -> Nat] /\ 16 \in 0..b.end
    BY <1>2, <1>4, PacketFields DEF PacketInv
  <2> QED  BY <1>4, <1>7, <2>1 DEF Linked
<1> QED  BY <1>5, <1>6, <1>7, <1>8 DEF BeingBuilt

(* Closing the message and its bundle makes the packet ready, and it is    *)
(* then as long as it said it would be.                                    *)
LEMMA ClosedPacket ==
  ASSUME NEW p, PacketInv(p), BeingBuilt(p), NEW q, q = EndBundle(EndMessage(p))
  PROVE  /\ PacketInv(q) /\ q.end = p.end /\ IsReady(q)
         /\ Size(q) = Size(p) /\ Size(p) > 0
         /\ WellFormed(p) => WellFormed(q)
<1> DEFINE e == EndMessage(p)
<1>1. p.inMessage /\ p.isOpen /\ p.element = 16 /\ p.words[16] = 0 /\ p.depth = 0
  BY DEF BeingBuilt
<1>2. PacketInv(e) /\ e.end = p.end /\ Size(e) = Size(p)
  BY <1>1, EndMessageInv
<1>3. /\ Unlinked(p, Size(p), e) /\ e.inMessage = FALSE
      /\ Size(p) \in Nat /\ p.args < Size(p)
  BY <1>1, EndMessageFields
<1>4. WellFormed(p) => WellFormed(e)
  BY <1>1, EndMessageWellFormed
<1> HIDE DEF e
<1>5. e.element = 0 /\ e.isOpen /\ ~e.inMessage
  <2>1. e.element = p.words[p.element] /\ e.isOpen = p.isOpen
    <3>1. p.element # 0
      BY <1>1
    <3> QED  BY <1>3, <3>1 DEF Unlinked
  <2> QED  BY <1>1, <1>3, <2>1
<1>6. q = EndBundle(e)
  BY DEF e
<1>7. PacketInv(q) /\ q.end = e.end /\ Size(q) = Size(e)
  BY <1>2, <1>5, <1>6, EndBundleInv
<1>8. IsReady(q)
  <2>1. IsPacket(e) /\ Nested(e) /\ q = EndElement(e)
    BY <1>2, <1>6 DEF PacketInv, EndBundle
  <2>2. Unlinked(e, e.cursor, q) /\ q.inMessage = e.inMessage
    BY <2>1, EndElementFields
  <2> QED  BY <1>5, <2>2 DEF Unlinked, IsReady
<1>9. WellFormed(p) => WellFormed(q)
  BY <1>2, <1>4, <1>5, <1>6, EndBundleWellFormed
<1>10. Size(p) > 0
  BY <1>3, PacketFields DEF PacketInv
<1> QED  BY <1>2, <1>7, <1>8, <1>9, <1>10

(* An argument leaves an open message open and a closed packet closed. *)
LEMMA AppendedPacket ==
  ASSUME NEW p, PacketInv(p), NEW bytes \in Nat, ArgumentFits(p, bytes),
         NEW q, q = AddArgument(p, bytes)
  PROVE  /\ PacketInv(q) /\ q.end = p.end /\ q.tags = p.tags + 1
         /\ BeingBuilt(p) => BeingBuilt(q)
         /\ IsReady(p) => IsReady(q)
         /\ WellFormed(p) /\ p.inMessage /\ bytes % 4 = 0 => WellFormed(q)
<1>1. IsPacket(q) /\ Appended(p, q, bytes) /\ q.depth = p.depth
  BY AddArgumentFields DEF PacketInv
<1>2. PacketInv(q)
  BY <1>1, AppendedInv
<1>3. WellFormed(p) /\ p.inMessage /\ bytes % 4 = 0 => WellFormed(q)
  BY <1>1, AppendedWellFormed
<1> QED  BY <1>1, <1>2, <1>3 DEF Appended, BeingBuilt, IsReady

(* A bracket is a tag without bytes. *)
LEMMA BracketedPacket ==
  ASSUME NEW p, PacketInv(p), NEW level \in Int, ArgumentFits(p, 0),
         NEW q, q = AddBracket(p, level)
  PROVE  /\ PacketInv(q) /\ q.end = p.end
         /\ WellFormed(p) /\ p.inMessage => WellFormed(q)
<1>1. IsPacket(q) /\ Appended(p, q, 0)
  BY AddBracketFields DEF PacketInv
<1>2. PacketInv(q)
  BY <1>1, AppendedInv
<1>3. WellFormed(p) /\ p.inMessage => WellFormed(q)
  BY <1>1, AppendedWellFormed
<1> QED  BY <1>1, <1>2, <1>3 DEF Appended

(* Strings and blobs take whole 32 bit words. *)
LEMMA ArgumentWords ==
  ASSUME NEW n \in Nat
  PROVE  /\ StringBytes(n) \in Nat /\ StringBytes(n) % 4 = 0
         /\ BlobBytes(n) \in Nat /\ BlobBytes(n) % 4 = 0
BY DEF StringBytes, BlobBytes, RoundUp4
====
