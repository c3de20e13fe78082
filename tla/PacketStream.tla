----------------------------- MODULE PacketStream -----------------------------
(***************************************************************************)
(* osc::OutboundPacketStream (oscpack/osc/OscOutboundPacketStream.cpp): a  *)
(* packet under construction in a buffer, and what each operator<< makes   *)
(* of it.                                                                  *)
(*                                                                         *)
(* Pointers are offsets from data_.  Type tags are written backwards from  *)
(* the end of the buffer while a message is built, and are only counted.   *)
(* Of the bytes written, a packet keeps those that a reader needs to find  *)
(* the elements again and to accept them: the 32 bit words of the size     *)
(* slots; at the start of an element whether it is a bundle or how long    *)
(* its address is; and where the type tags of a message begin, how many    *)
(* bytes they and the arguments take and whether the brackets balance.     *)
(* What else the reader checks of a tag and its argument cannot fail: each *)
(* operator<< writes a tag of its own, the bytes that this tag announces,  *)
(* and a terminator behind every string.                                   *)
(***************************************************************************)
EXTENDS Integers

RoundUp4(n) == 4 * ((n + 3) \div 4)

BundleHead == 0      \* "#bundle" at the start of an element, where a message has its
                     \* address: RoundUp4(length + 1) bytes, so 4 at least

\* The type tags and the arguments of a closed message.
List ==
  [size     : Nat,      \* bytes of the comma, the tags, their terminator and the arguments
   balanced : BOOLEAN]  \* as many arrays are ended as are begun

\* In a buffer of "capacity" bytes.
Packet(capacity) ==
  [end       : {capacity},             \* end_
   args      : 0..capacity,            \* argumentCurrent_
   cursor    : 0..capacity,            \* messageCursor_
   tags      : 0..capacity,            \* end_ - typeTagsCurrent_
   depth     : Int,                    \* arrays begun and not ended by these tags
   inMessage : BOOLEAN,                \* messageIsInProgress_
   isOpen    : BOOLEAN,                \* elementSizePtr_ # 0
   element   : 0..capacity,            \* elementSizePtr_; 0, the buffer itself, has no slot
   words     : [0..capacity -> Nat],   \* the 32 bit words stored in size slots
   heads     : [0..capacity -> Nat],   \* what an element starts with
   lists     : [0..capacity -> List]]  \* what begins behind an address

\* A byte that no operation has written has some value: one that no reader accepts.
Unwritten(capacity) == [o \in 0..capacity |-> capacity + 1]

NoLists(capacity) ==
  [o \in 0..capacity |-> [size |-> capacity + 1, balanced |-> FALSE]]

NewPacket(capacity) ==
  [end |-> capacity, args |-> 0, cursor |-> 0, tags |-> 0, depth |-> 0,
   inMessage |-> FALSE, isOpen |-> FALSE, element |-> 0,
   words |-> Unwritten(capacity), heads |-> Unwritten(capacity), lists |-> NoLists(capacity)]

Size(p) == p.args + IF p.inMessage THEN RoundUp4(p.tags + 2) ELSE 0

IsReady(p) == ~p.inMessage /\ ~p.isOpen

-----------------------------------------------------------------------------
(***************************************************************************)
(* Size slots.  While an element is open its slot holds the offset of the  *)
(* slot of the enclosing element; EndElement exchanges it for the size.    *)
(***************************************************************************)
MutantBeginElementUnlinked(p) ==
  IF p.isOpen
    THEN [p EXCEPT !.words[p.cursor] = p.cursor, !.element = p.cursor, !.cursor = @ + 4]
    ELSE [p EXCEPT !.isOpen = TRUE, !.element = 0]

BeginElement(p) ==
  IF p.isOpen
    THEN [p EXCEPT !.words[p.cursor] = p.element, !.element = p.cursor, !.cursor = @ + 4]
    ELSE [p EXCEPT !.isOpen = TRUE, !.element = 0]

MutantEndElementWithSlot(p) ==
  IF p.element # 0
    THEN [p EXCEPT !.words[p.element] = p.cursor - p.element, !.element = p.words[p.element]]
    ELSE [p EXCEPT !.isOpen = FALSE]

\* A size does not count its own slot.
EndElement(p) ==
  IF p.element # 0
    THEN [p EXCEPT !.words[p.element] = p.cursor - p.element - 4,
                   !.element = p.words[p.element]]
    ELSE [p EXCEPT !.isOpen = FALSE]

SlotSize(p) == IF p.isOpen THEN 4 ELSE 0

-----------------------------------------------------------------------------
(***************************************************************************)
(* The checks that come first in an operator<<: when one fails, it throws  *)
(* and the packet stays as it was.                                         *)
(***************************************************************************)
BundleFits(p) == Size(p) + SlotSize(p) + 16 <= p.end

MutantMessageFitsWithoutSlot(p, length) == Size(p) + RoundUp4(length + 1) + 4 <= p.end

MessageFits(p, length) == Size(p) + SlotSize(p) + RoundUp4(length + 1) + 4 <= p.end

MutantArgumentFitsOneLess(p, bytes) == p.args + bytes + RoundUp4(p.tags + 2) <= p.end

\* Three for the new tag, the comma and the terminator.
ArgumentFits(p, bytes) == p.args + bytes + RoundUp4(p.tags + 3) <= p.end

-----------------------------------------------------------------------------
BeginBundle(p) ==
  LET b == BeginElement(p)
  IN  [b EXCEPT !.heads[b.cursor] = BundleHead,
                !.cursor = b.cursor + 16,
                !.args = b.cursor + 16]

EndBundle(p) == EndElement(p)

BeginMessage(p, length) ==
  LET b == BeginElement(p)
  IN  [b EXCEPT !.heads[b.cursor] = RoundUp4(length + 1),
                !.cursor = b.cursor + RoundUp4(length + 1),
                !.args = b.cursor + RoundUp4(length + 1),
                !.tags = 0,
                !.depth = 0,
                !.inMessage = TRUE]

MutantEndMessageUnterminated(p) ==
  LET end  == p.args + RoundUp4(p.tags + 1)
      list == [size |-> end - p.cursor, balanced |-> p.depth = 0]
  IN  [EndElement([p EXCEPT !.cursor = end, !.args = end, !.tags = 0, !.depth = 0,
                            !.lists[p.cursor] = list]) EXCEPT !.inMessage = FALSE]

\* The arguments move up to make room for the comma, the tags and the terminator.
EndMessage(p) ==
  LET end  == p.args + RoundUp4(p.tags + 2)
      list == [size |-> end - p.cursor, balanced |-> p.depth = 0]
  IN  [EndElement([p EXCEPT !.cursor = end, !.args = end, !.tags = 0, !.depth = 0,
                            !.lists[p.cursor] = list]) EXCEPT !.inMessage = FALSE]

AddArgument(p, bytes) == [p EXCEPT !.args = @ + bytes, !.tags = @ + 1]

\* '[' and ']' are tags without bytes.
AddBracket(p, level) == [AddArgument(p, 0) EXCEPT !.depth = @ + level]

\* The bytes of a string and of a blob.
StringBytes(length) == RoundUp4(length + 1)
BlobBytes(size)     == 4 + RoundUp4(size)

-----------------------------------------------------------------------------
(***************************************************************************)
(* What a reader makes of the bytes (ReceivedBundle::Init and              *)
(* ReceivedMessage::Init).                                                 *)
(***************************************************************************)
\* The tags are terminated, the arguments are inside the message, and every array
\* ends in it.  Without a tag there is no argument and no array either.
TagsRead(p, from, to) ==
  /\ from + p.lists[from].size <= to
  /\ p.lists[from].balanced

\* A message may end behind its address.
MessageReads(p, from, to) ==
  /\ to > from
  /\ (to - from) % 4 = 0
  /\ from + p.heads[from] <= to
  /\ from + p.heads[from] < to => TagsRead(p, from + p.heads[from], to)

NextSlot(p, slot) == slot + 4 + p.words[slot]

\* The element of a slot; "ends" tells where the elements of a bundle may end.
SlotReads(p, slot, ends) ==
  /\ slot + 4 <= p.end
  /\ p.words[slot] % 4 = 0
  /\ NextSlot(p, slot) <= p.end
  /\ IF p.heads[slot + 4] = BundleHead
       THEN slot + 20 <= NextSlot(p, slot) /\ NextSlot(p, slot) \in ends[slot + 20]
       ELSE MessageReads(p, slot + 4, NextSlot(p, slot))

\* The offsets where a sequence of well-formed elements that starts at "from" may end.
Ends(p) ==
  LET ends[from \in 0..p.end] ==
        {from} \cup IF SlotReads(p, from, ends) THEN ends[NextSlot(p, from)] ELSE {}
  IN  ends

\* The first "size" bytes are a packet of which no element is refused.
Reads(p, size) ==
  IF p.heads[0] = BundleHead
    THEN 16 <= size /\ size % 4 = 0 /\ size \in Ends(p)[16]
    ELSE MessageReads(p, 0, size)
====
