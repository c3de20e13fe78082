---------------------------- MODULE PacketMeaning ----------------------------
(***************************************************************************)
(* What a datagram says: a reference for PacketListener, which gets there  *)
(* step by step.  A datagram is a sequence of bytes; its meaning are the   *)
(* messages it holds up to the first fault, and how its parsing ends:      *)
(* "done", "malformed" when there is a fault, or "never" when a bundle has *)
(* a slot of the one size that leads the parser back to the slot.          *)
(*                                                                         *)
(* There are no iterators here, no exceptions and nothing behind the       *)
(* bytes.  Brackets are counted, not levels, and slots are added up        *)
(* without a limit.                                                        *)
(***************************************************************************)
EXTENDS ReceivedElements, FiniteSets

Silent(ends) == [messages |-> <<>>, ends |-> ends]
Refused      == Silent("malformed")
Holds(m)     == [messages |-> <<m>>, ends |-> "done"]

\* A fault costs all that comes behind it.
FollowedBy(first, second) ==
  IF first.ends = "done"
    THEN [messages |-> first.messages \o second.messages, ends |-> second.ends]
    ELSE [messages |-> first.messages, ends |-> first.ends]

-----------------------------------------------------------------------------
(***************************************************************************)
(* Messages.  An argument has room when it lies inside the message; a      *)
(* blob always has, since what does not fit is not refused.                *)
(***************************************************************************)
HasRoom(b, tag, place, end) ==
  \/ tag \in EmptyTags \cup ArrayTags \cup {BlobTag}
  \/ tag \in WordTags /\ place + 4 <= end
  \/ tag \in DoubleTags /\ place + 8 <= end
  \/ tag \in StringTags /\ FindStr4End(b, place, end) # Null

After(b, tag, place, end) ==
  CASE tag \in WordTags   -> place + 4
    [] tag \in DoubleTags -> place + 8
    [] tag \in StringTags -> FindStr4End(b, place, end)
    [] tag = BlobTag      -> BlobEnd(place, Word(b, place))
    [] OTHER              -> place

\* Where the arguments are, the first of them at "arguments".
Places(b, tags, arguments, end) ==
  LET place[i \in 1..Len(tags)] ==
        IF i = 1 THEN arguments ELSE After(b, tags[i - 1], place[i - 1], end)
  IN  place

\* A blob of which not even the size lies inside the message.
StrayBlob(b, from, end) ==
  LET comma     == FindStr4End(b, from, end)
      tags      == CString(b, comma + 1)
      arguments == FindStr4End(b, comma, end)
  IN  \E i \in 1..Len(tags) :
        tags[i] = BlobTag /\ Places(b, tags, arguments, end)[i] + 4 > end

Count(tags, t) == Cardinality({i \in 1..Len(tags) : tags[i] = t})

Balanced(tags) == Count(tags, ArrayBeginTag) = Count(tags, ArrayEndTag)

BareMessageAt(b, from) == Holds([address |-> CString(b, from), typetag |-> <<>>, args |-> <<>>])

MessageWith(b, from, end, tags, places) ==
  IF Balanced(tags) /\ \A i \in 1..Len(tags) : HasRoom(b, tags[i], places[i], end)
    THEN Holds([address |-> CString(b, from),
                typetag |-> tags,
                args    |-> [i \in 1..Len(tags) |-> ValueOf(b, tags[i], places[i])]])
    ELSE Refused

TaggedMessageAt(b, from, end, comma) ==
  LET tags      == CString(b, comma + 1)
      arguments == FindStr4End(b, comma, end)
  IN  IF arguments = Null
        THEN Refused
        ELSE MessageWith(b, from, end, tags, Places(b, tags, arguments, end))

MessageAt(b, from, end) ==
  LET comma == FindStr4End(b, from, end)
  IN  IF end <= from \/ (end - from) % 4 # 0 \/ comma = Null THEN Refused
      ELSE IF comma = end THEN BareMessageAt(b, from)
      ELSE IF Byte(b, comma) # Comma THEN Refused
      ELSE IF Byte(b, comma + 1) = 0 THEN BareMessageAt(b, from)
      ELSE TaggedMessageAt(b, from, end, comma)

-----------------------------------------------------------------------------
(***************************************************************************)
(* Bundles.  The contents of a bundle are its elements from one slot to    *)
(* its end.  The slots come first: they are "done" when each leads to      *)
(* another one or to the end, and a bundle of which they are not says      *)
(* nothing.                                                                *)
(***************************************************************************)
HasBundleHead(b, from, end) ==
  /\ end - from >= 16
  /\ (end - from) % 4 = 0
  /\ \A i \in 1..8 : Byte(b, from + i - 1) = BundleHeader[i]

\* "contents" is the contents of all smaller bundles.
ElementAt(b, from, end, contents) ==
  IF end > from /\ Byte(b, from) = Hash
    THEN LET inside == contents[<<from + 16, end>>]
         IN  IF ~HasBundleHead(b, from, end) THEN Refused
             ELSE IF inside.slots # "done" THEN Silent(inside.slots)
             ELSE inside.says
    ELSE MessageAt(b, from, end)

\* A size of 2^32 - 4 and the 4 bytes of the slot are 2^32 bytes, and none in 32 bits.
SlotIsEndless(b, slot, end) == slot + 4 <= end /\ Word(b, slot) = Wrap - 4

SlotAfter(b, slot) == slot + 4 + Word(b, slot)

SlotFits(b, slot, end) ==
  slot + 4 <= end /\ Word(b, slot) % 4 = 0 /\ SlotAfter(b, slot) <= end

NoMore(slots) == [slots |-> slots, says |-> Silent(slots)]

ContentsAt(b, slot, end, contents) ==
  IF slot = end THEN NoMore("done")
  ELSE IF SlotIsEndless(b, slot, end) THEN NoMore("never")
  ELSE IF ~SlotFits(b, slot, end) THEN NoMore("malformed")
  ELSE LET rest  == contents[<<SlotAfter(b, slot), end>>]
           first == ElementAt(b, slot + 4, SlotAfter(b, slot), contents)
       IN  [slots |-> rest.slots, says |-> FollowedBy(first, rest.says)]

Contents(b) ==
  LET contents[s \in (0..Len(b)) \X (0..Len(b))] == ContentsAt(b, s[1], s[2], contents)
  IN  contents

Meaning(b) ==
  IF Len(b) > 0 /\ Len(b) % 4 = 0 THEN ElementAt(b, 0, Len(b), Contents(b)) ELSE Refused
====
