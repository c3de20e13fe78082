---------------------------- MODULE PacketListener ----------------------------
(***************************************************************************)
(* The way of a datagram from the receive buffer to the listener           *)
(* (oscpack/osc/OscPacketListener.h): ProcessPacket, the nested calls of   *)
(* ProcessBundle, the checks of ReceivedBundle::Init and                   *)
(* ReceivedMessage::Init, and the conversion into an oscmsg_data           *)
(* (src/osc_msg.h) that OSCReceiver::ProcessMessage queues.                *)
(*                                                                         *)
(* Everything runs on one thread.  Each iteration of a loop is a step: a   *)
(* bundle is checked slot by slot before its first element is looked at,   *)
(* a message tag by tag before its arguments are converted.  An exception  *)
(* ends the packet, and the messages delivered before it stay delivered.   *)
(*                                                                         *)
(* The buffer is the one of the receive loop.  It is used for every        *)
(* datagram, so behind a short datagram there are bytes of longer ones     *)
(* that came before.  The size of a blob may even be read behind the       *)
(* buffer: memory that is not there ends the program, and memory that is   *)
(* holds anything, not always the same.                                    *)
(***************************************************************************)
EXTENDS PacketMeaning

CONSTANTS
  Datagrams,     \* the datagrams that may come, sequences of bytes
  BufferSize,    \* MAX_BUFFER_SIZE
  Garbage,       \* the words that memory outside the buffer may hold
  MaxDatagrams   \* bound: how many come

\* ReceivedPacket refuses sizes that an int32 cannot represent.
ASSUME BufferAssumption == BufferSize \in Nat /\ BufferSize <= Int32Max

ASSUME GarbageAssumption == Garbage \subseteq 0..(Wrap - 1)

ASSUME BoundsAssumption == MaxDatagrams \in Nat

ASSUME DatagramsAssumption == \A d \in Datagrams : d \in Seq(Bytes) /\ Len(d) > 0

VARIABLES
  datagram,    \* the datagram being processed, or the last one
  received,    \* how many there have been
  buffer,      \* the bytes of the receive buffer
  size,        \* how many of them were received
  pc,          \* the code that runs next
  stack,       \* the bundles being iterated, innermost last: the iterator, the end, and
               \* as history the slots that Init has found
  from, end,   \* the element being opened
  cursor,      \* p of ReceivedBundle::Init, "argument" of ReceivedMessage::Init and
               \* argumentPtr_ of the iterator over the arguments
  slots,       \* history: the slots of the bundle being checked
  tag,         \* typeTag of ReceivedMessage::Init and typeTagPtr_ of the iterator
  tags,        \* typeTagsBegin_, typeTagsEnd_ and arguments_
  level,       \* arrayLevel
  checked,     \* history: where Init has found the arguments
  values,      \* the arguments converted so far
  delivered,   \* the messages of this packet given to the receiver's queue
  outcome      \* how the packet ended: "done" or "malformed"

input   == <<datagram, received, buffer, size>>
element == <<from, end>>
message == <<tag, tags, level, checked, values>>
parsing == <<element, cursor, slots, message>>
result  == <<delivered, outcome>>
vars == <<input, pc, stack, parsing, result>>

NoTags == [begin |-> Null, stop |-> Null, arguments |-> Null]

B(o) == Byte(buffer, o)
W(o) == Word(buffer, o)

Top == stack[Len(stack)]

Overlay(b, bytes) == [i \in 1..BufferSize |-> IF i <= Len(bytes) THEN bytes[i] ELSE b[i]]

\* What has arrived of the datagram.
Received == SubSeq(datagram, 1, size)

-----------------------------------------------------------------------------
\* recvfrom() cuts a datagram that does not fit.
Receive ==
  \E d \in Datagrams :
    /\ pc = "idle"
    /\ received < MaxDatagrams
    /\ received' = received + 1
    /\ datagram' = d
    /\ buffer' = Overlay(buffer, d)
    /\ size' = IF Len(d) < BufferSize THEN Len(d) ELSE BufferSize
    /\ delivered' = <<>>
    /\ pc' = "packet"
    /\ UNCHANGED <<stack, parsing, outcome>>

\* An exception unwinds every ProcessBundle and leaves ProcessPacket.
Throw ==
  /\ pc' = "idle"
  /\ stack' = <<>>
  /\ outcome' = "malformed"
  /\ UNCHANGED <<input, parsing, delivered>>

\* IsBundle() of a packet and of an element.
Open(first, last) ==
  /\ pc' = IF last > first /\ B(first) = Hash THEN "bundle" ELSE "message"
  /\ from' = first
  /\ end' = last

ValidateSize == size > 0 /\ size % 4 = 0

ProcessPacket ==
  /\ pc = "packet"
  /\ IF ValidateSize
       THEN /\ Open(0, size)
            /\ UNCHANGED <<input, stack, cursor, slots, message, result>>
       ELSE Throw

-----------------------------------------------------------------------------
(***************************************************************************)
(* ReceivedBundle::Init                                                    *)
(***************************************************************************)
BundleHead ==
  /\ pc = "bundle"
  /\ IF /\ end - from >= 16
        /\ (end - from) % 4 = 0
        /\ \A i \in 1..8 : B(from + i - 1) = BundleHeader[i]
       THEN /\ pc' = "slots"
            /\ cursor' = from + 16
            /\ slots' = {}
            /\ UNCHANGED <<input, stack, element, message, result>>
       ELSE Throw

\* OSC_SIZEOF_INT32 + elementSize is a uint32.  With an element size of 2^32 - 4 it
\* is 0, and the loop over the slots never leaves this one.
NextSlot(p) == p + ((4 + W(p)) % Wrap)

MutantSlotUnbounded ==
  /\ pc = "slots"
  /\ cursor < end
  /\ IF W(cursor) % 4 = 0
       THEN /\ cursor' = NextSlot(cursor)
            /\ slots' = slots \cup {cursor}
            /\ UNCHANGED <<input, pc, stack, element, message, result>>
       ELSE Throw

MutantSlotStays ==
  /\ pc = "slots"
  /\ cursor < end
  /\ IF cursor + 4 <= end /\ W(cursor) % 4 = 0 /\ NextSlot(cursor) <= end
       THEN /\ cursor' = cursor + W(cursor)
            /\ slots' = slots \cup {cursor}
            /\ UNCHANGED <<input, pc, stack, element, message, result>>
       ELSE Throw

Slot ==
  /\ pc = "slots"
  /\ cursor < end
  /\ IF cursor + 4 <= end /\ W(cursor) % 4 = 0 /\ NextSlot(cursor) <= end
       THEN /\ cursor' = NextSlot(cursor)
            /\ slots' = slots \cup {cursor}
            /\ UNCHANGED <<input, pc, stack, element, message, result>>
       ELSE Throw

\* ProcessBundle begins to iterate.
SlotsEnd ==
  /\ pc = "slots"
  /\ cursor >= end
  /\ pc' = "elements"
  /\ stack' = Append(stack, [at |-> from + 16, end |-> end, slots |-> slots])
  /\ UNCHANGED <<input, parsing, result>>

-----------------------------------------------------------------------------
(***************************************************************************)
(* ProcessBundle                                                           *)
(***************************************************************************)
Element ==
  /\ pc = "elements"
  /\ Top.at # Top.end
  /\ Open(Top.at + 4, Top.at + 4 + SignedWord(buffer, Top.at))
  /\ UNCHANGED <<input, stack, cursor, slots, message, result>>

\* What follows an element when the bundles "open" are still iterated: ++i in
\* the innermost of them, or the return of ProcessPacket.
Continue(open) ==
  IF open = <<>>
    THEN pc' = "idle" /\ stack' = <<>> /\ outcome' = "done"
    ELSE /\ pc' = "elements"
         /\ stack' = [open EXCEPT ![Len(open)].at = @ + 4 + SignedWord(buffer, @)]
         /\ UNCHANGED outcome

MutantBundleEndForgetsParent ==
  /\ pc = "elements"
  /\ Top.at = Top.end
  /\ Continue(<<>>)
  /\ UNCHANGED <<input, parsing, delivered>>

BundleEnd ==
  /\ pc = "elements"
  /\ Top.at = Top.end
  /\ Continue(SubSeq(stack, 1, Len(stack) - 1))
  /\ UNCHANGED <<input, parsing, delivered>>

-----------------------------------------------------------------------------
(***************************************************************************)
(* ReceivedMessage::Init                                                   *)
(***************************************************************************)
AddressEnd == FindStr4End(buffer, from, end)

\* A message without type tags, or with an empty list of them, has no arguments.
BareMessage ==
  /\ tags' = NoTags
  /\ tag' = Null
  /\ cursor' = Null
  /\ pc' = "convert"

TaggedMessage(comma, arguments) ==
  /\ tags' = [begin |-> comma + 1, stop |-> Null, arguments |-> arguments]
  /\ tag' = comma + 1
  /\ cursor' = arguments
  /\ pc' = "tags"

MessageHead ==
  /\ pc = "message"
  /\ IF \/ end = from
        \/ (end - from) % 4 # 0
        \/ AddressEnd = Null
        \/ AddressEnd # end /\ B(AddressEnd) # Comma
        \/ /\ AddressEnd # end
           /\ B(AddressEnd + 1) # 0
           /\ FindStr4End(buffer, AddressEnd, end) = Null
       THEN Throw
       ELSE /\ IF AddressEnd = end \/ B(AddressEnd + 1) = 0
                 THEN BareMessage
                 ELSE TaggedMessage(AddressEnd, FindStr4End(buffer, AddressEnd, end))
            /\ level' = 0
            /\ checked' = <<>>
            /\ values' = <<>>
            /\ UNCHANGED <<input, stack, element, slots, result>>

MutantTagIsFineFromItsStart(t, argument) ==
  \/ B(t) \in EmptyTags \cup ArrayTags \cup {BlobTag}
  \/ B(t) \in WordTags \cup DoubleTags /\ argument # end
  \/ B(t) \in StringTags /\ argument # end /\ FindStr4End(buffer, argument, end) # Null

(***************************************************************************)
(* One turn of the loop over the type tags.  The two errors of a blob that *)
(* does not fit are constructed and not thrown.                            *)
(***************************************************************************)
TagIsFine(t, argument) ==
  \/ B(t) \in EmptyTags \cup ArrayTags \cup {BlobTag}
  \/ B(t) \in WordTags /\ argument # end /\ argument + 4 <= end
  \/ B(t) \in DoubleTags /\ argument # end /\ argument + 8 <= end
  \/ B(t) \in StringTags /\ argument # end /\ FindStr4End(buffer, argument, end) # Null

\* Nothing but a blob is looked at without a check before.
OutsideTheBuffer(t, argument) == B(t) = BlobTag /\ argument + 4 > BufferSize

\* The words that may be read as the size of a blob.
SizeWords(t, argument) ==
  IF OutsideTheBuffer(t, argument) THEN Garbage ELSE {W(argument)}

MutantCheckedEndForgetsSize(t, argument, word) ==
  IF B(t) \in WordTags THEN argument + 4
  ELSE IF B(t) \in DoubleTags THEN argument + 8
  ELSE IF B(t) \in StringTags THEN FindStr4End(buffer, argument, end)
  ELSE IF B(t) = BlobTag THEN argument + RoundUp4(word)
  ELSE argument

CheckedEnd(t, argument, word) ==
  IF B(t) \in WordTags THEN argument + 4
  ELSE IF B(t) \in DoubleTags THEN argument + 8
  ELSE IF B(t) \in StringTags THEN FindStr4End(buffer, argument, end)
  ELSE IF B(t) = BlobTag THEN BlobEnd(argument, word)
  ELSE argument

MutantCheckTagSigned ==
  /\ pc = "tags"
  /\ IF TagIsFine(tag, cursor)
       THEN /\ checked' = Append(checked, cursor)
            /\ \E word \in SizeWords(tag, cursor) : cursor' = CheckedEnd(tag, cursor, word)
            /\ level' = IF B(tag) = ArrayBeginTag THEN level + 1
                        ELSE IF B(tag) = ArrayEndTag THEN level - 1
                        ELSE level
            /\ tag' = tag + 1
            /\ pc' = IF B(tag + 1) # 0 THEN "tags" ELSE "level"
            /\ UNCHANGED <<input, stack, element, slots, tags, values, result>>
       ELSE Throw

CheckTag ==
  /\ pc = "tags"
  /\ IF TagIsFine(tag, cursor)
       THEN /\ checked' = Append(checked, cursor)
            /\ \E word \in SizeWords(tag, cursor) : cursor' = CheckedEnd(tag, cursor, word)
            /\ level' = IF B(tag) = ArrayBeginTag THEN (level + 1) % Wrap
                        ELSE IF B(tag) = ArrayEndTag THEN (level - 1) % Wrap
                        ELSE level
            /\ tag' = tag + 1
            /\ pc' = IF B(tag + 1) # 0 THEN "tags" ELSE "level"
            /\ UNCHANGED <<input, stack, element, slots, tags, values, result>>
       ELSE Throw

\* Then oscmsg_data iterates, from ArgumentsBegin().
TagsEnd ==
  /\ pc = "level"
  /\ IF level = 0
       THEN /\ tags' = [tags EXCEPT !.stop = tag]
            /\ tag' = tags.begin
            /\ cursor' = tags.arguments
            /\ pc' = "convert"
            /\ UNCHANGED <<input, stack, element, slots, level, checked, values, result>>
       ELSE Throw

-----------------------------------------------------------------------------
(***************************************************************************)
(* oscmsg_data and OSCReceiver::ProcessMessage                             *)
(***************************************************************************)
Convert ==
  /\ pc = "convert"
  /\ tag # tags.stop
  /\ values' = Append(values, ValueOf(buffer, B(tag), cursor))
  /\ \E word \in SizeWords(tag, cursor) :
       cursor' = ArgumentEnd(buffer, B(tag), cursor, word)
  /\ tag' = tag + 1
  /\ UNCHANGED <<input, pc, stack, element, slots, tags, level, checked, result>>

\* String(TypeTags()) of a message without arguments is made of a null pointer.
Delivered ==
  [address |-> CString(buffer, from),
   typetag |-> IF tags.begin = Null THEN <<>> ELSE CString(buffer, tags.begin),
   args    |-> values]

Deliver ==
  /\ pc = "convert"
  /\ tag = tags.stop
  /\ delivered' = Append(delivered, Delivered)
  /\ Continue(stack)
  /\ UNCHANGED <<input, parsing>>

\* The iterator over the arguments, and the loop over their tags before it, look at
\* an argument.
AtArgument == pc = "tags" \/ (pc = "convert" /\ tag # tags.stop)

\* There is no memory where the size of a blob is looked for.
Crash ==
  /\ AtArgument
  /\ OutsideTheBuffer(tag, cursor)
  /\ pc' = "crashed"
  /\ UNCHANGED <<input, stack, parsing, result>>

-----------------------------------------------------------------------------
\* Before the first datagram the buffer holds anything; here it holds zeros.
Init ==
  /\ datagram = <<>>
  /\ received = 0
  /\ buffer = [i \in 1..BufferSize |-> 0]
  /\ size = 0
  /\ pc = "idle"
  /\ stack = <<>>
  /\ from = 0 /\ end = 0 /\ cursor = 0 /\ slots = {}
  /\ tag = Null /\ tags = NoTags /\ level = 0 /\ checked = <<>> /\ values = <<>>
  /\ delivered = <<>>
  /\ outcome = "done"

Run == \/ ProcessPacket \/ BundleHead \/ Slot \/ SlotsEnd \/ Element \/ BundleEnd
       \/ MessageHead \/ CheckTag \/ TagsEnd \/ Convert \/ Crash \/ Deliver

Next == Receive \/ Run

Spec == Init /\ [][Next]_vars

(***************************************************************************)
(* The thread of the receive loop is scheduled.                            *)
(***************************************************************************)
FairSpec == Spec /\ WF_vars(Run)

-----------------------------------------------------------------------------
Labels ==
  {"idle", "packet", "bundle", "slots", "elements", "message", "tags", "level", "convert",
   "crashed"}

(* Every variable stays in the set of values its declaration allows. *)
TypeOK ==
  /\ received \in 0..MaxDatagrams
  /\ buffer \in Seq(Bytes) /\ Len(buffer) = BufferSize
  /\ size \in 0..BufferSize
  /\ pc \in Labels
  /\ stack \in Seq([at : Nat, end : Nat, slots : SUBSET Nat])
  /\ from \in Nat /\ end \in Nat /\ cursor \in Nat /\ slots \in SUBSET Nat
  /\ tag \in Nat
  /\ tags \in [begin : Nat, stop : Nat, arguments : Nat]
  /\ level \in 0..(Wrap - 1)
  /\ checked \in Seq(Nat)
  /\ outcome \in {"done", "malformed"}

(***************************************************************************)
(* ProcessBundle reads the size of an element again, as a signed number,   *)
(* and steps over it without a check.  Its iterators visit only the slots  *)
(* that ReceivedBundle::Init has found with an unsigned sum in 32 bits,    *)
(* each bundle ends where the slot it sits in says, and none reaches       *)
(* beyond the datagram, whatever the bytes behind it are.                  *)
(***************************************************************************)
IteratorsStayOnSlots ==
  \A k \in 1..Len(stack) :
    /\ stack[k].at \in stack[k].slots \cup {stack[k].end}
    /\ stack[k].end <= size
    /\ k > 1 => /\ stack[k - 1].at \in stack[k - 1].slots
                /\ stack[k].end = NextSlot(stack[k - 1].at)

(***************************************************************************)
(* The bytes of an argument that becomes a value lie inside its message:   *)
(* behind a blob that is longer than the message, which is not refused, no *)
(* number and no string is accepted.                                       *)
(***************************************************************************)
ValuesAreInside ==
  pc = "convert" /\ tag # tags.stop /\ B(tag) \in WordTags \cup DoubleTags \cup StringTags =>
    /\ from < cursor
    /\ ArgumentEnd(buffer, B(tag), cursor, 0) <= end
    /\ end <= size

(***************************************************************************)
(* A blob is accepted behind one that is longer than the message, and its  *)
(* size is then looked for wherever that one ends, in each of the two      *)
(* loops.  That is the only way out: as long as the size of every blob has *)
(* room in the message, so has all that is read of it, and no datagram     *)
(* ends the program.                                                       *)
(***************************************************************************)
OnlyStrayBlobsAreReadOutside ==
  pc = "crashed" \/ (AtArgument /\ B(tag) = BlobTag /\ cursor + 4 > end) =>
    StrayBlob(Received, from, end)

(***************************************************************************)
(* The sizes of the arguments are written twice, in the loop of            *)
(* ReceivedMessage::Init, which is careful, and in the iterator, which is  *)
(* not.  The iterator finds each argument where Init has checked it, or    *)
(* nowhere in the buffer if Init has found it nowhere, either.             *)
(***************************************************************************)
ArgumentsAreChecked ==
  pc = "convert" /\ tag # tags.stop =>
    LET place == checked[tag - tags.begin + 1]
    IN  cursor = place \/ (cursor > BufferSize /\ place > BufferSize)

(***************************************************************************)
(* Of each datagram exactly the messages up to its first fault reach the   *)
(* queue, in the order of the bundle and with the arguments that were      *)
(* written: a bad slot costs all messages of its bundle, a bad message     *)
(* those behind it, whatever the nesting; brackets that do not balance are *)
(* a fault though their level is unsigned; and no datagram leaves a trace  *)
(* in the next one.  And no datagram with an endless slot is done with,    *)
(* unless a fault comes before it.                                         *)
(***************************************************************************)
DeliversUpToTheFault ==
  LET meaning == Meaning(Received)
  IN  /\ Len(delivered) <= Len(meaning.messages)
      /\ delivered = SubSeq(meaning.messages, 1, Len(delivered))
      /\ pc = "idle" /\ received > 0 => /\ delivered = meaning.messages
                                        /\ outcome = meaning.ends

(***************************************************************************)
(* Every other datagram is done with: no other sizes make the loops over   *)
(* slots, elements, tags or arguments go on for ever.                      *)
(***************************************************************************)
PacketEnds ==
  pc = "packet" /\ Meaning(Received).ends # "never" ~> pc \in {"idle", "crashed"}
====
