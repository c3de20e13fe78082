-------------------------------- MODULE OscMsg --------------------------------
(***************************************************************************)
(* An OSCMsg (src/osc_msg.cpp): a packet with one message, which a script  *)
(* builds with address() and add(), closes, and takes away as an array of  *)
(* bytes.  Everything runs on the thread of the script; an add() of a      *)
(* vector or a colour is several steps, one for each float.                *)
(*                                                                         *)
(* The size of the buffer may change between two messages: the packet in   *)
(* the making keeps the buffer it was given.                               *)
(*                                                                         *)
(* As with OscSender, an exception of the packet is caught by nobody, and  *)
(* close() dereferences the packet whatever it is.  The calls that only    *)
(* warn are left out: buffer_size() of zero or less, add() before          *)
(* address(), add() of a type that has no place in a message.              *)
(***************************************************************************)
EXTENDS Integers, PacketStream

CONSTANTS BufferSizes,      \* given to buffer_size()
          InitialSize,      \* 1024
          AddressLengths,   \* of the address patterns given to address()
          StringLengths     \* of strings, node paths, and the texts of RIDs and objects

ASSUME SizesAssumption == BufferSizes \subseteq Nat \ {0} /\ InitialSize \in Nat \ {0}
ASSUME LengthsAssumption == AddressLengths \subseteq Nat /\ StringLengths \subseteq Nat

VARIABLES
  buffer_size,   \* _buffer_size
  ready,         \* whether _packet and _buffer are not null
  packet,        \* *_packet
  closed,        \* _packet_closed
  left,          \* the floats that the add() in progress has still to append
  array,         \* _array: its length and the packet it was copied from
  given,         \* history: how many values were added since address()
  late,          \* history: whether one of them came after close()
  fault          \* what ended the program, or "none"

stream  == <<ready, packet>>
history == <<given, late>>
vars == <<buffer_size, stream, closed, left, array, history, fault>>

Sizes == BufferSizes \cup {InitialSize}

Faults == {"none", "out_of_buffer", "null_packet"}

Idle == left = 0

-----------------------------------------------------------------------------
\* reset() deletes the packet and its buffer; the array stays.
Reset ==
  /\ ready' = FALSE
  /\ closed' = FALSE
  /\ UNCHANGED packet

MutantBufferSizeAlone ==
  \E n \in BufferSizes :
    /\ Idle
    /\ buffer_size' = n
    /\ UNCHANGED <<stream, closed, left, array, history, fault>>

BufferSize ==
  \E n \in BufferSizes :
    /\ Idle
    /\ Reset
    /\ buffer_size' = n
    /\ UNCHANGED <<left, array, history, fault>>

OutOfBuffer ==
  /\ fault' = "out_of_buffer"
  /\ UNCHANGED <<buffer_size, stream, closed, left, array, history>>

(***************************************************************************)
(* address() resets and begins a bundle with one message in a buffer of    *)
(* the present size.                                                       *)
(***************************************************************************)
Begun(size, length) ==
  BeginMessage(BeginBundle(NewPacket(size)), length)

BeginFits(size, length) ==
  /\ BundleFits(NewPacket(size))
  /\ MessageFits(BeginBundle(NewPacket(size)), length)

MutantAddressStaysClosed ==
  \E length \in AddressLengths :
    /\ Idle
    /\ BeginFits(buffer_size, length)
    /\ packet' = Begun(buffer_size, length)
    /\ ready' = TRUE
    /\ given' = 0 /\ late' = FALSE
    /\ UNCHANGED <<buffer_size, closed, left, array, fault>>

Address ==
  \E length \in AddressLengths :
    /\ Idle
    /\ BeginFits(buffer_size, length)
    /\ packet' = Begun(buffer_size, length)
    /\ ready' = TRUE
    /\ closed' = FALSE
    /\ given' = 0 /\ late' = FALSE
    /\ UNCHANGED <<buffer_size, left, array, fault>>

AddressTooLong ==
  \E length \in AddressLengths :
    /\ Idle
    /\ ~BeginFits(buffer_size, length)
    /\ OutOfBuffer

-----------------------------------------------------------------------------
(***************************************************************************)
(* add(), which does not ask whether the message was closed.               *)
(***************************************************************************)
Append1(bytes) ==
  /\ ArgumentFits(packet, bytes)
  /\ packet' = AddArgument(packet, bytes)
  /\ UNCHANGED <<buffer_size, ready, closed, array, fault>>

Append1TooLong(bytes) ==
  /\ ~ArgumentFits(packet, bytes)
  /\ OutOfBuffer

Given(n) == given' = given + n /\ late' = (late \/ closed)

AddBool ==
  /\ Idle /\ ready
  /\ Append1(0)
  /\ Given(1)
  /\ UNCHANGED left

MutantAddStringDropped ==
  \E length \in StringLengths :
    /\ Idle /\ ready
    /\ ArgumentFits(packet, StringBytes(length))
    /\ Given(1)
    /\ UNCHANGED <<buffer_size, stream, closed, left, array, fault>>

AddString ==
  \E length \in StringLengths :
    /\ Idle /\ ready
    /\ Append1(StringBytes(length))
    /\ Given(1)
    /\ UNCHANGED left

\* 1 for int and float, 2 and 3 for vectors, 4 for quaternions and colours.
AddNumbers ==
  \E n \in 1..4 :
    /\ Idle /\ ready
    /\ left' = n
    /\ Given(n)
    /\ UNCHANGED <<buffer_size, stream, closed, array, fault>>

AddNumber ==
  /\ left > 0
  /\ Append1(4)
  /\ left' = left - 1
  /\ UNCHANGED history

AddTooLong ==
  \/ Idle /\ ready /\ Append1TooLong(0)
  \/ \E length \in StringLengths : Idle /\ ready /\ Append1TooLong(StringBytes(length))
  \/ left > 0 /\ Append1TooLong(4)

-----------------------------------------------------------------------------
(***************************************************************************)
(* close() ends the message and the bundle and copies buffer_size bytes,   *)
(* of which the packet is only the beginning.  The second time it does     *)
(* nothing.                                                                *)
(***************************************************************************)
Ended == EndBundle(EndMessage(packet))

MutantCloseWithoutBundle ==
  /\ Idle /\ ready /\ ~closed
  /\ packet' = EndMessage(packet)
  /\ closed' = TRUE
  /\ array' = [length |-> buffer_size, packet |-> EndMessage(packet)]
  /\ UNCHANGED <<buffer_size, ready, left, history, fault>>

Close ==
  /\ Idle /\ ready /\ ~closed
  /\ packet' = Ended
  /\ closed' = TRUE
  /\ array' = [length |-> buffer_size, packet |-> Ended]
  /\ UNCHANGED <<buffer_size, ready, left, history, fault>>

CloseWithoutPacket ==
  /\ Idle /\ ~ready /\ ~closed
  /\ fault' = "null_packet"
  /\ UNCHANGED <<buffer_size, stream, closed, left, array, history>>

-----------------------------------------------------------------------------
Init ==
  /\ buffer_size = InitialSize
  /\ ready = FALSE
  /\ packet = NewPacket(InitialSize)
  /\ closed = FALSE
  /\ left = 0
  /\ array = [length |-> 0, packet |-> NewPacket(InitialSize)]
  /\ given = 0 /\ late = FALSE
  /\ fault = "none"

Next ==
  /\ fault = "none"
  /\ \/ BufferSize \/ Address \/ AddressTooLong
     \/ AddBool \/ AddString \/ AddNumbers \/ AddNumber \/ AddTooLong
     \/ Close \/ CloseWithoutPacket

Spec == Init /\ [][Next]_vars

-----------------------------------------------------------------------------
(* Every variable stays in the set of values its declaration allows. *)
TypeOK ==
  /\ buffer_size \in Sizes /\ packet.end \in Sizes
  /\ ready \in BOOLEAN /\ closed \in BOOLEAN /\ late \in BOOLEAN
  /\ packet \in Packet(packet.end)
  /\ left \in 0..4
  /\ array.length \in Sizes \cup {0} /\ array.packet.end \in Sizes
  /\ given \in Nat
  /\ fault \in Faults

(***************************************************************************)
(* A message that says it is closed has in data(), whatever was added      *)
(* after close(), and although the script may change the buffer's size at  *)
(* any time, size() bytes that start with a packet which the parser of a   *)
(* receiver takes apart to its last byte.                                  *)
(***************************************************************************)
ClosedIsReadable ==
  closed =>
    LET p == array.packet
    IN  /\ ready
        /\ array.length = buffer_size
        /\ Size(p) \in 1..array.length
        /\ Reads(p, Size(p))

(***************************************************************************)
(* closed() tells the truth, so close() never ends a message twice, nor    *)
(* one that was never begun; and as long as the message is open, size and  *)
(* tags included, closing it needs no room that is not there.              *)
(***************************************************************************)
OpenUntilClosed ==
  ready =>
    /\ closed => IsReady(packet)
    /\ ~closed => /\ packet.inMessage /\ packet.isOpen /\ packet.element = 16 /\ ~late
                  /\ Size(Ended) = Size(packet)
    /\ Size(packet) <= packet.end

(***************************************************************************)
(* Nothing a script adds to an open message is lost: its type tags are the *)
(* values given since address(), strings included, but for the floats of   *)
(* a vector that is still being appended.                                  *)
(***************************************************************************)
NothingIsDropped ==
  ready /\ ~closed /\ fault = "none" => packet.tags + left = given
====
