------------------------------ MODULE OscSender ------------------------------
(***************************************************************************)
(* An OSCSender (src/osc_sender.cpp): its socket, and the packet it builds *)
(* for one message.  Everything runs on the thread of the script; an add() *)
(* of a vector or a colour is several steps, one for each float.           *)
(*                                                                         *)
(* An exception of the packet is caught by nobody, and send() dereferences *)
(* the socket whatever it is: either ends the program, and "fault" tells   *)
(* which.  The calls that only warn change nothing and are left out:       *)
(* setup() with no address or port, start() before setup(), add() and      *)
(* send() before msg(), and add() of a type that is not sent, which for    *)
(* all the code does includes strings, node paths, RIDs and objects.       *)
(***************************************************************************)
EXTENDS PacketStream

CONSTANTS Capacity,         \* the bytes of the buffer
          AddressLengths    \* of the address patterns given to msg()

ASSUME CapacityAssumption == Capacity \in Nat

ASSUME AddressLengthsAssumption == AddressLengths \subseteq Nat

VARIABLES
  alive,       \* FALSE once the destructor has run
  is_ready,    \* _is_ready
  running,     \* _running
  socket,      \* whether _socket is not null
  built,       \* whether _packet is not null
  packet,      \* *_packet
  closed,      \* _packet_closed
  left,        \* the floats that the add() in progress has still to append
  late,        \* history: whether something was added to the message after send()
  sent,        \* the bytes of the last datagram given to the network
  fault        \* what ended the program, or "none"

connection == <<is_ready, running, socket>>
message    == <<built, packet, closed, late>>
vars == <<alive, is_ready, running, socket, built, packet, closed, left, late, sent, fault>>

Faults == {"none", "out_of_buffer", "null_socket"}

Idle == alive /\ left = 0

-----------------------------------------------------------------------------
(***************************************************************************)
(* The socket is created, or its constructor throws: start() catches that  *)
(* exception and goes on.                                                  *)
(***************************************************************************)
OpenSocket ==
  /\ running' = TRUE
  /\ socket' \in BOOLEAN

\* setup() of a running sender stops and starts it.
Setup ==
  /\ Idle
  /\ is_ready' = TRUE
  /\ IF running THEN OpenSocket ELSE UNCHANGED <<running, socket>>
  /\ UNCHANGED <<alive, message, left, sent, fault>>

Start ==
  /\ Idle
  /\ is_ready
  /\ OpenSocket
  /\ UNCHANGED <<alive, is_ready, message, left, sent, fault>>

Stop ==
  /\ Idle
  /\ socket' = FALSE
  /\ running' = FALSE
  /\ UNCHANGED <<alive, is_ready, message, left, sent, fault>>

\* reset_message() and stop().
Destroy ==
  /\ Idle
  /\ alive' = FALSE
  /\ built' = FALSE
  /\ closed' = FALSE
  /\ socket' = FALSE
  /\ running' = FALSE
  /\ UNCHANGED <<is_ready, packet, left, late, sent, fault>>

-----------------------------------------------------------------------------
OutOfBuffer ==
  /\ fault' = "out_of_buffer"
  /\ UNCHANGED <<alive, connection, message, left, sent>>

MutantMsgStaysClosed ==
  \E length \in AddressLengths :
    /\ Idle
    /\ MessageFits(BeginBundle(NewPacket(Capacity)), length)
    /\ packet' = BeginMessage(BeginBundle(NewPacket(Capacity)), length)
    /\ built' = TRUE
    /\ late' = FALSE
    /\ UNCHANGED <<alive, connection, closed, left, sent, fault>>

\* A new message: reset_message(), then a bundle with one message in it.
Msg ==
  \E length \in AddressLengths :
    /\ Idle
    /\ BundleFits(NewPacket(Capacity))
    /\ MessageFits(BeginBundle(NewPacket(Capacity)), length)
    /\ packet' = BeginMessage(BeginBundle(NewPacket(Capacity)), length)
    /\ built' = TRUE
    /\ closed' = FALSE
    /\ late' = FALSE
    /\ UNCHANGED <<alive, connection, left, sent, fault>>

MsgTooLong ==
  \E length \in AddressLengths :
    /\ Idle
    /\ ~BundleFits(NewPacket(Capacity)) \/ ~MessageFits(BeginBundle(NewPacket(Capacity)), length)
    /\ OutOfBuffer

(***************************************************************************)
(* add(), which does not ask whether the packet was closed by send().      *)
(***************************************************************************)
Append1(bytes) ==
  /\ ArgumentFits(packet, bytes)
  /\ packet' = AddArgument(packet, bytes)
  /\ late' = (late \/ closed)
  /\ UNCHANGED <<alive, connection, built, closed, sent, fault>>

AddBool ==
  /\ Idle
  /\ built
  /\ Append1(0)
  /\ UNCHANGED left

AddBoolTooLong ==
  /\ Idle
  /\ built
  /\ ~ArgumentFits(packet, 0)
  /\ OutOfBuffer

\* 1 for int and float, 2 and 3 for vectors, 4 for quaternions and colours.
AddNumbers ==
  \E n \in 1..4 :
    /\ Idle
    /\ built
    /\ left' = n
    /\ UNCHANGED <<alive, connection, message, sent, fault>>

AddNumber ==
  /\ left > 0
  /\ Append1(4)
  /\ left' = left - 1

AddNumberTooLong ==
  /\ left > 0
  /\ ~ArgumentFits(packet, 4)
  /\ OutOfBuffer

(***************************************************************************)
(* send() closes the message and the bundle the first time, and transmits  *)
(* the packet as it is every time.                                         *)
(***************************************************************************)
Finished == IF closed THEN packet ELSE EndBundle(EndMessage(packet))

MutantSendForgets ==
  /\ Idle
  /\ built
  /\ socket
  /\ packet' = Finished
  /\ sent' = Size(Finished)
  /\ UNCHANGED <<alive, connection, built, closed, left, late, fault>>

Send ==
  /\ Idle
  /\ built
  /\ socket
  /\ packet' = Finished
  /\ closed' = TRUE
  /\ sent' = Size(Finished)
  /\ UNCHANGED <<alive, connection, built, left, late, fault>>

SendWithoutSocket ==
  /\ Idle
  /\ built
  /\ ~socket
  /\ packet' = Finished
  /\ closed' = TRUE
  /\ fault' = "null_socket"
  /\ UNCHANGED <<alive, connection, built, left, late, sent>>

-----------------------------------------------------------------------------
Init ==
  /\ alive = TRUE
  /\ is_ready = FALSE
  /\ running = FALSE
  /\ socket = FALSE
  /\ built = FALSE
  /\ packet = NewPacket(Capacity)
  /\ closed = FALSE
  /\ left = 0
  /\ late = FALSE
  /\ sent = 0
  /\ fault = "none"

Connection == Setup \/ Start \/ Stop \/ Destroy
Message    == \/ Msg \/ MsgTooLong
              \/ AddBool \/ AddBoolTooLong \/ AddNumbers \/ AddNumber \/ AddNumberTooLong
              \/ Send \/ SendWithoutSocket

Next == fault = "none" /\ (Connection \/ Message)

Spec == Init /\ [][Next]_vars

-----------------------------------------------------------------------------
(* Every variable stays in the set of values its declaration allows. *)
TypeOK ==
  /\ alive \in BOOLEAN /\ is_ready \in BOOLEAN /\ running \in BOOLEAN /\ socket \in BOOLEAN
  /\ built \in BOOLEAN /\ closed \in BOOLEAN /\ late \in BOOLEAN
  /\ packet \in Packet(Capacity)
  /\ left \in 0..4
  /\ sent \in Nat
  /\ fault \in Faults

(***************************************************************************)
(* A socket is open only while the sender runs, so none outlives stop() or *)
(* the destructor; and the destructor leaves no packet.                    *)
(***************************************************************************)
NoSocketWhenStopped ==
  /\ socket => running
  /\ running => is_ready
  /\ ~alive => ~running /\ ~built

(***************************************************************************)
(* _packet_closed tells the truth: a message that is not closed can still  *)
(* be ended, so send() never throws, and one that is closed is never ended *)
(* twice.                                                                  *)
(***************************************************************************)
ClosedWhenReady ==
  /\ built /\ closed => IsReady(packet)
  /\ built /\ ~closed => packet.inMessage /\ packet.isOpen /\ packet.element = 16 /\ ~late

(***************************************************************************)
(* Whatever is added before or after send(), no datagram is longer than    *)
(* the buffer it is sent from.                                             *)
(***************************************************************************)
SentFitsTheBuffer == sent <= Capacity /\ (built => Size(packet) <= Capacity)

(***************************************************************************)
(* What send() transmits is a packet that the parser of a receiver takes   *)
(* apart to its last byte: unless something was added after an earlier     *)
(* send() of the same message.                                             *)
(***************************************************************************)
SentIsReadable ==
  [][Send /\ ~late => Reads(packet', sent')]_vars

(***************************************************************************)
(* "start()" is "enabling emission": a sender that says it runs has a      *)
(* socket to send from.  The code does not: start() reports success when   *)
(* the socket could not be created.                                        *)
(***************************************************************************)
RunningHasSocket == running => socket
====
