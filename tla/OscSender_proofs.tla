--------------------------- MODULE OscSender_proofs ---------------------------
(***************************************************************************)
(* An OSCSender never sends more than its buffer holds, and its            *)
(* _packet_closed agrees with the state of its packet, for any buffer and  *)
(* any addresses; and a receiver can read what it sends.                   *)
(***************************************************************************)
EXTENDS OscSender, PacketStream_proofs

-----------------------------------------------------------------------------
(***************************************************************************)
(* The inductive invariant.  The packet of a message is the one that msg() *)
(* began until send() closes it, and can be read as long as nothing is     *)
(* added after that.                                                       *)
(***************************************************************************)
IInv ==
  /\ TypeOK
  /\ PacketInv(packet) /\ packet.end = Capacity
  /\ NoSocketWhenStopped
  /\ built => IF closed THEN IsReady(packet) ELSE BeingBuilt(packet) /\ ~late
  /\ built /\ ~late => WellFormed(packet) /\ (closed => Size(packet) > 0)
  /\ left > 0 => built
  /\ sent <= Capacity

(* One argument more, for add(). *)
LEMMA AppendInv ==
  ASSUME IInv, built, NEW bytes \in Nat, bytes % 4 = 0, Append1(bytes), left' \in 0..4
  PROVE  IInv'
<1>1. /\ PacketInv(packet) /\ packet.end = Capacity
      /\ ArgumentFits(packet, bytes) /\ packet' = AddArgument(packet, bytes)
  BY DEF IInv, Append1
<1>2. /\ PacketInv(packet') /\ packet'.end = Capacity
      /\ BeingBuilt(packet) => BeingBuilt(packet')
      /\ IsReady(packet) => IsReady(packet')
      /\ WellFormed(packet) /\ packet.inMessage => WellFormed(packet')
  BY <1>1, AppendedPacket
<1>3. packet' \in Packet(Capacity)
  BY <1>2 DEF PacketInv, IsPacket
<1>4. TypeOK'
  BY <1>3 DEF IInv, TypeOK, Append1, connection
<1>5. /\ built' = built /\ closed' = closed /\ late' = (late \/ closed)
      /\ closed \in BOOLEAN /\ late \in BOOLEAN
  BY DEF Append1, IInv, TypeOK
<1>6. IF closed' THEN IsReady(packet') ELSE BeingBuilt(packet') /\ ~late'
  BY <1>2, <1>5 DEF IInv
<1>7. ~late' => ~late /\ ~closed
  BY <1>5
<1>8. ~late' => WellFormed(packet) /\ packet.inMessage
  BY <1>7 DEF IInv, BeingBuilt
<1>9. ~late' => WellFormed(packet') /\ ~closed'
  BY <1>2, <1>5, <1>7, <1>8
<1> QED
  BY <1>2, <1>4, <1>6, <1>9 DEF IInv, Append1, connection, NoSocketWhenStopped

(* The packet that send() transmits. *)
LEMMA FinishedInv ==
  ASSUME IInv, built
  PROVE  /\ PacketInv(Finished) /\ Finished.end = Capacity /\ IsReady(Finished)
         /\ ~late => WellFormed(Finished) /\ Size(Finished) > 0
<1>1. CASE closed
  BY <1>1 DEF IInv, Finished
<1>2. CASE ~closed
  <2>1. /\ PacketInv(packet) /\ packet.end = Capacity /\ BeingBuilt(packet)
        /\ ~late => WellFormed(packet)
    BY <1>2 DEF IInv
  <2>2. Finished = EndBundle(EndMessage(packet))
    BY <1>2 DEF Finished
  <2> QED  BY <2>1, <2>2, ClosedPacket
<1> QED  BY <1>1, <1>2

(* Every step preserves the invariant. *)
LEMMA NextInv == IInv /\ [Next]_vars => IInv'
<1> SUFFICES ASSUME IInv, [Next]_vars  PROVE IInv'
  OBVIOUS
<1>1. CASE Setup \/ Start \/ Stop \/ Destroy
  <2>1. UNCHANGED <<packet, late, sent, fault, left>> /\ left = 0
    BY <1>1 DEF Setup, Start, Stop, Destroy, Idle, message, IInv, TypeOK
  <2>2. /\ alive' \in BOOLEAN /\ is_ready' \in BOOLEAN
        /\ running' \in BOOLEAN /\ socket' \in BOOLEAN
        /\ built' \in BOOLEAN /\ closed' \in BOOLEAN
    BY <1>1 DEF Setup, Start, Stop, Destroy, OpenSocket, message, IInv, TypeOK
  <2>3. NoSocketWhenStopped'
    BY <1>1 DEF Setup, Start, Stop, Destroy, OpenSocket, Idle, message,
                IInv, TypeOK, NoSocketWhenStopped
  <2>4. built' => built /\ closed' = closed
    BY <1>1 DEF Setup, Start, Stop, Destroy, message
  <2>5. TypeOK'
    BY <2>1, <2>2 DEF IInv, TypeOK
  <2> QED  BY <2>1, <2>3, <2>4, <2>5 DEF IInv
<1>2. CASE MsgTooLong \/ AddBoolTooLong \/ AddNumberTooLong
  BY <1>2 DEF MsgTooLong, AddBoolTooLong, AddNumberTooLong, OutOfBuffer, connection, message,
              IInv, TypeOK, Faults, NoSocketWhenStopped
<1>3. CASE Msg
  <2>1. PICK length \in AddressLengths :
          /\ BundleFits(NewPacket(Capacity))
          /\ MessageFits(BeginBundle(NewPacket(Capacity)), length)
          /\ packet' = BeginMessage(BeginBundle(NewPacket(Capacity)), length)
    BY <1>3 DEF Msg
  <2>2. PacketInv(packet') /\ packet'.end = Capacity /\ BeingBuilt(packet') /\ WellFormed(packet')
    BY <2>1, MsgPacket, AddressLengthsAssumption, CapacityAssumption
  <2>3. packet' \in Packet(Capacity)
    BY <2>2 DEF PacketInv, IsPacket
  <2>4. /\ alive /\ built' /\ ~closed' /\ ~late' /\ built' \in BOOLEAN
        /\ closed' \in BOOLEAN /\ late' \in BOOLEAN
        /\ UNCHANGED <<alive, is_ready, running, socket, left, sent, fault>>
    BY <1>3 DEF Msg, Idle, connection
  <2>5. TypeOK' /\ NoSocketWhenStopped'
    BY <2>3, <2>4 DEF IInv, TypeOK, NoSocketWhenStopped
  <2> QED  BY <2>2, <2>4, <2>5 DEF IInv
<1>4. CASE AddBool
  <2>1. built /\ Append1(0) /\ left' \in 0..4
    BY <1>4 DEF AddBool, IInv, TypeOK
  <2> QED  BY <2>1, AppendInv
<1>5. CASE AddNumbers
  <2>1. /\ built /\ left' \in 0..4
        /\ UNCHANGED <<alive, is_ready, running, socket, built, packet, closed, late, sent, fault>>
    BY <1>5 DEF AddNumbers, connection, message
  <2> QED  BY <2>1 DEF IInv, TypeOK, NoSocketWhenStopped
<1>6. CASE AddNumber
  <2>1. built /\ Append1(4) /\ left' \in 0..4
    BY <1>6 DEF AddNumber, IInv, TypeOK
  <2> QED  BY <2>1, AppendInv
<1>7. CASE Send \/ SendWithoutSocket
  <2>1. /\ alive /\ built /\ packet' = Finished /\ closed' = TRUE
        /\ sent' \in {sent, Size(Finished)}
        /\ fault' \in Faults
        /\ UNCHANGED <<alive, is_ready, running, socket, built, left, late>>
    BY <1>7 DEF Send, SendWithoutSocket, Idle, connection, IInv, TypeOK, Faults
  <2>2. /\ PacketInv(packet') /\ packet'.end = Capacity /\ IsReady(packet')
        /\ ~late' => WellFormed(packet') /\ Size(packet') > 0
    BY <2>1, FinishedInv
  <2>3. packet' \in Packet(Capacity)
    BY <2>2 DEF PacketInv, IsPacket
  <2>4. sent' \in Nat /\ sent' <= Capacity
    BY <2>1, <2>2, SizeBound DEF IInv, TypeOK
  <2>5. TypeOK' /\ NoSocketWhenStopped'
    BY <2>1, <2>3, <2>4 DEF IInv, TypeOK, NoSocketWhenStopped
  <2> QED  BY <2>1, <2>2, <2>4, <2>5 DEF IInv
<1>8. CASE UNCHANGED vars
  BY <1>8 DEF vars, IInv, TypeOK, NoSocketWhenStopped
<1> QED
  BY <1>1, <1>2, <1>3, <1>4, <1>5, <1>6, <1>7, <1>8 DEF Next, Connection, Message

(***************************************************************************)
(* The invariant holds of every reachable state.                           *)
(***************************************************************************)
THEOREM SenderInvariance == Spec => []IInv
<1>1. Init => IInv
  <2> SUFFICES ASSUME Init  PROVE IInv
    OBVIOUS
  <2>1. PacketInv(packet) /\ packet.end = Capacity /\ packet \in Packet(Capacity)
    <3>1. packet = NewPacket(Capacity)
      BY DEF Init
    <3>2. PacketInv(packet) /\ packet.end = Capacity
      BY <3>1, NewPacketInv, CapacityAssumption
    <3> QED  BY <3>2 DEF PacketInv, IsPacket
  <2>2. /\ alive \in BOOLEAN /\ is_ready \in BOOLEAN /\ running \in BOOLEAN
        /\ socket \in BOOLEAN /\ built \in BOOLEAN /\ closed \in BOOLEAN /\ late \in BOOLEAN
    BY ZenonT(30) DEF Init
  <2>3. alive /\ ~is_ready /\ ~running /\ ~socket /\ ~built
    BY ZenonT(30) DEF Init
  <2>4. left = 0 /\ sent = 0 /\ fault = "none"
    BY DEF Init
  <2>5. left \in 0..4 /\ sent \in Nat /\ sent <= Capacity /\ ~(left > 0)
    BY <2>4, CapacityAssumption
  <2>6. TypeOK
    BY <2>1, <2>2, <2>4, <2>5 DEF TypeOK, Faults
  <2>7. NoSocketWhenStopped
    BY <2>3 DEF NoSocketWhenStopped
  <2> QED  BY <2>1, <2>3, <2>5, <2>6, <2>7 DEF IInv
<1> QED  BY <1>1, NextInv, PTL DEF Spec

(***************************************************************************)
(* The sender's variables keep their types.                                *)
(***************************************************************************)
THEOREM SenderTypeCorrect == Spec => []TypeOK
<1>1. IInv => TypeOK
  BY DEF IInv
<1> QED  BY <1>1, SenderInvariance, PTL

(***************************************************************************)
(* No socket is open while the sender is stopped or after its destructor.  *)
(***************************************************************************)
THEOREM SenderSocket == Spec => []NoSocketWhenStopped
<1>1. IInv => NoSocketWhenStopped
  BY DEF IInv
<1> QED  BY <1>1, SenderInvariance, PTL

(***************************************************************************)
(* send() can end the message that it has not closed yet, and never ends   *)
(* one twice.                                                              *)
(***************************************************************************)
THEOREM SenderClosed == Spec => []ClosedWhenReady
<1>1. IInv => ClosedWhenReady
  BY DEF IInv, TypeOK, ClosedWhenReady, BeingBuilt
<1> QED  BY <1>1, SenderInvariance, PTL

(***************************************************************************)
(* No datagram is longer than the buffer, whatever is added and when.      *)
(***************************************************************************)
THEOREM SenderBounded == Spec => []SentFitsTheBuffer
<1>1. IInv => SentFitsTheBuffer
  BY DEF IInv, PacketInv, Fits, SentFitsTheBuffer
<1> QED  BY <1>1, SenderInvariance, PTL

(***************************************************************************)
(* What send() transmits can be read to its last byte, unless something    *)
(* was added to the message after an earlier send().                       *)
(***************************************************************************)
THEOREM SenderReadable == Spec => SentIsReadable
<1>1. ASSUME IInv, [Next]_vars  PROVE [Send /\ ~late => Reads(packet', sent')]_vars
  <2> SUFFICES ASSUME Send, ~late  PROVE Reads(packet', sent')
    OBVIOUS
  <2>1. built /\ packet' = Finished /\ sent' = Size(Finished)
    BY DEF Send
  <2>2. /\ PacketInv(Finished) /\ IsReady(Finished)
        /\ WellFormed(Finished) /\ Size(Finished) > 0
    BY <1>1, <2>1, FinishedInv
  <2> QED  BY <2>1, <2>2, ReadyReads
<1> QED  BY <1>1, SenderInvariance, PTL DEF Spec, SentIsReadable
====
