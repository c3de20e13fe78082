----------------------------- MODULE OscMsg_proofs -----------------------------
(***************************************************************************)
(* An OSCMsg that says it is closed holds a packet that a receiver can     *)
(* read, however the script changes the size of the buffer and whatever it *)
(* adds, and nothing it added to an open message is lost.                  *)
(***************************************************************************)
EXTENDS OscMsg, PacketStream_proofs

-----------------------------------------------------------------------------
(***************************************************************************)
(* The inductive invariant.  A packet that is ready has a buffer of the    *)
(* present size, because another size resets it; and the array of a closed *)
(* message is the packet as it was when close() copied it.                 *)
(***************************************************************************)
PacketOK ==
  /\ PacketInv(packet)
  /\ ready => packet.end = buffer_size
  /\ ready => IF closed THEN IsReady(packet)
                        ELSE BeingBuilt(packet) /\ WellFormed(packet) /\ ~late

ArrayOK ==
  closed =>
    /\ ready
    /\ array.length = buffer_size /\ array.packet.end = buffer_size
    /\ PacketInv(array.packet) /\ WellFormed(array.packet)
    /\ IsReady(array.packet) /\ Size(array.packet) > 0

IInv ==
  /\ TypeOK
  /\ PacketOK
  /\ ArrayOK
  /\ left > 0 => ready
  /\ NothingIsDropped

LEMMA SizesType == Sizes \subseteq Nat \ {0}
BY SizesAssumption DEF Sizes

(* The packet that address() begins. *)
LEMMA BegunPacket ==
  ASSUME NEW size \in Nat, NEW length \in Nat, BeginFits(size, length),
         NEW q, q = Begun(size, length)
  PROVE  PacketInv(q) /\ q.end = size /\ q.tags = 0 /\ BeingBuilt(q) /\ WellFormed(q)
<1> DEFINE n == NewPacket(size)
           b == BeginBundle(n)
<1>1. BundleFits(n) /\ MessageFits(b, length) /\ q = BeginMessage(b, length)
  BY DEF BeginFits, Begun
<1> HIDE DEF b
<1>2. b = BeginBundle(n)
  BY DEF b
<1> HIDE DEF n
<1>3. n = NewPacket(size)
  BY DEF n
<1> QED  BY <1>1, <1>2, <1>3, MsgPacket

(* One argument more, for add(). *)
LEMMA AppendInv ==
  ASSUME IInv, ready, NEW bytes \in Nat, bytes % 4 = 0, Append1(bytes),
         left' \in 0..4, given' \in Nat, late' \in {late, late \/ closed},
         ~closed => packet.tags + 1 + left' = given'
  PROVE  IInv'
<1>1. /\ PacketInv(packet) /\ packet.end = buffer_size
      /\ ArgumentFits(packet, bytes) /\ packet' = AddArgument(packet, bytes)
      /\ IF closed THEN IsReady(packet) ELSE BeingBuilt(packet) /\ WellFormed(packet) /\ ~late
  BY DEF IInv, PacketOK, Append1
<1>2. /\ PacketInv(packet') /\ packet'.end = packet.end /\ packet'.tags = packet.tags + 1
      /\ BeingBuilt(packet) => BeingBuilt(packet')
      /\ IsReady(packet) => IsReady(packet')
      /\ WellFormed(packet) /\ packet.inMessage => WellFormed(packet')
  BY <1>1, AppendedPacket
<1>3. /\ buffer_size' = buffer_size /\ ready' = ready /\ closed' = closed
      /\ array' = array /\ fault' = fault
  BY DEF Append1
<1>4. packet' \in Packet(packet'.end)
  BY <1>2 DEF PacketInv, IsPacket
<1>5. late' \in BOOLEAN /\ (~closed => late' = late)
  BY DEF IInv, TypeOK
<1>6. TypeOK'
  BY <1>2, <1>3, <1>4, <1>5 DEF IInv, TypeOK
<1>7. PacketOK'
  <2>1. IF closed' THEN IsReady(packet') ELSE BeingBuilt(packet') /\ WellFormed(packet') /\ ~late'
    BY <1>1, <1>2, <1>3, <1>5 DEF BeingBuilt
  <2> QED  BY <1>1, <1>2, <1>3, <2>1 DEF PacketOK
<1>8. ArrayOK'
  BY <1>3 DEF IInv, ArrayOK
<1>9. NothingIsDropped'
  BY <1>2, <1>3 DEF NothingIsDropped
<1> QED  BY <1>3, <1>6, <1>7, <1>8, <1>9 DEF IInv

(* The packet that close() copies. *)
LEMMA EndedInv ==
  ASSUME IInv, ready, ~closed
  PROVE  /\ PacketInv(Ended) /\ Ended.end = buffer_size /\ IsReady(Ended) /\ WellFormed(Ended)
         /\ Size(Ended) = Size(packet) /\ Size(Ended) > 0
<1>1. /\ PacketInv(packet) /\ packet.end = buffer_size
      /\ BeingBuilt(packet) /\ WellFormed(packet)
  BY DEF IInv, PacketOK
<1>2. Ended = EndBundle(EndMessage(packet))
  BY DEF Ended
<1> QED  BY <1>1, <1>2, ClosedPacket

(* Every step preserves the invariant. *)
LEMMA NextInv == IInv /\ [Next]_vars => IInv'
<1> SUFFICES ASSUME IInv, [Next]_vars  PROVE IInv'
  OBVIOUS
<1>1. CASE BufferSize
  <2>1. /\ buffer_size' \in BufferSizes /\ left = 0
        /\ ready' = FALSE /\ closed' = FALSE
        /\ UNCHANGED <<packet, left, array, given, late, fault>>
    BY <1>1 DEF BufferSize, Reset, Idle, history
  <2>2. TypeOK'
    BY <2>1 DEF IInv, TypeOK, Sizes
  <2> QED  BY <2>1, <2>2 DEF IInv, PacketOK, ArrayOK, NothingIsDropped
<1>2. CASE Address
  <2>1. PICK length \in AddressLengths :
          /\ left = 0
          /\ BeginFits(buffer_size, length)
          /\ packet' = Begun(buffer_size, length)
          /\ ready' = TRUE /\ closed' = FALSE
          /\ given' = 0 /\ late' = FALSE
          /\ UNCHANGED <<buffer_size, left, array, fault>>
    BY <1>2 DEF Address, Idle
  <2>2. buffer_size \in Sizes /\ buffer_size \in Nat /\ length \in Nat
    BY SizesType, LengthsAssumption DEF IInv, TypeOK
  <2>3. /\ PacketInv(packet') /\ packet'.end = buffer_size /\ packet'.tags = 0
        /\ BeingBuilt(packet') /\ WellFormed(packet')
    BY <2>1, <2>2, BegunPacket
  <2>4. packet' \in Packet(packet'.end)
    BY <2>3 DEF PacketInv, IsPacket
  <2>5. TypeOK'
    BY <2>1, <2>2, <2>3, <2>4 DEF IInv, TypeOK
  <2>6. PacketOK' /\ ArrayOK'
    BY <2>1, <2>3 DEF PacketOK, ArrayOK
  <2>7. NothingIsDropped'
    BY <2>1, <2>3 DEF NothingIsDropped
  <2> QED  BY <2>1, <2>5, <2>6, <2>7 DEF IInv
<1>3. CASE AddressTooLong \/ AddTooLong \/ CloseWithoutPacket
  <2>1. /\ fault' \in {"out_of_buffer", "null_packet"}
        /\ UNCHANGED <<buffer_size, ready, packet, closed, left, array, given, late>>
    BY <1>3 DEF AddressTooLong, AddTooLong, Append1TooLong, CloseWithoutPacket,
                OutOfBuffer, stream, history
  <2>2. TypeOK'
    BY <2>1 DEF IInv, TypeOK, Faults
  <2> QED  BY <2>1, <2>2 DEF IInv, PacketOK, ArrayOK, NothingIsDropped
<1>4. CASE fault = "none" /\ (AddBool \/ AddString)
  <2>1. PICK bytes \in Nat : bytes % 4 = 0 /\ Append1(bytes)
    <3>1. CASE AddBool
      <4>1. Append1(0) /\ 0 \in Nat /\ 0 % 4 = 0
        BY <3>1 DEF AddBool
      <4> QED  BY <4>1
    <3>2. CASE AddString
      <4>1. PICK length \in StringLengths : Append1(StringBytes(length))
        BY <3>2 DEF AddString
      <4>2. StringBytes(length) \in Nat /\ StringBytes(length) % 4 = 0
        BY LengthsAssumption, ArgumentWords
      <4> QED  BY <4>1, <4>2
    <3> QED  BY <1>4, <3>1, <3>2
  <2>2. /\ left = 0 /\ ready /\ left' = left
        /\ given' = given + 1 /\ late' = (late \/ closed) /\ fault = "none"
    BY <1>4 DEF AddBool, AddString, Idle, Given
  <2>3. given' \in Nat /\ left' \in 0..4 /\ packet.tags \in Nat
    BY <2>2, PacketFields DEF IInv, TypeOK, PacketOK, PacketInv
  <2>4. ~closed => packet.tags + left = given
    BY <2>2 DEF IInv, NothingIsDropped
  <2>5. ~closed => packet.tags + 1 + left' = given'
    BY <2>2, <2>3, <2>4
  <2> QED  BY <2>1, <2>2, <2>3, <2>5, AppendInv
<1>5. CASE fault = "none" /\ AddNumbers
  <2>1. PICK n \in 1..4 :
          /\ left = 0 /\ ready /\ left' = n /\ fault = "none"
          /\ given' = given + n /\ late' = (late \/ closed)
          /\ UNCHANGED <<buffer_size, ready, packet, closed, array, fault>>
    BY <1>5 DEF AddNumbers, Idle, Given, stream
  <2>2. late' \in BOOLEAN /\ (~closed => late' = late)
    BY <2>1 DEF IInv, TypeOK
  <2>3. given' \in Nat /\ left' \in 0..4 /\ packet.tags \in Nat /\ given \in Nat
    BY <2>1, PacketFields DEF IInv, TypeOK, PacketOK, PacketInv
  <2>4. ~closed => packet.tags + left = given
    BY <2>1 DEF IInv, NothingIsDropped
  <2>5. ~closed => packet.tags + left' = given'
    BY <2>1, <2>3, <2>4
  <2>6. TypeOK'
    BY <2>1, <2>2, <2>3 DEF IInv, TypeOK
  <2>7. PacketOK'
    BY <2>1, <2>2 DEF IInv, PacketOK
  <2> QED  BY <2>1, <2>5, <2>6, <2>7 DEF IInv, ArrayOK, NothingIsDropped
<1>6. CASE fault = "none" /\ AddNumber
  <2>1. /\ left > 0 /\ Append1(4) /\ left' = left - 1
        /\ given' = given /\ late' = late /\ fault = "none"
    BY <1>6 DEF AddNumber, history
  <2>2. ready /\ left \in 0..4 /\ given \in Nat
    BY <2>1 DEF IInv, TypeOK
  <2>3. packet.tags \in Nat
    BY PacketFields DEF IInv, PacketOK, PacketInv
  <2>4. ~closed => packet.tags + left = given
    BY <2>1, <2>2 DEF IInv, NothingIsDropped
  <2>5. left' \in 0..4 /\ (~closed => packet.tags + 1 + left' = given')
    BY <2>1, <2>2, <2>3, <2>4
  <2>6. 4 \in Nat /\ 4 % 4 = 0
    OBVIOUS
  <2> QED  BY <2>1, <2>2, <2>5, <2>6, AppendInv
<1>7. CASE Close
  <2>1. /\ ready /\ ~closed /\ left = 0
        /\ packet' = Ended /\ closed' = TRUE
        /\ array' = [length |-> buffer_size, packet |-> Ended]
        /\ UNCHANGED <<buffer_size, ready, left, given, late, fault>>
    BY <1>7 DEF Close, Idle, history
  <2>2. array'.length = buffer_size /\ array'.packet = Ended
    BY <2>1
  <2>3. /\ PacketInv(Ended) /\ Ended.end = buffer_size /\ IsReady(Ended) /\ WellFormed(Ended)
        /\ Size(Ended) > 0
    BY <2>1, EndedInv
  <2>4. Ended \in Packet(Ended.end)
    BY <2>3 DEF PacketInv, IsPacket
  <2> HIDE DEF Ended
  <2>5. TypeOK'
    BY <2>1, <2>2, <2>3, <2>4 DEF IInv, TypeOK
  <2>6. PacketOK' /\ ArrayOK'
    BY <2>1, <2>2, <2>3 DEF PacketOK, ArrayOK
  <2>7. NothingIsDropped'
    BY <2>1 DEF NothingIsDropped
  <2> QED  BY <2>1, <2>5, <2>6, <2>7 DEF IInv
<1>8. CASE UNCHANGED vars
  BY <1>8 DEF vars, stream, history, IInv, TypeOK, PacketOK, ArrayOK, NothingIsDropped, Idle
<1> QED
  BY <1>1, <1>2, <1>3, <1>4, <1>5, <1>6, <1>7, <1>8 DEF Next

(***************************************************************************)
(* The invariant holds of every reachable state.                           *)
(***************************************************************************)
THEOREM MsgInvariance == Spec => []IInv
<1>1. Init => IInv
  <2> SUFFICES ASSUME Init  PROVE IInv
    OBVIOUS
  <2>1. /\ buffer_size = InitialSize /\ ready = FALSE /\ closed = FALSE /\ late = FALSE
        /\ left = 0 /\ given = 0 /\ fault = "none"
        /\ packet = NewPacket(InitialSize)
        /\ array = [length |-> 0, packet |-> NewPacket(InitialSize)]
    BY DEF Init
  <2>2. InitialSize \in Nat /\ InitialSize \in Sizes
    BY SizesAssumption DEF Sizes
  <2>3. PacketInv(packet) /\ packet.end = InitialSize
    BY <2>1, <2>2, NewPacketInv
  <2>4. packet \in Packet(packet.end)
    BY <2>3 DEF PacketInv, IsPacket
  <2>5. array.length = 0 /\ array.packet = packet
    BY <2>1
  <2>6. TypeOK
    <3>1. ready \in BOOLEAN /\ closed \in BOOLEAN /\ late \in BOOLEAN
      BY <2>1
    <3>2. array.length \in Sizes \cup {0} /\ array.packet.end \in Sizes /\ packet.end \in Sizes
      BY <2>2, <2>3, <2>5
    <3>3. buffer_size \in Sizes /\ left \in 0..4 /\ given \in Nat /\ fault \in Faults
      BY <2>1, <2>2 DEF Faults
    <3> QED  BY <2>4, <3>1, <3>2, <3>3 DEF TypeOK
  <2> QED  BY <2>1, <2>3, <2>6 DEF IInv, PacketOK, ArrayOK, NothingIsDropped
<1> QED  BY <1>1, NextInv, PTL DEF Spec

(***************************************************************************)
(* The variables keep their types.                                         *)
(***************************************************************************)
THEOREM MsgTypeCorrect == Spec => []TypeOK
<1>1. IInv => TypeOK
  BY DEF IInv
<1> QED  BY <1>1, MsgInvariance, PTL

(***************************************************************************)
(* What data() returns for a message that says it is closed has the size   *)
(* of the buffer and begins with a packet that can be read to its last     *)
(* byte.                                                                   *)
(***************************************************************************)
THEOREM MsgReadable == Spec => []ClosedIsReadable
<1>1. IInv => ClosedIsReadable
  <2> SUFFICES ASSUME IInv, closed
               PROVE  /\ ready /\ array.length = buffer_size
                      /\ Size(array.packet) \in 1..array.length
                      /\ Reads(array.packet, Size(array.packet))
    BY DEF ClosedIsReadable
  <2>1. /\ ready /\ array.length = buffer_size /\ array.packet.end = buffer_size
        /\ PacketInv(array.packet) /\ WellFormed(array.packet)
        /\ IsReady(array.packet) /\ Size(array.packet) > 0
    BY DEF IInv, ArrayOK
  <2>2. Reads(array.packet, Size(array.packet))
    BY <2>1, ReadyReads
  <2>3. Size(array.packet) \in Nat /\ Size(array.packet) <= array.length
    BY <2>1, SizeBound
  <2>4. buffer_size \in Nat
    BY SizesType DEF IInv, TypeOK
  <2> QED  BY <2>1, <2>2, <2>3, <2>4
<1> QED  BY <1>1, MsgInvariance, PTL

(***************************************************************************)
(* close() ends a message that is open, once, and finds the room for it.   *)
(***************************************************************************)
THEOREM MsgOpenUntilClosed == Spec => []OpenUntilClosed
<1>1. IInv => OpenUntilClosed
  <2> SUFFICES ASSUME IInv, ready
               PROVE  /\ closed => IsReady(packet)
                      /\ ~closed => /\ packet.inMessage /\ packet.isOpen
                                    /\ packet.element = 16 /\ ~late
                                    /\ Size(Ended) = Size(packet)
                      /\ Size(packet) <= packet.end
    BY DEF OpenUntilClosed
  <2>1. /\ PacketInv(packet)
        /\ IF closed THEN IsReady(packet) ELSE BeingBuilt(packet) /\ ~late
    BY DEF IInv, PacketOK
  <2>2. ~closed => Size(Ended) = Size(packet)
    BY EndedInv
  <2>3. Size(packet) <= packet.end
    BY <2>1, SizeBound
  <2> QED  BY <2>1, <2>2, <2>3 DEF BeingBuilt
<1> QED  BY <1>1, MsgInvariance, PTL

(***************************************************************************)
(* The tags of an open message are the values given since address().       *)
(***************************************************************************)
THEOREM MsgKeepsValues == Spec => []NothingIsDropped
<1>1. IInv => NothingIsDropped
  BY DEF IInv
<1> QED  BY <1>1, MsgInvariance, PTL
====
