------------------------- MODULE OutboundPacket_proofs -------------------------
(***************************************************************************)
(* An OutboundPacketStream never writes outside its buffer, in whatever    *)
(* order its operations are called; and a client that keeps to the         *)
(* protocol closes nothing but packets that a receiver can read.           *)
(***************************************************************************)
EXTENDS OutboundPacket, PacketStream_proofs

-----------------------------------------------------------------------------
(* The arguments of the operators take whole 32 bit words. *)
LEMMA ArgumentBytesType == \A bytes \in ArgumentBytes : bytes \in Nat /\ bytes % 4 = 0
<1>1. \A n \in StringLengths : StringBytes(n) \in Nat /\ StringBytes(n) % 4 = 0
  BY LengthsAssumption, ArgumentWords
<1>2. \A n \in BlobSizes : BlobBytes(n) \in Nat /\ BlobBytes(n) % 4 = 0
  BY LengthsAssumption, ArgumentWords
<1> QED  BY <1>1, <1>2 DEF ArgumentBytes

IInv ==
  /\ PacketInv(packet) /\ packet.end = Capacity
  /\ misused \in BOOLEAN
  /\ ~misused => WellFormed(packet)

(* Every operator preserves the invariant of the packet. *)
LEMMA NextInv == IInv /\ [Next]_vars => IInv'
<1> SUFFICES ASSUME IInv, [Next]_vars  PROVE IInv'
  OBVIOUS
<1>1. /\ PacketInv(packet) /\ packet.end = Capacity
      /\ misused \in BOOLEAN /\ (~misused => WellFormed(packet))
  BY DEF IInv
<1>2. CASE Clear
  <2>1. packet' = NewPacket(Capacity) /\ misused' = FALSE
    BY <1>2 DEF Clear
  <2>2. PacketInv(packet') /\ packet'.end = Capacity /\ WellFormed(packet')
    BY <2>1, NewPacketInv, NewPacketWellFormed, CapacityAssumption
  <2> QED  BY <2>1, <2>2 DEF IInv
<1>3. CASE OpenBundle
  <2>1. /\ ~packet.inMessage /\ BundleFits(packet) /\ packet' = BeginBundle(packet)
        /\ misused' = (misused \/ Again)
    BY <1>3 DEF OpenBundle
  <2>2. PacketInv(packet') /\ packet'.end = Capacity
    BY <1>1, <2>1, BeginBundleInv
  <2>3. ~misused' => WellFormed(packet) /\ (packet.isOpen \/ packet.cursor = 0)
    <3>1. packet.cursor \in Nat
      BY <1>1, PacketFields DEF PacketInv
    <3>2. ~Again => packet.isOpen \/ packet.cursor = 0
      BY <3>1 DEF Again
    <3> QED  BY <1>1, <2>1, <3>2
  <2>4. ~misused' => WellFormed(packet')
    BY <1>1, <2>1, <2>3, BeginBundleWellFormed
  <2>5. misused' \in BOOLEAN
    BY <1>1, <2>1
  <2> QED  BY <2>2, <2>4, <2>5 DEF IInv
<1>4. CASE CloseBundle
  <2>1. /\ packet.isOpen /\ ~packet.inMessage /\ packet' = EndBundle(packet)
        /\ misused' = misused
    BY <1>4 DEF CloseBundle
  <2>2. PacketInv(packet') /\ packet'.end = Capacity
    BY <1>1, <2>1, EndBundleInv
  <2>3. ~misused' => WellFormed(packet')
    BY <1>1, <2>1, EndBundleWellFormed
  <2> QED  BY <1>1, <2>1, <2>2, <2>3 DEF IInv
<1>5. CASE OpenMessage
  <2>1. PICK length \in AddressLengths :
          /\ ~packet.inMessage /\ MessageFits(packet, length)
          /\ packet' = BeginMessage(packet, length)
          /\ misused' = (misused \/ Again)
    BY <1>5 DEF OpenMessage
  <2>2. length \in Nat
    BY LengthsAssumption
  <2>3. PacketInv(packet') /\ packet'.end = Capacity
    BY <1>1, <2>1, <2>2, BeginMessageInv
  <2>4. ~misused' => WellFormed(packet) /\ (packet.isOpen \/ packet.cursor = 0)
    <3>1. packet.cursor \in Nat
      BY <1>1, PacketFields DEF PacketInv
    <3>2. ~Again => packet.isOpen \/ packet.cursor = 0
      BY <3>1 DEF Again
    <3> QED  BY <1>1, <2>1, <3>2
  <2>5. ~misused' => WellFormed(packet')
    BY <1>1, <2>1, <2>2, <2>4, BeginMessageWellFormed
  <2>6. misused' \in BOOLEAN
    BY <1>1, <2>1
  <2> QED  BY <2>3, <2>5, <2>6 DEF IInv
<1>6. CASE CloseMessage
  <2>1. /\ packet.inMessage /\ packet' = EndMessage(packet)
        /\ misused' = (misused \/ packet.depth # 0)
    BY <1>6 DEF CloseMessage
  <2>2. PacketInv(packet') /\ packet'.end = Capacity
    BY <1>1, <2>1, EndMessageInv
  <2>3. ~misused' => WellFormed(packet')
    BY <1>1, <2>1, EndMessageWellFormed
  <2> QED  BY <1>1, <2>1, <2>2, <2>3 DEF IInv
<1>7. CASE Argument
  <2>1. PICK bytes \in ArgumentBytes :
          /\ ArgumentFits(packet, bytes)
          /\ packet' = AddArgument(packet, bytes)
          /\ misused' = (misused \/ ~packet.inMessage)
    BY <1>7 DEF Argument
  <2>2. bytes \in Nat /\ bytes % 4 = 0
    BY ArgumentBytesType
  <2>3. PacketInv(packet') /\ packet'.end = Capacity
    BY <1>1, <2>1, <2>2, AppendedPacket
  <2>4. ~misused' => WellFormed(packet) /\ packet.inMessage
    BY <1>1, <2>1
  <2>5. ~misused' => WellFormed(packet')
    BY <1>1, <2>1, <2>2, <2>4, AppendedPacket
  <2>6. misused' \in BOOLEAN
    BY <1>1, <2>1
  <2> QED  BY <2>3, <2>5, <2>6 DEF IInv
<1>8. CASE Bracket
  <2>1. PICK level \in {1, -1} :
          /\ ArgumentFits(packet, 0)
          /\ packet' = AddBracket(packet, level)
          /\ misused' = (misused \/ ~packet.inMessage)
    BY <1>8 DEF Bracket
  <2>2. level \in Int
    OBVIOUS
  <2>3. PacketInv(packet') /\ packet'.end = Capacity
    BY <1>1, <2>1, <2>2, BracketedPacket
  <2>4. ~misused' => WellFormed(packet')
    BY <1>1, <2>1, <2>2, BracketedPacket
  <2>5. misused' \in BOOLEAN
    BY <1>1, <2>1
  <2> QED  BY <2>3, <2>4, <2>5 DEF IInv
<1>9. CASE UNCHANGED vars
  BY <1>1, <1>9 DEF vars, IInv
<1> QED
  BY <1>2, <1>3, <1>4, <1>5, <1>6, <1>7, <1>8, <1>9 DEF Next

(***************************************************************************)
(* The invariant holds of every reachable packet.                          *)
(***************************************************************************)
THEOREM PacketInvariance == Spec => []IInv
<1>1. Init => IInv
  <2> SUFFICES ASSUME Init  PROVE IInv
    OBVIOUS
  <2>1. packet = NewPacket(Capacity) /\ misused = FALSE
    BY DEF Init
  <2>2. PacketInv(packet) /\ packet.end = Capacity /\ WellFormed(packet)
    BY <2>1, NewPacketInv, NewPacketWellFormed, CapacityAssumption
  <2> QED  BY <2>1, <2>2 DEF IInv
<1> QED  BY <1>1, NextInv, PTL DEF Spec

(***************************************************************************)
(* No pointer of the stream leaves the buffer.                             *)
(***************************************************************************)
THEOREM PacketTypeCorrect == Spec => []TypeOK
<1>1. IInv => TypeOK
  BY DEF IInv, PacketInv, IsPacket, TypeOK
<1> QED  BY <1>1, PacketInvariance, PTL

(***************************************************************************)
(* The packet fits the buffer, and arguments stay clear of type tags.      *)
(***************************************************************************)
THEOREM PacketFits == Spec => []FitsTheBuffer
<1>1. IInv => FitsTheBuffer
  BY DEF IInv, PacketInv, Fits, FitsTheBuffer
<1> QED  BY <1>1, PacketInvariance, PTL

(***************************************************************************)
(* The slots of the open elements lead down to the outermost one.          *)
(***************************************************************************)
THEOREM PacketNests == Spec => []OpenElementsNest
<1>1. IInv => OpenElementsNest
  BY DEF IInv, PacketInv, Nested, SlotsOf, OpenElementsNest
<1> QED  BY <1>1, PacketInvariance, PTL

(***************************************************************************)
(* Size() counts a message that is being built as it will be when closed.  *)
(***************************************************************************)
THEOREM SizeCorrect == Spec => SizeIsValid
<1>1. IInv /\ [Next]_vars => [CloseMessage => Size(packet') = Size(packet)]_vars
  BY EndMessageInv DEF IInv, CloseMessage
<1> QED  BY <1>1, PacketInvariance, PTL DEF Spec, SizeIsValid

(***************************************************************************)
(* No element of a packet that is closed is refused by the receiver's      *)
(* parser, neither for its size or address nor for its type tags, brackets *)
(* and arguments, if the client kept to the protocol.                      *)
(***************************************************************************)
THEOREM PacketReadable == Spec => []ReadyIsReadable
<1>1. IInv => ReadyIsReadable
  BY ReadyReads DEF IInv, ReadyIsReadable
<1> QED  BY <1>1, PacketInvariance, PTL
====
