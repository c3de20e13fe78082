--------------------------- MODULE MCPacketListener ---------------------------
(***************************************************************************)
(* TLC instance of PacketListener, with bytes of 7 bits.  Elements are     *)
(* composed with what they mean: their bytes, the messages they hold up to *)
(* the first fault, and how their parsing ends.                            *)
(***************************************************************************)
EXTENDS PacketListener, SequencesExt

Str(chars) == chars \o [i \in 1..(4 - (Len(chars) % 4)) |-> 0]
Num(n)     == <<0, 0, n \div Radix, n % Radix>>
Highest    == <<127, 127, 127, 127>>     \* -1, or the highest unsigned word
Negative   == <<64, 0, 0, 0>>            \* the lowest word, half of the highest unsigned
Backwards  == <<127, 127, 127, 116>>     \* -12
Returning  == <<127, 127, 127, 124>>     \* the size that leads back to its slot

Arg(t, bytes, value) == [tag |-> t, bytes |-> bytes, value |-> value]
No == <<"bool", FALSE>>

Yes       == Arg(TrueTag, <<>>, <<"bool", TRUE>>)
Int32(n)    == Arg(Int32Tag, Num(n), <<"int", n>>)
MinusOne  == Arg(Int32Tag, Highest, <<"int", -1>>)
Real      == Arg(FloatTag, <<63, 127, 0, 0>>, <<"float", Wrap \div 2 - Radix * Radix>>)
Text      == Arg(StringTag, Str(<<120, 121, 122, 120>>), <<"string", <<120, 121, 122, 120>>>>)
Empty     == Arg(StringTag, Str(<<>>), <<"string", <<>>>>)
Symbol    == Arg(SymbolTag, Str(<<120>>), No)
Double    == Arg(DoubleTag, Num(1) \o Num(2), No)
Blob      == Arg(BlobTag, Num(3) \o <<7, 7, 7, 0>>, No)
LongBlob  == Arg(BlobTag, Num(64), No)     \* its size is more than there is
MaxBlob   == Arg(BlobTag, Highest, No)     \* rounded up it is 0
LostBlob  == Arg(BlobTag, <<>>, No)        \* nor is there a size
Begin     == Arg(ArrayBeginTag, <<>>, No)
End    == Arg(ArrayEndTag, <<>>, No)
Unknown   == Arg(120, Num(5), No)
Short     == Arg(DoubleTag, Num(1), No)

TagsOf(args) == [i \in DOMAIN args |-> args[i].tag]
Encoded(address, args) ==
  Str(address) \o Str(<<Comma>> \o TagsOf(args)) \o FlattenSeq([i \in DOMAIN args |-> args[i].bytes])

A == <<Slash, 97>>
Abc == <<Slash, 97, 98, 99>>

Good(bytes, address, typetag, args) ==
  [bytes |-> bytes, messages |-> <<[address |-> address, typetag |-> typetag, args |-> args]>>,
   ends |-> "done"]
Bad(bytes) == [bytes |-> bytes, messages |-> <<>>, ends |-> "malformed"]

Message(address, args) ==
  Good(Encoded(address, args), address, TagsOf(args), [i \in DOMAIN args |-> args[i].value])
BadMessage(address, args) == Bad(Encoded(address, args))

Bare     == Good(Str(Abc), Abc, <<>>, <<>>)
TagLess  == Good(Str(A) \o Str(<<Comma>>), A, <<>>, <<>>)
NoComma  == Bad(Str(A) \o Num(5))
Endless  == Bad(<<Slash, 97, 98, 99>>)
EndlessTags == Bad(Str(A) \o <<Comma, 105, 105, 105>>)
EndlessText == Bad(Str(A) \o Str(<<Comma, 115>>) \o <<120, 120, 120, 120>>)
Nothing  == Bad(<<>>)

\* A bundle of elements; "sizes" are what its slots say.
Header == BundleHeader \o Num(0) \o Num(1)
Slotted(elements, sizes) ==
  FlattenSeq([i \in DOMAIN elements |-> sizes[i] \o elements[i].bytes])
Before(elements) ==
  LET faults == {i \in DOMAIN elements : elements[i].ends # "done"}
  IN  IF faults = {} THEN elements ELSE SubSeq(elements, 1, Least(faults))
Bundle(elements) ==
  [bytes    |-> Header \o Slotted(elements, [i \in DOMAIN elements |-> Num(Len(elements[i].bytes))]),
   messages |-> FlattenSeq([i \in DOMAIN Before(elements) |-> elements[i].messages]),
   ends     |-> IF elements = <<>> THEN "done" ELSE Last(Before(elements)).ends]
BadSlots(elements, sizes) == Bad(Header \o Slotted(elements, sizes))
NeverEnds(elements, sizes) == [BadSlots(elements, sizes) EXCEPT !.ends = "never"]

One == Message(A, <<Int32(1)>>)

Cases ==
  { One, Bare, TagLess,
    Message(Abc, <<Yes, MinusOne, Text>>),
    Message(A, <<Symbol, Double, Empty, Real>>),
    Message(A, <<Blob, Int32(2)>>),
    Message(A, <<Int32(2), LongBlob>>),
    Message(A, <<Yes, LostBlob, Yes>>),
    Message(A, <<Blob, Blob, Blob>>),
    Message(A, <<LongBlob, LostBlob, LostBlob>>),
    Message(A, <<MaxBlob, Int32(3)>>),
    Message(A, <<Begin, Int32(3), End>>),
    Message(A, <<End, Begin>>),
    BadMessage(A, <<Begin, Int32(3)>>),
    BadMessage(A, <<LongBlob, Int32(2)>>),
    BadMessage(A, <<Yes, Unknown>>),
    BadMessage(A, <<Short>>),
    NoComma, Endless, EndlessTags, EndlessText,
    Bad(<<Slash, 97, 98, 99, 0>>),
    Bundle(<<>>),
    Bundle(<<One, Bare>>),
    Bundle(<<Bare, Bundle(<<One>>), TagLess>>),
    Bundle(<<Bundle(<<TagLess, NoComma>>), One>>),
    Bundle(<<One, Endless, Bare>>),
    Bundle(<<Bare, Nothing, Bare>>),
    Bundle(<<Message(A, <<LostBlob>>), One>>),
    Bundle(<<Bare, BadSlots(<<Bare>>, <<Num(12)>>)>>),
    NeverEnds(<<Bare, Bare>>, <<Num(8), Returning>>),
    NeverEnds(<<Bare, Bare>>, <<Returning, Num(6)>>),
    Bundle(<<One, NeverEnds(<<Nothing>>, <<Returning>>), Bare>>),
    Bundle(<<NoComma, NeverEnds(<<Nothing>>, <<Returning>>)>>),
    BadSlots(<<Bare, Bare>>, <<Num(6), Returning>>),
    BadSlots(<<Bare, Bare>>, <<Num(8), Backwards>>),
    BadSlots(<<Bare, Bare>>, <<Negative, Num(8)>>),
    Bundle(<<One, Bad(<<Hash, 97, 98, 99>> \o Str(Abc) \o Num(0))>>),
    BadSlots(<<Bare, Bare>>, <<Num(8), Num(6)>>),
    BadSlots(<<Bare, Bare>>, <<Num(8), Num(20)>>),
    Bundle(<<One, One, One, One>>) }

MCGarbage == {0, 9, Wrap - 1}

MCDatagrams == {c.bytes : c \in Cases}

\* What PacketMeaning makes of the bytes is what they were composed of.
ASSUME MeaningIsWhatWasWritten ==
  \A c \in Cases : Meaning(c.bytes) = [messages |-> c.messages, ends |-> c.ends]
====
