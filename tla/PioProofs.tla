----------------------------- MODULE PioProofs -----------------------------
(***************************************************************************)
(* Proofs about Pio: what the PIO programs keep, for every byte either     *)
(* side sends, and for every clock of the NABU they tolerate.              *)
(***************************************************************************)
EXTENDS Pio, SequenceTheorems, TLAPS

Byte == 0 .. 255
Pair == 0 .. 3

-----------------------------------------------------------------------------
\* Bits and bytes.

LEMMA BitsAreBits ==
  ASSUME NEW b \in Byte
  PROVE  Bits(b) \in [1 .. 8 -> {0, 1}]
<1>1. ASSUME NEW k \in 1 .. 8 PROVE (b \div Weight[k]) % 2 \in {0, 1}
  BY SMT DEF Weight, Byte
<1> QED
  BY <1>1 DEF Bits

\* A byte is the number that its bits make.
LEMMA NumberOfBits ==
  ASSUME NEW b \in Byte, NEW s, \A k \in 1 .. 8 : s[k] = Bits(b)[k]
  PROVE  Number(s) = b
<1>1. /\ s[1] = b % 2 /\ s[2] = (b \div 2) % 2 /\ s[3] = (b \div 4) % 2
      /\ s[4] = (b \div 8) % 2 /\ s[5] = (b \div 16) % 2 /\ s[6] = (b \div 32) % 2
      /\ s[7] = (b \div 64) % 2 /\ s[8] = (b \div 128) % 2
  <2>1. \A k \in 1 .. 8 : s[k] = (b \div Weight[k]) % 2
    BY DEF Bits
  <2> QED
    BY <2>1 DEF Weight, Byte
<1> QED
  BY <1>1, SMTT(30) DEF Number, Byte

LEMMA FrameShape ==
  ASSUME NEW b \in Byte, NEW n \in 10 .. 12
  PROVE  /\ Frame(Bits(b), n) \in [1 .. n -> Pair] /\ Frame(Bits(b), n) \in Seq(Pair)
         /\ Len(Frame(Bits(b), n)) = n /\ Frame(Bits(b), n)[1] = Space
         /\ \A k \in 1 .. 8 : /\ Frame(Bits(b), n)[k + 1] \in {Mark, Space}
                              /\ Plus(Frame(Bits(b), n)[k + 1]) = Bits(b)[k]
         /\ \A k \in 10 .. n : Frame(Bits(b), n)[k] = Mark
<1>1. \A k \in 1 .. 8 : Bits(b)[k] \in {0, 1}
  BY BitsAreBits
<1>2. Frame(Bits(b), n) = [k \in 1 .. n |->
        IF k = 1 \/ (k <= 9 /\ Bits(b)[k - 1] = 0) THEN Space ELSE Mark]
  BY DEF Frame
<1>3. Frame(Bits(b), n) \in [1 .. n -> Pair]
  BY <1>2 DEF Mark, Space, Pair
<1>4. /\ Frame(Bits(b), n)[1] = Space
      /\ \A k \in 1 .. 8 :
           Frame(Bits(b), n)[k + 1] = IF Bits(b)[k] = 0 THEN Space ELSE Mark
      /\ \A k \in 10 .. n : Frame(Bits(b), n)[k] = Mark
  BY <1>2
<1>5. \A k \in 1 .. 8 : /\ Frame(Bits(b), n)[k + 1] \in {Mark, Space}
                        /\ Plus(Frame(Bits(b), n)[k + 1]) = Bits(b)[k]
  BY <1>1, <1>4 DEF Mark, Space, Plus
<1>6. Frame(Bits(b), n) \in Seq(Pair) /\ Len(Frame(Bits(b), n)) = n
  BY <1>3
<1> QED
  BY <1>3, <1>4, <1>5, <1>6

-----------------------------------------------------------------------------
\* Type correctness, of either kind and for any clock.

IsSeq(s) == \E S : s \in Seq(S)

RxPlaces == {"start", "set", "in", "loop", "stop", "irq", "wait", "jump", "push"}

RxTyped ==
  /\ rx = [at |-> rx.at, delay |-> rx.delay, x |-> rx.x, isr |-> rx.isr]
  /\ rx.at \in RxPlaces /\ rx.delay \in 0 .. 10 /\ rx.x \in 0 .. 7
  /\ IsSeq(rx.isr) /\ Len(rx.isr) = 32 \div Width
  /\ IsSeq(rxfifo) /\ Len(rxfifo) <= RxDepth

TxTyped ==
  /\ tx \in [osr : Seq(Pair), delay : 0 .. 7, pins : Pair] /\ Len(tx.osr) <= 11
  /\ txfifo \in Seq(Byte) /\ Len(txfifo) <= RxDepth /\ todo \in Seq(Byte)

LEMMA ShiftIn ==
  ASSUME NEW s, IsSeq(s), Len(s) > 0, NEW e
  PROVE  IsSeq(Append(Tail(s), e)) /\ Len(Append(Tail(s), e)) = Len(s)
<1>1. PICK S : s \in Seq(S)
  BY DEF IsSeq
<1>2. s # <<>>
  BY <1>1, EmptySeq
<1>3. Tail(s) \in Seq(S \cup {e}) /\ Len(Tail(s)) = Len(s) - 1 /\ Len(s) \in Nat
  BY <1>1, <1>2, HeadTailProperties, SeqMonotonic, LenProperties
<1> QED
  BY <1>3 DEF IsSeq

LEMMA AppendIsSeq ==
  ASSUME NEW s, IsSeq(s), NEW e
  PROVE  IsSeq(Append(s, e)) /\ Len(Append(s, e)) = Len(s) + 1 /\ Len(s) \in Nat
<1>1. PICK S : s \in Seq(S)
  BY DEF IsSeq
<1>2. s \in Seq(S \cup {e})
  BY <1>1, SeqMonotonic
<1> QED
  BY <1>2 DEF IsSeq

LEMMA TailIsSeq ==
  ASSUME NEW s, IsSeq(s), s # <<>>
  PROVE  IsSeq(Tail(s)) /\ Len(Tail(s)) = Len(s) - 1 /\ Len(s) \in Nat
<1>1. PICK S : s \in Seq(S)
  BY DEF IsSeq
<1> QED
  BY <1>1, HeadTailProperties, LenProperties DEF IsSeq

LEMMA WidthIs == Width \in {1, 2} /\ 32 \div Width \in {16, 32} /\ (32 \div Width) * Width = 32
  BY DEF Width

LEMMA EmptyIsWord == IsSeq(Empty) /\ Len(Empty) = 32 \div Width
<1>1. Empty \in Seq({0}) /\ Len(Empty) = 32 \div Width
  BY WidthIs DEF Empty
<1> QED
  BY <1>1 DEF IsSeq

\* A frame has twelve symbols.
LEMMA FrameTyped ==
  ASSUME NEW b \in Byte
  PROVE  TxFrame(b) \in Seq(Pair) /\ Len(TxFrame(b)) = 12
<1> DEFINE c == IF Kind = "duart" THEN b ELSE (2 * b + 1) % 256
<1>1. c \in Byte
  BY DEF Byte
<1>2. TxFrame(b) = Frame(Bits(c), 12)
  BY DEF TxFrame
<1> HIDE DEF c
<1>3. 12 \in 10 .. 12
  OBVIOUS
<1>4. Frame(Bits(c), 12) \in Seq(Pair) /\ Len(Frame(Bits(c), 12)) = 12
  BY <1>1, <1>3, FrameShape, Zenon
<1> QED
  BY <1>2, <1>4, Zenon

LEMMA RxTypedStep == RxTyped /\ RxCycle => RxTyped'
<1> SUFFICES ASSUME RxTyped, RxCycle PROVE RxTyped'
  OBVIOUS
<1> USE DEF RxPlaces
<1>1. CASE RxDelay
  BY <1>1 DEF RxDelay, RxTyped
<1>2. ASSUME NEW at, NEW there \in RxPlaces, Goes(at, there, 0)
      PROVE  RxTyped'
  BY <1>2 DEF Goes, RxTyped
<1>3. CASE RxStart \/ RxStop \/ RxIrq \/ RxWait \/ RxJump
  BY <1>2, <1>3 DEF RxStart, RxStop, RxIrq, RxWait, RxJump
<1>4. CASE RxSet
  <2>1. rx' = [at |-> "in", delay |-> 10, x |-> 7, isr |-> rx.isr] /\ UNCHANGED rxfifo
    BY <1>4 DEF RxSet, RxTyped
  <2> QED
    BY <2>1 DEF RxTyped
<1>5. CASE RxIn
  <2>1. /\ IsSeq(Append(Tail(rx.isr), Pins))
        /\ Len(Append(Tail(rx.isr), Pins)) = 32 \div Width
    BY ShiftIn, WidthIs DEF RxTyped
  <2> QED
    BY <1>5, <2>1 DEF RxIn, RxTyped
<1>6. CASE RxLoop
  <2>1. /\ rx' = [at |-> IF rx.x # 0 THEN "in" ELSE "stop", delay |-> 6,
                 x |-> IF rx.x # 0 THEN rx.x - 1 ELSE 7, isr |-> rx.isr]
        /\ UNCHANGED rxfifo
    BY <1>6 DEF RxLoop, RxTyped
  <2> QED
    BY <2>1 DEF RxTyped
<1>7. CASE RxPush
  <2>1. CASE Len(rxfifo) < RxDepth
    <3>1. IsSeq(Append(rxfifo, rx.isr)) /\ Len(Append(rxfifo, rx.isr)) <= RxDepth
      BY <2>1, AppendIsSeq DEF RxTyped, RxDepth
    <3> QED
      BY <1>7, <2>1, <3>1, EmptyIsWord DEF RxPush, RxTyped
  <2>2. CASE ~(Len(rxfifo) < RxDepth)
    BY <1>7, <2>2 DEF RxPush, RxTyped
  <2> QED
    BY <2>1, <2>2
<1> QED
  BY <1>1, <1>3, <1>4, <1>5, <1>6, <1>7 DEF RxCycle

LEMMA TxTypedStep == TxTyped /\ TxCycle /\ UNCHANGED todo => TxTyped'
<1> SUFFICES ASSUME TxTyped, TxCycle, UNCHANGED todo PROVE TxTyped'
  OBVIOUS
<1> DEFINE osr == IF tx.osr = <<>> /\ txfifo # <<>> THEN TxFrame(txfifo[1]) ELSE tx.osr
<1>1. CASE tx.delay > 0 \/ osr = <<>>
  BY <1>1 DEF TxCycle, TxTyped
<1>2. CASE ~(tx.delay > 0) /\ osr # <<>>
  <2>1. /\ tx' = [osr |-> Tail(osr), delay |-> TxDelay, pins |-> osr[1]]
        /\ txfifo' = IF tx.osr = <<>> THEN Tail(txfifo) ELSE txfifo
    BY <1>2 DEF TxCycle
  <2>2. osr \in Seq(Pair) /\ Len(osr) <= 12
    <3>1. CASE tx.osr = <<>> /\ txfifo # <<>>
      <4>1. txfifo[1] \in Byte
        BY <3>1 DEF TxTyped
      <4>2. osr = TxFrame(txfifo[1])
        BY <3>1
      <4>3. osr \in Seq(Pair) /\ Len(osr) = 12
        BY <4>1, <4>2, FrameTyped, Zenon
      <4> HIDE DEF osr
      <4> QED
        BY <4>3
    <3>2. CASE ~(tx.osr = <<>> /\ txfifo # <<>>)
      BY <3>2 DEF TxTyped
    <3> QED
      BY <3>1, <3>2
  <2>3. Tail(osr) \in Seq(Pair) /\ Len(Tail(osr)) <= 11 /\ osr[1] \in Pair
    BY <1>2, <2>2
  <2>4. txfifo' \in Seq(Byte) /\ Len(txfifo') <= RxDepth
    <3>1. CASE tx.osr = <<>>
      <4>1. txfifo # <<>>
        BY <1>2, <3>1
      <4> QED
        BY <2>1, <3>1, <4>1 DEF TxTyped, RxDepth
    <3> QED
      BY <2>1, <3>1 DEF TxTyped
  <2> QED
    BY <2>1, <2>3, <2>4 DEF TxTyped, TxDelay
<1> QED
  BY <1>1, <1>2

LEMMA TypedStart == PioStart => RxTyped /\ TxTyped
<1> SUFFICES ASSUME PioStart PROVE RxTyped /\ TxTyped
  OBVIOUS
<1>1. IsSeq(<<>>) /\ Len(<<>>) = 0
  <2>1. <<>> \in Seq({}) /\ Len(<<>>) = 0
    OBVIOUS
  <2> QED
    BY <2>1 DEF IsSeq
<1>2. RxTyped
  BY <1>1, EmptyIsWord DEF PioStart, RxTyped, RxPlaces, RxDepth
<1>3. todo \in Seq(Byte)
  <2>1. todo = <<>> \/ todo \in Answers
    BY DEF PioStart
  <2>2. CASE todo = <<>>
    BY <2>2
  <2>3. CASE todo \in Answers
    BY <2>3, PioAssumption, Zenon DEF Byte
  <2> QED
    BY <2>1, <2>2, <2>3
<1> QED
  BY <1>2, <1>3 DEF PioStart, TxTyped, Pair, Mark, Space, RxDepth

LEMMA TypedStep == RxTyped /\ TxTyped /\ [PioNext]_pio_vars => (RxTyped /\ TxTyped)'
<1> SUFFICES ASSUME RxTyped, TxTyped, [PioNext]_pio_vars PROVE (RxTyped /\ TxTyped)'
  OBVIOUS
<1>1. CASE Tick
  BY <1>1, RxTypedStep, TxTypedStep DEF Tick
<1>2. CASE ReadByte
  <2>1. RxTyped'
    BY <1>2, TailIsSeq DEF ReadByte, RxTyped, RxDepth
  <2> QED
    BY <1>2, <2>1 DEF ReadByte, TxTyped
<1>3. CASE SendByte
  <2>1. todo' \in Seq(Byte) /\ txfifo' \in Seq(Byte) /\ Len(txfifo') <= RxDepth
    BY <1>3 DEF SendByte, TxTyped, RxDepth
  <2> QED
    BY <1>3, <2>1 DEF SendByte, RxTyped, TxTyped
<1>4. CASE UNCHANGED pio_vars
  BY <1>4 DEF pio_vars, gateway_side, nabu_side, RxTyped, TxTyped
<1> QED
  BY <1>1, <1>2, <1>3, <1>4 DEF PioNext

LEMMA PioInvariant == PioSpec => [](RxTyped /\ TxTyped)
  BY TypedStart, TypedStep, PTL DEF PioSpec

\* The state machines' counters, shift registers and FIFOs keep their sizes:
\* x never runs past 0, and neither FIFO takes a ninth word.
THEOREM PioTypeCorrect == PioSpec => []PioTypeOK
<1>1. RxTyped /\ TxTyped => PioTypeOK
  BY WidthIs DEF RxTyped, TxTyped, PioTypeOK, Pair
<1> QED
  BY <1>1, PioInvariant, PTL

-----------------------------------------------------------------------------
\* The NABU hears what the gateway puts.

\* How long the frame on the pins has been there, in cycles.
Age == 7 - tx.delay + 8 * (11 - Len(tx.osr))

EarTyped ==
  /\ ear \in [at : {"hunt", "bits", "break"}, time : Nat, bits : Seq({0, 1})]
  /\ Len(ear.bits) <= 9 /\ (ear.at # "bits" => ear.bits = <<>>)
  /\ ear.at = "hunt" => ear = Hunting
  /\ sure \in BOOLEAN /\ must \in Seq(Byte) /\ heard \in Seq(Byte) /\ bit \in BitTimes

\* The NABU's receiver has heard all that was put but what is in the FIFO.
Rested ==
  /\ ear = Hunting /\ tx.pins = Mark
  /\ Len(tx.osr) <= 2 /\ \A k \in 1 .. Len(tx.osr) : tx.osr[k] = Mark
  /\ must = heard \o txfifo

\* After a cycles, n samples, one at the middle h of every bit: the next is in the next
\* cycle, or later.
InTime(h, n, a) == 8 * a <= (2 * n + 1) * h /\ (n = 0 \/ (2 * n - 1) * h < 8 * a)
Now(h, n, a) == (2 * n + 1) * h < 8 * a + 8

\* Byte b is on the pins, and the ear has sampled the bits whose middle is past.
Sampling(b) ==
  LET n == Len(ear.bits)
  IN  /\ ear.at = "bits" /\ ear.time = 8 * Age /\ Age >= 1
      /\ InTime(bit \div 2, n, Age)
      /\ \A k \in 1 .. n : ear.bits[k] = Plus(TxFrame(b)[k])

FrameOut(b) ==
  /\ Len(tx.osr) >= 2 /\ tx.pins = TxFrame(b)[12 - Len(tx.osr)]
  /\ \A k \in 1 .. Len(tx.osr) : tx.osr[k] = TxFrame(b)[12 - Len(tx.osr) + k]

Framing(b) ==
  /\ must = (heard \o <<b>>) \o txfifo
  /\ FrameOut(b)
  /\ (ear = Hunting /\ Age = 0) \/ Sampling(b)

HearInv ==
  /\ sure => Rested \/ \E b \in Byte : Framing(b)
  /\ ~sure => must = <<>> /\ heard = <<>>

LEMMA FrameIs ==
  ASSUME Kind = "duart", NEW b \in Byte
  PROVE  /\ TxFrame(b) \in Seq(Pair) /\ Len(TxFrame(b)) = 12 /\ TxFrame(b)[1] = Space
         /\ \A k \in 1 .. 8 : Plus(TxFrame(b)[k + 1]) = Bits(b)[k]
         /\ \A k \in 10 .. 12 : TxFrame(b)[k] = Mark
<1>1. TxFrame(b) = Frame(Bits(b), 12)
  BY DEF TxFrame
<1>2. 12 \in 10 .. 12
  OBVIOUS
<1>3. /\ Frame(Bits(b), 12) \in Seq(Pair) /\ Len(Frame(Bits(b), 12)) = 12
      /\ Frame(Bits(b), 12)[1] = Space
      /\ \A k \in 1 .. 8 : Plus(Frame(Bits(b), 12)[k + 1]) = Bits(b)[k]
      /\ \A k \in 10 .. 12 : Frame(Bits(b), 12)[k] = Mark
  BY <1>2, FrameShape, Zenon
<1> QED
  BY <1>1, <1>3, Zenon

\* Sequences.
LEMMA ConcatAppend ==
  \A h, f \in Seq(Byte) : \A x \in Byte : Append(h \o f, x) = h \o Append(f, x)
<1> SUFFICES ASSUME NEW h \in Seq(Byte), NEW f \in Seq(Byte), NEW x \in Byte
             PROVE  Append(h \o f, x) = h \o Append(f, x)
  OBVIOUS
<1> DEFINE last == <<x>>
<1>1. h \o f \in Seq(Byte) /\ last \in Seq(Byte)
  OBVIOUS
<1>2. Append(f, x) = f \o last /\ Append(h \o f, x) = (h \o f) \o last
  BY <1>1, AppendIsConcat, Zenon
<1> HIDE DEF last
<1>3. (h \o f) \o last = h \o (f \o last)
  BY <1>1, ConcatAssociative
<1> QED
  BY <1>2, <1>3, Zenon

LEMMA ConcatOne ==
  ASSUME NEW S, NEW h \in Seq(S), NEW x \in S
  PROVE  h \o <<x>> = Append(h, x)
BY AppendIsConcat

LEMMA ConcatTail ==
  ASSUME NEW S, NEW h \in Seq(S), NEW f \in Seq(S), f # <<>>
  PROVE  h \o f = (h \o <<f[1]>>) \o Tail(f)
<1>1. f = <<f[1]>> \o Tail(f) /\ f[1] \in S /\ Tail(f) \in Seq(S)
  OBVIOUS
<1> QED
  BY <1>1, ConcatAssociative

LEMMA ConcatPrefix ==
  ASSUME NEW S, NEW h \in Seq(S), NEW f \in Seq(S)
  PROVE  IsPrefix(h, h \o f)
BY DEF IsPrefix

LEMMA NumberIsByte ==
  ASSUME NEW s, \A k \in 1 .. 8 : s[k] \in {0, 1}
  PROVE  Number(s) \in Byte
<1>1. /\ s[1] \in {0, 1} /\ s[2] \in {0, 1} /\ s[3] \in {0, 1} /\ s[4] \in {0, 1}
      /\ s[5] \in {0, 1} /\ s[6] \in {0, 1} /\ s[7] \in {0, 1} /\ s[8] \in {0, 1}
  OBVIOUS
<1> QED
  BY <1>1 DEF Number, Byte

LEMMA DataBits ==
  ASSUME NEW s \in Seq({0, 1}), Len(s) = 9
  PROVE  /\ \A k \in 1 .. 8 : Tail(s)[k] = s[k + 1]
         /\ Number(Tail(s)) \in Byte
<1>1. \A k \in 1 .. 9 : s[k] \in {0, 1}
  BY ElementOfSeq, Zenon
<1>2. s # <<>>
  <2>1. s = <<>> => Len(s) = 0
    BY EmptySeq
  <2>2. 9 # 0
    OBVIOUS
  <2> QED
    BY <2>1, <2>2, Zenon
<1>3. Len(Tail(s)) = 8 /\ \A k \in 1 .. Len(Tail(s)) : Tail(s)[k] = s[k + 1]
  BY <1>2, HeadTailProperties
<1>4. \A k \in 1 .. 8 : Tail(s)[k] = s[k + 1]
  BY <1>3
<1>5. ASSUME NEW k \in 1 .. 8 PROVE Tail(s)[k] \in {0, 1}
  <2>1. k + 1 \in 1 .. 9
    OBVIOUS
  <2> QED
    BY <1>1, <1>4, <2>1, Zenon
<1> QED
  BY <1>4, <1>5, NumberIsByte

\* The clocks the proofs are about: within 3 % of the PIO's.
Near == Kind = "duart" /\ BitTimes \subseteq 62 .. 66

LEMMA HalfBit == Near /\ bit \in BitTimes => bit \div 2 \in {31, 32, 33} /\ bit \in {62, 64, 66}
<1> SUFFICES ASSUME Near, bit \in BitTimes PROVE bit \div 2 \in {31, 32, 33} /\ bit \in {62, 64, 66}
  OBVIOUS
<1>1. bit \in 62 .. 66 /\ bit % 2 = 0
  BY PioAssumption DEF Near
<1>2. bit = 62 \/ bit = 63 \/ bit = 64 \/ bit = 65 \/ bit = 66
  BY <1>1
<1> QED
  BY <1>1, <1>2

\* The middle of the NABU's n-th bit falls on the n-th symbol of the frame.
LEMMA MiddleOfBit ==
  ASSUME NEW h \in {31, 32, 33}, NEW n \in 0 .. 9, NEW a \in Nat, InTime(h, n, a)
  PROVE  /\ a <= 78
         /\ Now(h, n, a) => 8 * n <= a /\ a < 8 * n + 8 /\ InTime(h, n + 1, a + 1)
         /\ ~Now(h, n, a) => InTime(h, n, a + 1)
<1>1. CASE h = 31
  BY <1>1 DEF InTime, Now
<1>2. CASE h = 32
  BY <1>2 DEF InTime, Now
<1>3. CASE h = 33
  BY <1>3 DEF InTime, Now
<1> QED
  BY <1>1, <1>2, <1>3

\* A cycle of a frame that is not yet out.
LEMMA FrameAges ==
  ASSUME TxTyped, TxCycle, tx.osr # <<>>
  PROVE  /\ Age' = Age + 1 /\ txfifo' = txfifo /\ Age \in Nat
         /\ tx.delay > 0 => tx'.osr = tx.osr /\ tx'.pins = tx.pins
         /\ tx.delay = 0 =>
              /\ tx'.pins = tx.osr[1] /\ Len(tx'.osr) = Len(tx.osr) - 1
              /\ \A k \in 1 .. Len(tx'.osr) : tx'.osr[k] = tx.osr[k + 1]
<1>1. /\ tx.osr \in Seq(Pair) /\ tx.delay \in 0 .. 7
      /\ Len(tx.osr) \in Nat /\ 1 <= Len(tx.osr) /\ Len(tx.osr) <= 11
  <2>1. tx.osr \in Seq(Pair) /\ tx.delay \in 0 .. 7 /\ Len(tx.osr) <= 11
    BY DEF TxTyped
  <2>2. Len(tx.osr) \in Nat /\ Len(tx.osr) # 0
    BY <2>1, EmptySeq
  <2> QED
    BY <2>1, <2>2
<1>2. Age \in Nat
  <2>1. 7 - tx.delay \in Nat /\ 8 * (11 - Len(tx.osr)) \in Nat
    BY <1>1
  <2> QED
    BY <2>1 DEF Age
<1>3. CASE tx.delay > 0
  <2>1. tx' = [osr |-> tx.osr, delay |-> tx.delay - 1, pins |-> tx.pins] /\ txfifo' = txfifo
    BY <1>3 DEF TxCycle, TxTyped
  <2>2. Age' = 7 - (tx.delay - 1) + 8 * (11 - Len(tx.osr))
    BY <2>1 DEF Age
  <2>3. Age' = Age + 1
    BY <1>1, <2>2 DEF Age
  <2> QED
    BY <1>2, <1>3, <2>1, <2>3
<1>4. CASE tx.delay = 0
  <2>1. tx' = [osr |-> Tail(tx.osr), delay |-> 7, pins |-> tx.osr[1]] /\ txfifo' = txfifo
    BY <1>1, <1>4 DEF TxCycle, TxDelay
  <2>2. /\ Len(Tail(tx.osr)) = Len(tx.osr) - 1
        /\ \A k \in 1 .. Len(Tail(tx.osr)) : Tail(tx.osr)[k] = tx.osr[k + 1]
    BY <1>1, HeadTailProperties
  <2>3. Age' = 7 - 7 + 8 * (11 - Len(Tail(tx.osr)))
    BY <2>1 DEF Age
  <2>4. Age' = Age + 1
    BY <1>1, <1>4, <2>2, <2>3 DEF Age
  <2> QED
    BY <1>2, <1>4, <2>1, <2>2, <2>4
<1> QED
  BY <1>1, <1>3, <1>4

LEMMA EarTypedTick ==
  ASSUME EarTyped, TxTyped, NabuListens, UNCHANGED <<bit, sure, must>>
  PROVE  EarTyped'
<1> DEFINE Ears == [at : {"hunt", "bits", "break"}, time : Nat, bits : Seq({0, 1})]
<1>1. /\ ear \in Ears
      /\ ear.bits \in Seq({0, 1}) /\ ear.time \in Nat
      /\ Len(ear.bits) \in Nat /\ Len(ear.bits) <= 9
  BY LenProperties DEF EarTyped
<1>2. Level \in {0, 1}
  BY DEF Level, Plus, TxTyped, Pair
<1>3. /\ Hunting \in Ears /\ Hunting.at = "hunt" /\ Hunting.bits = <<>>
      /\ [Hunting EXCEPT !.at = "break"] \in Ears
      /\ [Hunting EXCEPT !.at = "break"].at = "break"
      /\ [Hunting EXCEPT !.at = "break"].bits = <<>>
  <2>1. /\ Hunting = [at |-> "hunt", time |-> 0, bits |-> <<>>]
        /\ [Hunting EXCEPT !.at = "break"] = [at |-> "break", time |-> 0, bits |-> <<>>]
    BY DEF Hunting
  <2>2. <<>> \in Seq({0, 1})
    OBVIOUS
  <2> QED
    BY <2>1, <2>2
<1>4. Len(<<>>) <= 9
  OBVIOUS
<1>5. CASE EarHunts
  BY <1>1, <1>5 DEF EarHunts, EarTyped, Cycle
<1>6. CASE EarTimes
  <2>1. ear' = [at |-> "bits", time |-> ear.time + 8, bits |-> ear.bits]
    BY <1>1, <1>6 DEF EarTimes, Cycle
  <2>2. ear' \in Ears /\ ear'.at = "bits" /\ ear'.bits = ear.bits
    BY <1>1, <2>1
  <2> QED
    BY <1>1, <1>6, <2>2 DEF EarTimes, EarTyped
<1>7. CASE EarSamples
  <2>1. Append(ear.bits, Level) \in Seq({0, 1}) /\ Len(Append(ear.bits, Level)) = Len(ear.bits) + 1
    BY <1>1, <1>2, AppendProperties
  <2>2. Len(Append(ear.bits, Level)) <= 9
    BY <1>1, <1>7, <2>1 DEF EarSamples
  <2>3. /\ ear' \in Ears /\ ear'.at = "bits" /\ ear'.bits = Append(ear.bits, Level)
    <3>1. ear' = [at |-> "bits", time |-> ear.time + 8, bits |-> Append(ear.bits, Level)]
      BY <1>1, <1>7 DEF EarSamples, Cycle
    <3> QED
      BY <1>1, <2>1, <3>1
  <2> QED
    BY <1>7, <2>2, <2>3 DEF EarSamples, EarTyped
<1>8. CASE EarEnds
  <2>1. Number(Tail(ear.bits)) \in Byte
    BY <1>1, <1>8, DataBits DEF EarEnds
  <2>2. heard' \in Seq(Byte)
    BY <1>8, <2>1 DEF EarEnds, EarTyped
  <2> QED
    BY <1>3, <1>4, <1>8, <2>2 DEF EarEnds, EarTyped
<1>9. CASE EarWaits
  BY <1>3, <1>4, <1>9 DEF EarWaits, EarTyped
<1> QED
  BY <1>5, <1>6, <1>7, <1>8, <1>9 DEF NabuListens

\* The rest of the frame stays the rest of the frame.
LEMMA FrameKept ==
  ASSUME TxTyped, TxCycle, NEW b, FrameOut(b), Age <= 78
  PROVE  FrameOut(b)' /\ Age' = Age + 1 /\ Age \in Nat /\ txfifo' = txfifo
<1>1. /\ tx.osr \in Seq(Pair) /\ Len(tx.osr) \in Nat /\ Len(tx.osr) <= 11 /\ 2 <= Len(tx.osr)
      /\ tx.delay \in 0 .. 7
  BY LenProperties DEF TxTyped, FrameOut
<1>2. tx.osr # <<>>
  BY <1>1, EmptySeq
<1>3. CASE tx.delay > 0
  BY <1>2, <1>3, FrameAges DEF FrameOut
<1>4. CASE tx.delay = 0
  <2>1. /\ tx'.pins = tx.osr[1] /\ Len(tx'.osr) = Len(tx.osr) - 1
        /\ \A k \in 1 .. Len(tx'.osr) : tx'.osr[k] = tx.osr[k + 1]
    BY <1>2, <1>4, FrameAges
  <2>2. Len(tx.osr) >= 3
    <3>1. Age = 7 + 8 * (11 - Len(tx.osr))
      BY <1>4 DEF Age
    <3> QED
      BY <1>1, <3>1
  <2>3. tx'.pins = TxFrame(b)[12 - Len(tx'.osr)]
    <3>1. 1 \in 1 .. Len(tx.osr) /\ 12 - Len(tx.osr) + 1 = 12 - Len(tx'.osr)
      BY <1>1, <2>1
    <3>2. tx.osr[1] = TxFrame(b)[12 - Len(tx.osr) + 1]
      BY <3>1 DEF FrameOut
    <3> QED
      BY <2>1, <3>1, <3>2
  <2>4. ASSUME NEW k \in 1 .. Len(tx'.osr)
        PROVE  tx'.osr[k] = TxFrame(b)[12 - Len(tx'.osr) + k]
    <3>1. k + 1 \in 1 .. Len(tx.osr) /\ 12 - Len(tx.osr) + (k + 1) = 12 - Len(tx'.osr) + k
      BY <1>1, <2>1
    <3>2. tx.osr[k + 1] = TxFrame(b)[12 - Len(tx.osr) + (k + 1)]
      BY <3>1 DEF FrameOut
    <3>3. tx'.osr[k] = tx.osr[k + 1]
      BY <2>1
    <3> QED
      BY <3>1, <3>2, <3>3
  <2>5. Len(tx'.osr) >= 2
    BY <1>1, <2>1, <2>2
  <2> QED
    BY <1>2, <2>3, <2>4, <2>5, FrameAges DEF FrameOut
<1> QED
  BY <1>1, <1>3, <1>4, <1>2, FrameAges

\* The symbol on the pins is the one whose turn it is.
LEMMA SymbolNow ==
  ASSUME TxTyped, NEW b, FrameOut(b), NEW n \in 0 .. 9, 8 * n <= Age, Age < 8 * n + 8
  PROVE  Len(tx.osr) = 11 - n /\ tx.pins = TxFrame(b)[n + 1]
<1>1. Len(tx.osr) \in Nat /\ Len(tx.osr) <= 11 /\ tx.delay \in 0 .. 7
  BY LenProperties DEF TxTyped
<1>2. Len(tx.osr) = 11 - n
  <2>1. /\ 8 * n <= 7 - tx.delay + 8 * (11 - Len(tx.osr))
        /\ 7 - tx.delay + 8 * (11 - Len(tx.osr)) < 8 * n + 8
    BY Zenon DEF Age
  <2>2. PICK l \in 0 .. 11 : l = Len(tx.osr)
    <3>1. ASSUME NEW l \in Nat, l <= 11 PROVE l \in 0 .. 11
      BY <3>1
    <3> QED
      BY <1>1, <3>1, Zenon
  <2>3. PICK d \in 0 .. 7 : d = tx.delay
    BY <1>1
  <2>4. 8 * n <= 7 - d + 8 * (11 - l) /\ 7 - d + 8 * (11 - l) < 8 * n + 8
    BY <2>1, <2>2, <2>3
  <2>5. l = 11 - n
    BY <2>4
  <2> QED
    BY <2>2, <2>5
<1>3. 12 - Len(tx.osr) = n + 1
  BY <1>2
<1> QED
  BY <1>2, <1>3 DEF FrameOut

LEMMA RestedTick ==
  ASSUME Near, TxTyped, EarTyped, TxCycle, NabuListens, UNCHANGED <<bit, sure, must>>, Rested
  PROVE  Rested' \/ \E b \in Byte : Framing(b)'
<1>1. Level = 1
  BY DEF Rested, Level, Plus, Mark
<1>2. ear' = ear /\ heard' = heard
  BY <1>1 DEF Rested, Hunting, NabuListens, EarHunts, EarTimes, EarSamples, EarEnds, EarWaits
<1>3. /\ tx \in [osr : Seq(Pair), delay : 0 .. 7, pins : Pair]
      /\ tx.osr \in Seq(Pair) /\ tx.delay \in 0 .. 7 /\ Len(tx.osr) \in Nat
  BY LenProperties DEF TxTyped
<1>4. CASE tx.delay > 0
  <2>1. tx'.osr = tx.osr /\ tx'.pins = tx.pins /\ txfifo' = txfifo
    BY <1>3, <1>4 DEF TxCycle
  <2> QED
    BY <1>2, <2>1 DEF Rested
<1>5. CASE tx.delay = 0 /\ tx.osr # <<>>
  <2>1. /\ tx'.pins = tx.osr[1] /\ Len(tx'.osr) = Len(tx.osr) - 1 /\ txfifo' = txfifo
        /\ \A k \in 1 .. Len(tx'.osr) : tx'.osr[k] = tx.osr[k + 1]
    BY <1>5, FrameAges
  <2>2. Len(tx.osr) >= 1
    BY <1>3, <1>5, EmptySeq
  <2>3. tx'.pins = Mark /\ Len(tx'.osr) <= 2 /\ \A k \in 1 .. Len(tx'.osr) : tx'.osr[k] = Mark
    BY <1>3, <2>1, <2>2 DEF Rested
  <2> QED
    BY <1>2, <2>1, <2>3 DEF Rested
<1>6. CASE tx.delay = 0 /\ tx.osr = <<>> /\ txfifo = <<>>
  <2>1. tx' = tx /\ txfifo' = txfifo
    BY <1>6 DEF TxCycle
  <2> QED
    BY <1>2, <2>1 DEF Rested
<1>7. CASE tx.delay = 0 /\ tx.osr = <<>> /\ txfifo # <<>>
  <2>1. txfifo[1] \in Byte /\ txfifo \in Seq(Byte)
    BY <1>7 DEF TxTyped
  <2> PICK b \in Byte : b = txfifo[1]
    BY <2>1
  <2>2. TxFrame(b) \in Seq(Pair) /\ Len(TxFrame(b)) = 12
    BY <2>1, FrameTyped
  <2>3. TxFrame(b) # <<>>
    BY <2>2, EmptySeq
  <2>4. /\ tx' = [osr |-> Tail(TxFrame(b)), delay |-> 7, pins |-> TxFrame(b)[1]]
        /\ txfifo' = Tail(txfifo)
    BY <1>7, <2>3 DEF TxCycle, TxDelay
  <2>5. /\ Len(Tail(TxFrame(b))) = 11
        /\ \A k \in 1 .. Len(Tail(TxFrame(b))) : Tail(TxFrame(b))[k] = TxFrame(b)[k + 1]
    BY <2>2, <2>3, HeadTailProperties
  <2>6. must = (heard \o <<b>>) \o Tail(txfifo)
    <3>1. must = heard \o txfifo /\ heard \in Seq(Byte)
      BY DEF Rested, EarTyped
    <3> QED
      BY <1>7, <2>1, <3>1, ConcatTail, Zenon
  <2>7. Len(tx'.osr) = 11
    BY <2>4, <2>5
  <2>8. tx'.pins = TxFrame(b)[12 - Len(tx'.osr)]
    <3>1. 12 - Len(tx'.osr) = 1
      BY <2>7
    <3> QED
      BY <2>4, <3>1
  <2>9. \A k \in 1 .. Len(tx'.osr) : tx'.osr[k] = TxFrame(b)[12 - Len(tx'.osr) + k]
    <3>1. ASSUME NEW k \in 1 .. 11 PROVE tx'.osr[k] = TxFrame(b)[1 + k]
      BY <2>4, <2>5
    <3> QED
      BY <2>7, <3>1
  <2>10. ear' = Hunting /\ Age' = 0
    <3>1. Age' = 7 - 7 + 8 * (11 - Len(tx'.osr))
      BY <2>4 DEF Age
    <3> QED
      BY <1>2, <2>7, <3>1 DEF Rested
  <2>11. Framing(b)'
    <3>1. must' = (heard' \o <<b>>) \o txfifo'
      BY <1>2, <2>1, <2>4, <2>6
    <3>2. FrameOut(b)'
      BY <2>7, <2>8, <2>9 DEF FrameOut
    <3> QED
      BY <2>10, <3>1, <3>2 DEF Framing
  <2> QED
    BY <2>11
<1> QED
  BY <1>3, <1>4, <1>5, <1>6, <1>7

LEMMA FrameSeen ==
  ASSUME Near, TxTyped, EarTyped, TxCycle, NabuListens, UNCHANGED <<bit, sure, must>>,
         NEW b \in Byte, Framing(b), ear = Hunting, Age = 0
  PROVE  Framing(b)'
<1>1. 8 * 0 <= Age /\ Age < 8 * 0 + 8 /\ 0 \in 0 .. 9 /\ FrameOut(b)
  BY DEF Framing
<1>2. tx.pins = TxFrame(b)[0 + 1]
  BY <1>1, SymbolNow
<1>3. Level = 0
  BY <1>2, FrameIs DEF Near, Level, Plus, Space
<1>4. ear' = [at |-> "bits", time |-> 8, bits |-> <<>>] /\ heard' = heard
  BY <1>3 DEF Hunting, Cycle, NabuListens, EarHunts, EarTimes, EarSamples, EarEnds, EarWaits
<1>5. FrameOut(b)' /\ Age' = 1 /\ txfifo' = txfifo
  <2>1. Age <= 78
    OBVIOUS
  <2>2. FrameOut(b)' /\ Age' = Age + 1 /\ txfifo' = txfifo
    BY <1>1, <2>1, FrameKept
  <2> QED
    BY <2>2
<1>6. bit' \div 2 \in {31, 32, 33}
  BY HalfBit DEF EarTyped
<1>7. ear'.bits = <<>> /\ Len(ear'.bits) = 0 /\ ear'.time = 8 /\ ear'.at = "bits"
  BY <1>4
<1>8. Sampling(b)'
  <2>1. InTime(bit' \div 2, 0, 1)
    BY <1>6 DEF InTime
  <2>2. ear'.time = 8 * 1
    BY <1>7
  <2>3. \A k \in 1 .. 0 : ear'.bits[k] = Plus(TxFrame(b)[k])
    OBVIOUS
  <2> QED
    BY <1>5, <1>7, <2>1, <2>2, <2>3 DEF Sampling
<1> QED
  BY <1>4, <1>5, <1>8 DEF Framing

LEMMA FrameSampled ==
  ASSUME Near, TxTyped, EarTyped, TxCycle, NabuListens, UNCHANGED <<bit, sure, must>>,
         sure, NEW b \in Byte, Framing(b), Sampling(b)
  PROVE  Framing(b)' \/ Rested'
<1> DEFINE n == Len(ear.bits)
           h == bit \div 2
<1>1. /\ ear.bits \in Seq({0, 1}) /\ n \in 0 .. 9 /\ ear.at = "bits" /\ ear.time = 8 * Age
      /\ ear = [at |-> ear.at, time |-> ear.time, bits |-> ear.bits]
  <2>1. ear.bits \in Seq({0, 1}) /\ Len(ear.bits) <= 9
    BY DEF EarTyped
  <2>2. ear = [at |-> ear.at, time |-> ear.time, bits |-> ear.bits]
    BY DEF EarTyped
  <2>3. Len(ear.bits) \in 0 .. 9
    <3>1. Len(ear.bits) \in Nat
      BY <2>1, LenProperties, Zenon
    <3>2. ASSUME NEW l \in Nat, l <= 9 PROVE l \in 0 .. 9
      BY <3>2
    <3> QED
      BY <2>1, <3>1, <3>2, Zenon
  <2> QED
    BY <2>1, <2>2, <2>3 DEF Sampling
<1>2. h \in {31, 32, 33}
  BY HalfBit DEF EarTyped
<1>3. FrameOut(b) /\ tx.delay \in 0 .. 7 /\ Len(tx.osr) \in Nat /\ Len(tx.osr) <= 11
  BY LenProperties DEF Framing, TxTyped
<1>4. InTime(h, n, Age)
  BY DEF Sampling
<1>5. Age \in Nat
  BY <1>3 DEF Age
<1>6. \A k \in 1 .. n : ear.bits[k] = Plus(TxFrame(b)[k])
  BY DEF Sampling
<1> HIDE DEF n, h
<1>7. /\ Age <= 78
      /\ Now(h, n, Age) => 8 * n <= Age /\ Age < 8 * n + 8 /\ InTime(h, n + 1, Age + 1)
      /\ ~Now(h, n, Age) => InTime(h, n, Age + 1)
  BY <1>1, <1>2, <1>4, <1>5, MiddleOfBit
<1>8. FrameOut(b)' /\ Age' = Age + 1 /\ txfifo' = txfifo
  BY <1>3, <1>7, FrameKept
<1>9. Sampled <=> Now(h, n, Age)
  BY <1>1 DEF Sampled, Cycle, Now, n, h
<1>10. ASSUME Sampled PROVE Len(tx.osr) = 11 - n /\ tx.pins = TxFrame(b)[n + 1]
  BY <1>1, <1>3, <1>7, <1>9, <1>10, SymbolNow
<1>11. CASE EarTimes
  <2>1. /\ heard' = heard /\ ear'.at = "bits" /\ ear'.bits = ear.bits
        /\ ear'.time = ear.time + 8
    BY <1>1, <1>11 DEF EarTimes, Cycle
  <2>2. ear'.time = 8 * Age' /\ Age' >= 1
    BY <1>1, <1>5, <1>8, <2>1
  <2>3. InTime(h, n, Age')
    BY <1>7, <1>8, <1>9, <1>11 DEF EarTimes
  <2>5. Sampling(b)'
    BY <1>6, <2>1, <2>2, <2>3 DEF Sampling, n, h
  <2> QED
    BY <1>8, <2>1, <2>5 DEF Framing
<1>12. CASE EarSamples
  <2>1. /\ heard' = heard /\ ear'.at = "bits" /\ ear'.bits = Append(ear.bits, Level)
        /\ ear'.time = ear.time + 8 /\ Sampled /\ n < 9
    BY <1>1, <1>12 DEF EarSamples, Cycle, n
  <2>2. Level = Plus(TxFrame(b)[n + 1])
    BY <1>10, <2>1 DEF Level
  <2>3. Level \in {0, 1}
    <3>1. tx.pins \in {0, 1, 2, 3}
      BY DEF TxTyped, Pair
    <3> QED
      BY <3>1 DEF Level, Plus
  <2>4. /\ Len(ear'.bits) = n + 1 /\ ear'.bits[n + 1] = Level
        /\ \A k \in 1 .. n : ear'.bits[k] = ear.bits[k]
    BY <1>1, <2>1, <2>3, AppendProperties DEF n
  <2>5. \A k \in 1 .. n + 1 : ear'.bits[k] = Plus(TxFrame(b)[k])
    BY <1>1, <1>6, <2>2, <2>4, SMTT(30)
  <2>6. ear'.time = 8 * Age' /\ Age' >= 1
    <3>1. ear'.time = 8 * Age + 8 /\ Age' = Age + 1
      BY <1>1, <1>8, <2>1
    <3> QED
      BY <1>5, <3>1
  <2>7. InTime(h, n + 1, Age')
    BY <1>7, <1>8, <1>9, <2>1
  <2>8. Sampling(b)'
    BY <2>1, <2>4, <2>5, <2>6, <2>7 DEF Sampling, h
  <2> QED
    BY <1>8, <2>1, <2>8 DEF Framing
<1>13. CASE EarEnds
  <2>1. n = 9 /\ Sampled
    BY <1>13 DEF EarEnds, n
  <2>2. Len(tx.osr) = 2 /\ tx.pins = Mark
    <3>1. Len(tx.osr) = 11 - 9 /\ tx.pins = TxFrame(b)[9 + 1]
      BY <1>10, <2>1
    <3> QED
      BY <3>1, FrameIs DEF Near
  <2>3. Level = 1
    BY <2>2 DEF Level, Plus, Mark
  <2>4. ear' = Hunting /\ heard' = Append(heard, Number(Tail(ear.bits)))
    BY <1>13, <2>3 DEF EarEnds
  <2>5. Number(Tail(ear.bits)) = b
    <3>1. \A k \in 1 .. 8 : Tail(ear.bits)[k] = ear.bits[k + 1]
      BY <1>1, <2>1, DataBits DEF n
    <3>2. \A k \in 1 .. 8 : ear.bits[k + 1] = Plus(TxFrame(b)[k + 1])
      BY <1>6, <2>1
    <3>3. \A k \in 1 .. 8 : Plus(TxFrame(b)[k + 1]) = Bits(b)[k]
      BY FrameIs DEF Near
    <3>4. \A k \in 1 .. 8 : Tail(ear.bits)[k] = Bits(b)[k]
      BY <3>1, <3>2, <3>3
    <3> QED
      BY <3>4, NumberOfBits
  <2>6. must' = heard' \o txfifo'
    <3>1. heard \o <<b>> = Append(heard, b)
      BY ConcatOne DEF EarTyped
    <3> QED
      BY <1>8, <2>4, <2>5, <3>1 DEF Framing
  <2>7. tx.delay > 0
    BY <1>3, <1>7, <2>2 DEF Age
  <2>8. tx'.osr = tx.osr /\ tx'.pins = tx.pins
    <3>1. tx.osr # <<>>
      BY <2>2, EmptySeq
    <3> QED
      BY <2>7, <3>1, FrameAges
  <2>9. \A k \in 1 .. 2 : tx.osr[k] = Mark
    <3>1. \A k \in 1 .. 2 : tx.osr[k] = TxFrame(b)[10 + k]
      BY <1>3, <2>2 DEF FrameOut
    <3>2. \A k \in 10 .. 12 : TxFrame(b)[k] = Mark
      BY FrameIs DEF Near
    <3> QED
      BY <3>1, <3>2
  <2>10. Rested'
    <3>1. Len(tx'.osr) = 2 /\ tx'.pins = Mark /\ \A k \in 1 .. 2 : tx'.osr[k] = Mark
      BY <2>2, <2>8, <2>9
    <3>2. Len(tx'.osr) <= 2 /\ \A k \in 1 .. Len(tx'.osr) : tx'.osr[k] = Mark
      BY <3>1
    <3> QED
      BY <2>4, <2>6, <3>1, <3>2 DEF Rested
  <2> QED
    BY <2>10
<1> QED
  BY <1>1, <1>11, <1>12, <1>13 DEF NabuListens, EarHunts, EarWaits

LEMMA HearTick ==
  ASSUME Near, TxTyped, EarTyped, TxCycle, NabuListens, UNCHANGED <<bit, sure, must>>, HearInv
  PROVE  HearInv'
<1>1. CASE ~sure
  BY <1>1 DEF HearInv, NabuListens, EarHunts, EarTimes, EarSamples, EarEnds, EarWaits
<1>2. CASE sure
  <2>1. Rested \/ \E b \in Byte : Framing(b)
    BY <1>2 DEF HearInv
  <2>2. Rested' \/ \E b \in Byte : Framing(b)'
    <3>1. CASE Rested
      BY <3>1, RestedTick
    <3>2. ASSUME NEW b \in Byte, Framing(b) PROVE Rested' \/ Framing(b)'
      BY <1>2, <3>2, FrameSeen, FrameSampled DEF Framing
    <3> QED
      BY <2>1, <3>1, <3>2
  <2> QED
    BY <1>2, <2>2 DEF HearInv
<1> QED
  BY <1>1, <1>2

LEMMA HearSend ==
  ASSUME TxTyped, EarTyped, SendByte, HearInv
  PROVE  EarTyped' /\ HearInv'
<1> DEFINE byte == todo[1]
           idle == tx.osr = <<>> /\ txfifo = <<>> /\ ear = Hunting /\ tx.pins = Mark
<1>1. byte \in Byte
  BY DEF SendByte, TxTyped
<1>2. /\ txfifo' = Append(txfifo, byte) /\ sure' = (sure \/ idle)
      /\ must' = IF sure' THEN Append(must, byte) ELSE must
      /\ UNCHANGED <<bit, tx, ear, heard>>
  BY DEF SendByte, nabu_side
<1>3. idle \in BOOLEAN /\ txfifo \in Seq(Byte)
  BY DEF TxTyped
<1>4. EarTyped'
  BY <1>1, <1>2, <1>3 DEF EarTyped
<1> HIDE DEF byte, idle
<1>5. CASE ~sure /\ ~idle
  <2>1. sure' = FALSE /\ must = <<>> /\ heard = <<>>
    BY <1>2, <1>5, Zenon DEF HearInv
  <2>2. must' = <<>> /\ heard' = <<>>
    BY <1>2, <2>1, Zenon
  <2> QED
    BY <1>4, <2>1, <2>2, Zenon DEF HearInv
<1>6. CASE ~sure /\ idle
  <2>1. must = <<>> /\ heard = <<>> /\ txfifo = <<>>
    BY <1>6 DEF HearInv, idle
  <2>2. must' = heard' \o txfifo'
    <3>1. must' = Append(<<>>, byte) /\ txfifo' = Append(<<>>, byte) /\ heard' = <<>>
      BY <1>2, <1>6, <2>1
    <3>2. Append(<<>>, byte) \in Seq(Byte)
      BY <1>1
    <3> QED
      BY <3>1, <3>2, ConcatEmptySeq
  <2>3. Len(tx.osr) <= 2 /\ \A k \in 1 .. Len(tx.osr) : tx.osr[k] = Mark
    <3>1. tx.osr = <<>> /\ Len(<<>>) = 0
      BY <1>6 DEF idle
    <3> QED
      BY <3>1
  <2>4. Rested'
    BY <1>2, <1>6, <2>2, <2>3 DEF Rested, idle
  <2>5. sure'
    BY <1>2, <1>6, Zenon
  <2> QED
    BY <1>4, <2>4, <2>5, Zenon DEF HearInv
<1>7. CASE sure
  <2>1. sure' /\ must' = Append(must, byte)
    BY <1>2, <1>7
  <2>2. CASE Rested
    <3>1. heard \in Seq(Byte) /\ must = heard \o txfifo
      BY <2>2 DEF Rested, EarTyped
    <3>2. Append(heard \o txfifo, byte) = heard \o Append(txfifo, byte)
      BY <1>1, <1>3, <3>1, ConcatAppend, Zenon
    <3>3. must' = heard' \o txfifo'
      BY <1>2, <2>1, <3>1, <3>2, Zenon
    <3>4. Rested'
      BY <1>2, <2>2, <3>3, Zenon DEF Rested
    <3> QED
      BY <1>4, <2>1, <3>4, Zenon DEF HearInv
  <2>3. ASSUME NEW b \in Byte, Framing(b) PROVE Framing(b)'
    <3>1. heard \o <<b>> \in Seq(Byte)
      BY DEF EarTyped
    <3>2. must' = (heard \o <<b>>) \o Append(txfifo, byte)
      <4>1. must = (heard \o <<b>>) \o txfifo
        BY <2>3 DEF Framing
      <4>2. Append((heard \o <<b>>) \o txfifo, byte) = (heard \o <<b>>) \o Append(txfifo, byte)
        BY <1>1, <1>3, <3>1, ConcatAppend, Zenon
      <4> QED
        BY <2>1, <4>1, <4>2, Zenon
    <3>3. FrameOut(b)' /\ ((ear = Hunting /\ Age = 0) \/ Sampling(b))'
      BY <1>2, <2>3 DEF Framing, FrameOut, Sampling, Age
    <3> QED
      BY <1>2, <3>2, <3>3 DEF Framing
  <2>4. Rested \/ \E b \in Byte : Framing(b)
    BY <1>7, Zenon DEF HearInv
  <2>5. CASE \E b \in Byte : Framing(b)
    <3>1. PICK b \in Byte : Framing(b)
      BY <2>5
    <3>2. Framing(b)'
      BY <2>3, <3>1
    <3> QED
      BY <1>4, <2>1, <3>2, Zenon DEF HearInv
  <2> QED
    BY <2>2, <2>4, <2>5, Zenon
<1> QED
  BY <1>4, <1>5, <1>6, <1>7, <1>3, Zenon

LEMMA HearStep ==
  ASSUME Near, RxTyped, TxTyped, EarTyped, HearInv, [PioNext]_pio_vars
  PROVE  (EarTyped /\ HearInv)'
<1>1. CASE Tick
  BY <1>1, EarTypedTick, HearTick DEF Tick
<1>2. CASE SendByte
  BY <1>2, HearSend
<1>3. CASE ReadByte \/ UNCHANGED pio_vars
  <2>1. UNCHANGED <<bit, tx, txfifo, ear, sure, must, heard>>
    BY <1>3 DEF ReadByte, pio_vars, gateway_side, nabu_side
  <2> QED
    BY <2>1 DEF EarTyped, HearInv, Rested, Framing, FrameOut, Sampling, Age
<1> QED
  BY <1>1, <1>2, <1>3 DEF PioNext

LEMMA HearStart == PioStart => EarTyped /\ HearInv
<1> SUFFICES ASSUME PioStart PROVE EarTyped /\ HearInv
  OBVIOUS
<1>1. Hunting \in [at : {"hunt", "bits", "break"}, time : Nat, bits : Seq({0, 1})]
  BY DEF Hunting
<1>2. ear = Hunting /\ bit \in BitTimes /\ sure = FALSE /\ must = <<>> /\ heard = <<>>
  BY DEF PioStart
<1>3. ear.bits = <<>> /\ Len(ear.bits) <= 9
  BY <1>2 DEF Hunting
<1>4. <<>> \in Seq(Byte)
  OBVIOUS
<1>5. EarTyped
  BY <1>1, <1>2, <1>3, <1>4, Zenon DEF EarTyped
<1> QED
  BY <1>2, <1>5, Zenon DEF HearInv

\* Whatever the gateway sends, and with the NABU's clock 3 % slow or fast, the NABU
\* hears, once the line has been idle, each byte as it was put: the frame's symbols
\* last long enough and its three marks make up for the faster clock, frame after frame.
THEOREM HeardAsPut == Near /\ PioSpec => []HeardRight
<1> SUFFICES ASSUME Near PROVE PioSpec => []HeardRight
  BY DEF Near
<1>1. EarTyped /\ TxTyped /\ HearInv => HeardRight
  <2> SUFFICES ASSUME EarTyped, TxTyped, HearInv PROVE IsPrefix(heard, must)
    BY DEF HeardRight
  <2>1. heard \in Seq(Byte) /\ txfifo \in Seq(Byte)
    BY DEF EarTyped, TxTyped
  <2>2. CASE ~sure
    BY <2>2 DEF HearInv, IsPrefix
  <2>3. CASE Rested
    BY <2>1, <2>3, ConcatPrefix DEF Rested
  <2>4. ASSUME NEW b \in Byte, Framing(b) PROVE IsPrefix(heard, must)
    <3>1. must = heard \o (<<b>> \o txfifo)
      BY <2>1, <2>4, ConcatAssociative DEF Framing
    <3>2. <<b>> \o txfifo \in Seq(Byte)
      BY <2>1
    <3> QED
      BY <2>1, <3>1, <3>2, ConcatPrefix
  <2> QED
    BY <2>2, <2>3, <2>4 DEF HearInv
<1>2. EarTyped /\ HearInv /\ RxTyped /\ TxTyped /\ [PioNext]_pio_vars => (EarTyped /\ HearInv)'
  BY HearStep
<1> QED
  BY <1>1, <1>2, HearStart, PioInvariant, PTL DEF PioSpec

-----------------------------------------------------------------------------
\* The gateway gets what the NABU sends.

\* The word that the receiver has shifted the line's eight symbols into.
Received(word, line) == \A k \in 1 .. 8 : word[8 + k] = line[k + 1]

\* A frame of a byte that arrives, or of one that does not.
FrameOf(item) ==
  /\ Len(item.line) = 10 /\ item.line[1] = Space /\ item.line[10] = Mark
  /\ \A word : Received(word, item.line) =>
       \/ RxGet(word) < 256 /\ Len(item.bytes) = 1 /\ item.bytes[1] = RxGet(word)
       \/ ~(RxGet(word) < 256) /\ Len(item.bytes) = 0

LEMMA LastHalf ==
  ASSUME NEW word
  PROVE  \A k \in 1 .. 8 : SubSeq(word, 9, 16)[k] = word[8 + k]
<1> DEFINE S == {word[i] : i \in 9 .. 16}
<1>1. \A i \in 9 .. 16 : word[i] \in S
  OBVIOUS
<1> HIDE DEF S
<1>2. \A i \in 1 .. 16 - 9 + 1 : SubSeq(word, 9, 16)[i] = word[9 + i - 1]
  BY <1>1, SubSeqProperties
<1> QED
  BY <1>2

LEMMA PairsRead ==
  ASSUME Kind = "duart", NEW word, NEW b \in Byte,
         \A k \in 1 .. 8 : word[8 + k] \in {Mark, Space} /\ Plus(word[8 + k]) = Bits(b)[k]
  PROVE  RxGet(word) = b
<1> DEFINE pairs == SubSeq(word, 9, 16)
<1>1. \A k \in 1 .. 8 : pairs[k] = word[8 + k]
  BY LastHalf, Zenon
<1> HIDE DEF pairs
<1>2. \A k \in 1 .. 8 : pairs[k] \in {Mark, Space}
  BY <1>1
<1>3. \A k \in 1 .. 8 : Plus(pairs[k]) = Bits(b)[k]
  BY <1>1
<1>4. RxMap(pairs) = Number([k \in 1 .. 8 |-> Plus(pairs[k])])
  BY <1>2 DEF RxMap
<1>5. Number([k \in 1 .. 8 |-> Plus(pairs[k])]) = b
  <2> DEFINE bits == [k \in 1 .. 8 |-> Plus(pairs[k])]
  <2>1. \A k \in 1 .. 8 : bits[k] = Bits(b)[k]
    BY <1>3
  <2> HIDE DEF bits
  <2>2. Number(bits) = b
    BY <2>1, NumberOfBits
  <2> QED
    BY <2>2 DEF bits
<1>6. RxGet(word) = RxMap(pairs)
  BY DEF RxGet, pairs
<1> QED
  BY <1>4, <1>5, <1>6, Zenon

LEMMA NoiseRead ==
  ASSUME Kind = "duart", NEW word, NEW j \in 1 .. 8, word[8 + j] \notin {Mark, Space}
  PROVE  RxGet(word) = 61423
<1> DEFINE pairs == SubSeq(word, 9, 16)
<1>1. pairs[j] = word[8 + j]
  BY LastHalf, Zenon
<1>2. RxGet(word) = RxMap(pairs)
  BY DEF RxGet
<1> HIDE DEF pairs
<1>3. RxMap(pairs) = 61423
  BY <1>1 DEF RxMap
<1> QED
  BY <1>2, <1>3

LEMMA BytesAre == Bytes \subseteq Byte
  BY PioAssumption DEF Byte

LEMMA BreakIs ==
  /\ Len(Break.line) = 15 /\ Break.bytes = <<>>
  /\ \A k \in 1 .. 13 : Break.line[k] = Space
  /\ \A k \in 14 .. 15 : Break.line[k] = Mark
<1>1. Break.line = [k \in 1 .. 15 |-> IF k <= 13 THEN Space ELSE Mark] /\ Break.bytes = <<>>
  BY DEF Break
<1> QED
  BY <1>1

LEMMA NoBytes ==
  \A s : s = <<>> => s \in Seq(Byte) /\ Len(s) \in {0, 1}
OBVIOUS

\* What the NABU sends.
LEMMA ItemIs ==
  ASSUME Kind = "duart", NEW item \in Items
  PROVE  /\ item.bytes \in Seq(Byte) /\ Len(item.bytes) \in {0, 1}
         /\ item = Break \/ (item # Break /\ FrameOf(item))
<1>1. ASSUME NEW i, Len(i.line) = 10 PROVE i # Break
  <2>1. Len(Break.line) = 15
    BY BreakIs
  <2> QED
    BY <1>1, <2>1
<1>2. ASSUME NEW b \in Bytes, item = Plain(b)
      PROVE  FrameOf(item) /\ item.bytes \in Seq(Byte) /\ Len(item.bytes) = 1
  <2>1. b \in Byte /\ 10 \in 10 .. 12
    BY BytesAre
  <2>2. item.line = Frame(Bits(b), 10) /\ item.bytes = <<b>>
    BY <1>2 DEF Plain
  <2>3. /\ Len(item.line) = 10 /\ item.line[1] = Space /\ item.line[10] = Mark
        /\ \A k \in 1 .. 8 : /\ item.line[k + 1] \in {Mark, Space}
                             /\ Plus(item.line[k + 1]) = Bits(b)[k]
    BY <2>1, <2>2, FrameShape
  <2>4. ASSUME NEW word, Received(word, item.line) PROVE RxGet(word) = b
    <3>1. \A k \in 1 .. 8 : word[8 + k] = item.line[k + 1]
      BY <2>4 DEF Received
    <3>2. \A k \in 1 .. 8 : word[8 + k] \in {Mark, Space} /\ Plus(word[8 + k]) = Bits(b)[k]
      BY <2>3, <3>1
    <3> QED
      BY <2>1, <3>2, PairsRead
  <2>5. item.bytes \in Seq(Byte) /\ Len(item.bytes) = 1 /\ item.bytes[1] = b
    BY <2>1, <2>2
  <2>6. b < 256
    BY <2>1 DEF Byte
  <2>7. ASSUME NEW word, Received(word, item.line)
        PROVE  RxGet(word) < 256 /\ Len(item.bytes) = 1 /\ item.bytes[1] = RxGet(word)
    BY <2>4, <2>5, <2>6, <2>7
  <2> QED
    BY <2>3, <2>5, <2>7 DEF FrameOf
<1>3. ASSUME NEW b \in Bytes, NEW symbol \in {0, 3}, item = Hit(b, symbol)
      PROVE  FrameOf(item) /\ item.bytes = <<>>
  <2>1. b \in Byte /\ 10 \in 10 .. 12 /\ Noise \in 1 .. 8
    BY BytesAre, PioAssumption
  <2> DEFINE plain == Frame(Bits(b), 10)
  <2>2. item.line = [plain EXCEPT ![Noise + 1] = symbol] /\ item.bytes = <<>>
    BY <1>3 DEF Hit
  <2>3. plain \in [1 .. 10 -> Pair] /\ plain[1] = Space /\ plain[10] = Mark
    BY <2>1, FrameShape
  <2> HIDE DEF plain
  <2>4. item.line \in [1 .. 10 -> Pair] /\ item.line[Noise + 1] = symbol
    BY <2>1, <2>2, <2>3 DEF Pair
  <2>5. Len(item.line) = 10
    BY <2>4
  <2>6. item.line[1] = Space /\ item.line[10] = Mark
    BY <2>1, <2>2, <2>3
  <2>7. ASSUME NEW word, Received(word, item.line) PROVE RxGet(word) = 61423
    <3>1. word[8 + Noise] = symbol
      BY <2>1, <2>4, <2>7 DEF Received
    <3>2. word[8 + Noise] \notin {Mark, Space}
      BY <3>1 DEF Mark, Space
    <3> QED
      BY <2>1, <3>2, NoiseRead
  <2>8. item.bytes = <<>>
    BY <2>2
  <2>9. ASSUME NEW word, Received(word, item.line)
        PROVE  ~(RxGet(word) < 256) /\ Len(item.bytes) = 0
    BY <2>7, <2>8, <2>9
  <2>10. FrameOf(item)
    BY <2>5, <2>6, <2>9 DEF FrameOf
  <2> QED
    BY <2>8, <2>10
<1>4. item = Break => item.bytes = <<>>
  BY BreakIs
<1>5. FrameOf(item) => item # Break
  BY <1>1, Zenon DEF FrameOf
<1>6. ASSUME item.bytes = <<>>
      PROVE  item.bytes \in Seq(Byte) /\ Len(item.bytes) \in {0, 1}
  BY <1>6, NoBytes, Zenon
<1>7. CASE item = Break
  BY <1>4, <1>6, <1>7, Zenon
<1>8. CASE \E b \in Bytes : item = Plain(b)
  BY <1>2, <1>5, <1>8
<1>9. CASE \E b \in Bytes : \E symbol \in {0, 3} : item = Hit(b, symbol)
  BY <1>3, <1>5, <1>6, <1>9, Zenon
<1> QED
  BY <1>7, <1>8, <1>9 DEF Items

-----------------------------------------------------------------------------
\* Counting the bytes that the words in the FIFO hold.

\* c counts the bytes of these that the first k words hold.
Counts(c, words, bytes) ==
  \A k \in 1 .. Len(words) :
    IF RxGet(words[k]) < 256 THEN c[k] = c[k - 1] + 1 /\ bytes[c[k]] = RxGet(words[k])
    ELSE c[k] = c[k - 1]

\* After n bytes the words hold the rest, but for some at the end.
Counted(words, n, bytes, rest) ==
  \E c \in [0 .. Len(words) -> 0 .. Len(bytes)] :
    c[0] = n /\ c[Len(words)] + rest = Len(bytes) /\ Counts(c, words, bytes)

LEMMA CountedMore ==
  ASSUME NEW words, IsSeq(words), NEW n, NEW bytes \in Seq(Byte), Counted(words, n, bytes, 0),
         NEW more \in Seq(Byte)
  PROVE  Counted(words, n, bytes \o more, Len(more))
<1> DEFINE all == bytes \o more
           m == Len(words)
           l == Len(bytes)
           p == Len(more)
<1>1. m \in Nat /\ l \in Nat /\ p \in Nat
  BY LenProperties DEF IsSeq
<1>2. Len(all) = l + p /\ \A k \in 1 .. l : all[k] = bytes[k]
  BY ConcatProperties
<1> HIDE DEF all, m, l, p
<1>3. PICK c \in [0 .. m -> 0 .. l] : c[0] = n /\ c[m] + 0 = l /\ Counts(c, words, bytes)
  BY DEF Counted, m, l
<1>4. c \in [0 .. m -> 0 .. l + p] /\ c[m] + p = l + p
  <2>1. 0 .. l \subseteq 0 .. l + p
    BY <1>1
  <2>2. c \in [0 .. m -> 0 .. l + p]
    BY <1>3, <2>1
  <2>3. c[m] \in 0 .. l
    BY <1>1, <1>3
  <2>4. c[m] = l
    BY <1>1, <1>3, <2>3
  <2> QED
    BY <2>2, <2>4
<1>5. Counts(c, words, all)
  <2> SUFFICES ASSUME NEW k \in 1 .. m
               PROVE  IF RxGet(words[k]) < 256
                      THEN c[k] = c[k - 1] + 1 /\ all[c[k]] = RxGet(words[k])
                      ELSE c[k] = c[k - 1]
    BY DEF Counts, m
  <2>1. c[k] \in 0 .. l /\ c[k - 1] \in 0 .. l
    BY <1>1, <1>3
  <2>2. IF RxGet(words[k]) < 256
        THEN c[k] = c[k - 1] + 1 /\ bytes[c[k]] = RxGet(words[k]) ELSE c[k] = c[k - 1]
    BY <1>3 DEF Counts, m
  <2>3. CASE RxGet(words[k]) < 256
    <3>1. c[k] \in 1 .. l
      BY <1>1, <2>1, <2>2, <2>3
    <3> QED
      BY <1>2, <2>2, <2>3, <3>1
  <2> QED
    BY <2>2, <2>3
<1> QED
  BY <1>2, <1>3, <1>4, <1>5, Zenon DEF Counted, all, m, p

LEMMA CountedWord ==
  ASSUME NEW words, IsSeq(words), NEW n, NEW bytes \in Seq(Byte), NEW rest \in {0, 1},
         Counted(words, n, bytes, rest), NEW word,
         \/ RxGet(word) < 256 /\ rest = 1 /\ bytes[Len(bytes)] = RxGet(word)
         \/ ~(RxGet(word) < 256) /\ rest = 0
  PROVE  Counted(Append(words, word), n, bytes, 0)
<1> DEFINE m == Len(words)
           l == Len(bytes)
           more == Append(words, word)
<1>1. m \in Nat /\ l \in Nat
  BY LenProperties DEF IsSeq
<1>2. Len(more) = m + 1 /\ more[m + 1] = word /\ \A k \in 1 .. m : more[k] = words[k]
  <2>1. PICK S : words \in Seq(S)
    BY DEF IsSeq
  <2>2. words \in Seq(S \cup {word}) /\ word \in S \cup {word}
    BY <2>1, SeqMonotonic
  <2> QED
    BY <2>2, AppendProperties
<1> HIDE DEF m, l, more
<1>3. PICK c \in [0 .. m -> 0 .. l] : c[0] = n /\ c[m] + rest = l /\ Counts(c, words, bytes)
  BY DEF Counted, m, l
<1> DEFINE d == [k \in 0 .. m + 1 |-> IF k = m + 1 THEN l ELSE c[k]]
<1>4. d \in [0 .. m + 1 -> 0 .. l] /\ d[0] = n /\ d[m + 1] + 0 = l
  BY <1>1, <1>3
<1>5. ASSUME NEW k \in 1 .. m
      PROVE  IF RxGet(more[k]) < 256
             THEN d[k] = d[k - 1] + 1 /\ bytes[d[k]] = RxGet(more[k])
             ELSE d[k] = d[k - 1]
  <2>1. d[k] = c[k] /\ d[k - 1] = c[k - 1] /\ more[k] = words[k]
    BY <1>1, <1>2
  <2> HIDE DEF d
  <2>2. IF RxGet(words[k]) < 256
        THEN c[k] = c[k - 1] + 1 /\ bytes[c[k]] = RxGet(words[k]) ELSE c[k] = c[k - 1]
    BY <1>3 DEF Counts, m
  <2> QED
    BY <2>1, <2>2
<1>6. IF RxGet(word) < 256 THEN d[m + 1] = d[m] + 1 /\ bytes[d[m + 1]] = RxGet(word)
      ELSE d[m + 1] = d[m]
  <2>1. d[m + 1] = l /\ d[m] = c[m] /\ c[m] \in 0 .. l
    BY <1>1, <1>3
  <2> HIDE DEF d
  <2>2. bytes[l] = bytes[Len(bytes)]
    BY DEF l
  <2>3. CASE RxGet(word) < 256 /\ rest = 1 /\ bytes[Len(bytes)] = RxGet(word)
    <3>1. d[m + 1] = d[m] + 1
      BY <1>1, <1>3, <2>1, <2>3
    <3>2. bytes[d[m + 1]] = bytes[Len(bytes)]
      BY <2>1, <2>2
    <3> QED
      BY <2>3, <3>1, <3>2
  <2>4. CASE ~(RxGet(word) < 256) /\ rest = 0
    BY <1>1, <1>3, <2>1, <2>4
  <2> QED
    BY <2>3, <2>4
<1> HIDE DEF d
<1>7. ASSUME NEW k \in 1 .. m + 1
      PROVE  IF RxGet(more[k]) < 256
             THEN d[k] = d[k - 1] + 1 /\ bytes[d[k]] = RxGet(more[k])
             ELSE d[k] = d[k - 1]
  <2>1. CASE k = m + 1
    <3>1. more[k] = word /\ k - 1 = m
      BY <1>1, <1>2, <2>1
    <3> QED
      BY <1>6, <2>1, <3>1
  <2>2. CASE k \in 1 .. m
    BY <1>5, <2>2
  <2> QED
    BY <1>1, <2>1, <2>2
<1>8. Counts(d, more, bytes)
  BY <1>2, <1>7 DEF Counts
<1> QED
  BY <1>2, <1>4, <1>8 DEF Counted, l, more

LEMMA CountedRead ==
  ASSUME NEW words, IsSeq(words), words # <<>>, NEW n \in Nat, NEW bytes \in Seq(Byte),
         NEW rest \in {0, 1}, Counted(words, n, bytes, rest)
  PROVE  /\ n <= Len(bytes)
         /\ RxGet(words[1]) < 256 =>
              /\ n + 1 <= Len(bytes) /\ bytes[n + 1] = RxGet(words[1])
              /\ Counted(Tail(words), n + 1, bytes, rest)
         /\ ~(RxGet(words[1]) < 256) => Counted(Tail(words), n, bytes, rest)
<1> DEFINE m == Len(words)
           l == Len(bytes)
<1>1. m \in Nat /\ l \in Nat /\ m >= 1
  BY LenProperties, EmptySeq DEF IsSeq
<1>2. Len(Tail(words)) = m - 1 /\ \A k \in 1 .. m - 1 : Tail(words)[k] = words[k + 1]
  BY HeadTailProperties DEF IsSeq
<1> HIDE DEF m, l
<1>3. PICK c \in [0 .. m -> 0 .. l] : c[0] = n /\ c[m] + rest = l /\ Counts(c, words, bytes)
  BY DEF Counted, m, l
<1>4. /\ IF RxGet(words[1]) < 256 THEN c[1] = n + 1 /\ bytes[c[1]] = RxGet(words[1])
         ELSE c[1] = n
      /\ c[0] \in 0 .. l /\ c[1] \in 0 .. l
  BY <1>1, <1>3 DEF Counts, m
<1> DEFINE d == [k \in 0 .. m - 1 |-> c[k + 1]]
<1>5. d \in [0 .. m - 1 -> 0 .. l] /\ d[0] = c[1] /\ d[m - 1] + rest = l
  BY <1>1, <1>3
<1>6. Counts(d, Tail(words), bytes)
  <2> SUFFICES ASSUME NEW k \in 1 .. m - 1
               PROVE  IF RxGet(Tail(words)[k]) < 256
                      THEN d[k] = d[k - 1] + 1 /\ bytes[d[k]] = RxGet(Tail(words)[k])
                      ELSE d[k] = d[k - 1]
    BY <1>2 DEF Counts
  <2>1. d[k] = c[k + 1] /\ d[k - 1] = c[k] /\ Tail(words)[k] = words[k + 1]
    BY <1>1, <1>2
  <2> HIDE DEF d
  <2>2. IF RxGet(words[k + 1]) < 256
        THEN c[k + 1] = c[k] + 1 /\ bytes[c[k + 1]] = RxGet(words[k + 1])
        ELSE c[k + 1] = c[k]
    <3>1. k + 1 \in 1 .. m /\ (k + 1) - 1 = k
      BY <1>1
    <3> QED
      BY <1>3, <3>1 DEF Counts, m
  <2> QED
    BY <2>1, <2>2
<1> HIDE DEF d
<1>7. Counted(Tail(words), c[1], bytes, rest)
  BY <1>2, <1>5, <1>6 DEF Counted, l
<1> QED
  BY <1>1, <1>3, <1>4, <1>7 DEF l

-----------------------------------------------------------------------------
\* The NABU's transmitter: the clocks tolerated, and what a cycle does to its item.

\* With bits of 62 every byte starts half a cycle earlier, for the receiver, than the one
\* before: the third's last bit would be sampled too late.
Tolerated == Near /\ MaxItems <= RxDepth /\ (62 \in BitTimes => MaxItems <= 2)

\* The latest that an item's first edge can be seen, after it.
Late == IF bit = 62 THEN 7 + 4 * (MaxItems - Len(say)) ELSE 7

\* Cycles since the receiver saw the first edge, and bits it has shifted in since.
Elapsed ==
  CASE rx.at = "set" -> 1
    [] rx.at = "in" -> 12 + 8 * (7 - rx.x) - rx.delay
    [] rx.at = "loop" -> 13 + 8 * (7 - rx.x)
    [] OTHER -> 76 - rx.delay
Shifted ==
  CASE rx.at = "set" -> 0
    [] rx.at = "in" -> 7 - rx.x
    [] rx.at = "loop" -> 8 - rx.x
    [] OTHER -> 8

InFrame == rx.at \in {"set", "in", "loop", "stop"}
InBreak == rx.at \in {"irq", "wait", "jump"}

SayTyped ==
  /\ bit \in BitTimes /\ say \in Seq(Items) /\ Len(say) <= MaxItems /\ pos \in Nat
  /\ say # <<>> => pos < Len(say[1].line) * bit
  /\ due \in Seq(Byte)

Ends == say # <<>> /\ pos + 8 >= Len(say[1].line) * bit

LEMMA HeadIs ==
  ASSUME Tolerated, SayTyped, say # <<>>
  PROVE  /\ bit \in {62, 64, 66} /\ say[1] \in Items /\ Len(say) \in Nat /\ Len(say) >= 1
         /\ Late \in 7 .. 11 /\ (bit # 62 => Late = 7)
         /\ \/ say[1] = Break /\ pos < 15 * bit /\ (Ends <=> pos + 8 >= 15 * bit)
            \/ say[1] # Break /\ FrameOf(say[1]) /\ pos < 10 * bit /\ (Ends <=> pos + 8 >= 10 * bit)
<1>1. bit \in {62, 64, 66}
  BY HalfBit DEF Tolerated, SayTyped
<1>2. say[1] \in Items /\ Len(say) \in Nat /\ Len(say) >= 1
  <2>1. Len(say) \in Nat /\ Len(say) # 0
    BY LenProperties, EmptySeq DEF SayTyped
  <2>2. Len(say) >= 1 /\ 1 \in 1 .. Len(say)
    BY <2>1
  <2> QED
    BY <2>1, <2>2, ElementOfSeq DEF SayTyped
<1>3. Late \in 7 .. 11 /\ (bit # 62 => Late = 7)
  <2>1. CASE bit = 62
    <3>1. MaxItems \in Nat /\ MaxItems <= 2 /\ Len(say) <= MaxItems
      BY <2>1, PioAssumption DEF Tolerated, SayTyped
    <3> QED
      BY <1>2, <2>1, <3>1 DEF Late
  <2> QED
    BY <2>1 DEF Late
<1>4. /\ say[1] = Break \/ (say[1] # Break /\ FrameOf(say[1]))
      /\ Kind = "duart"
  BY <1>2, ItemIs DEF Tolerated, Near
<1>5. pos < Len(say[1].line) * bit /\ (Ends <=> pos + 8 >= Len(say[1].line) * bit)
  BY DEF SayTyped, Ends
<1>6. CASE say[1] = Break
  <2>1. Len(say[1].line) = 15
    BY <1>6, BreakIs
  <2> QED
    BY <1>1, <1>2, <1>3, <1>5, <1>6, <2>1
<1>7. CASE say[1] # Break /\ FrameOf(say[1])
  <2>1. Len(say[1].line) = 10
    BY <1>7, Zenon DEF FrameOf
  <2> QED
    BY <1>1, <1>2, <1>3, <1>5, <1>7, <2>1
<1> QED
  BY <1>4, <1>6, <1>7

\* Where a symbol is on the line.
LEMMA LineIs ==
  ASSUME say # <<>>, bit \in {62, 64, 66}, pos \in Nat,
         NEW k \in 0 .. 14, k * bit <= pos, pos < k * bit + bit
  PROVE  Line = say[1].line[k + 1]
<1>1. pos \div bit = k
  <2>1. CASE bit = 62
    BY <2>1
  <2>2. CASE bit = 64
    BY <2>2
  <2>3. CASE bit = 66
    BY <2>3
  <2> QED
    BY <2>1, <2>2, <2>3
<1> QED
  BY <1>1 DEF Line

\* What a cycle does to what the NABU sends.
Still == say = <<>> /\ say' = say /\ pos' = 0 /\ due' = due
Moves == say # <<>> /\ ~Ends /\ say' = say /\ pos' = pos + 8 /\ due' = due
Turns ==
  /\ say # <<>> /\ Ends /\ say' = Tail(say) /\ due' = due \o Begun(Tail(say))
  /\ pos' = pos + 8 - (IF say[1] = Break THEN 15 ELSE 10) * bit /\ pos' \in 0 .. 7

LEMMA BegunTyped ==
  ASSUME Kind = "duart", NEW items \in Seq(Items)
  PROVE  /\ Begun(items) \in Seq(Byte) /\ Len(Begun(items)) \in {0, 1}
         /\ items # <<>> => Begun(items) = items[1].bytes
<1>1. CASE items = <<>>
  BY <1>1, NoBytes DEF Begun
<1>2. CASE items # <<>>
  <2>1. items[1] \in Items
    BY <1>2
  <2> QED
    BY <1>2, <2>1, ItemIs, Zenon DEF Begun
<1> QED
  BY <1>1, <1>2

LEMMA SendsStep ==
  ASSUME Tolerated, SayTyped, NabuSends, UNCHANGED bit
  PROVE  /\ SayTyped'
         /\ Still \/ Moves \/ Turns
<1>1. CASE say = <<>>
  <2>1. Still
    BY <1>1 DEF NabuSends, Still
  <2> QED
    BY <2>1 DEF SayTyped, Still
<1>2. CASE say # <<>> /\ ~Ends
  <2>1. Moves
    BY <1>2 DEF NabuSends, Ends, Moves, Cycle
  <2>2. pos \in Nat /\ Len(say[1].line) \in {10, 15} /\ bit \in {62, 64, 66}
    <3>1. say[1] = Break \/ FrameOf(say[1])
      BY <1>2, HeadIs
    <3>2. Len(say[1].line) \in {10, 15}
      BY <3>1, BreakIs DEF FrameOf
    <3> QED
      BY <1>2, <3>2, HeadIs DEF SayTyped
  <2>3. ~(pos + 8 >= Len(say[1].line) * bit)
    BY <1>2, Zenon DEF Ends
  <2>4. pos + 8 < Len(say[1].line) * bit
    BY <2>2, <2>3
  <2> QED
    BY <2>1, <2>4 DEF SayTyped, Moves
<1>3. CASE say # <<>> /\ Ends
  <2>1. /\ say' = Tail(say) /\ due' = due \o Begun(Tail(say))
        /\ pos' = pos + 8 - Len(say[1].line) * bit
    BY <1>3 DEF NabuSends, Ends, Cycle
  <2>2. pos' = pos + 8 - (IF say[1] = Break THEN 15 ELSE 10) * bit /\ pos' \in 0 .. 7
    <3>1. pos \in Nat /\ bit \in {62, 64, 66}
      BY <1>3, HeadIs DEF SayTyped
    <3>2. CASE say[1] = Break
      <4>1. Len(say[1].line) = 15 /\ pos < 15 * bit /\ pos + 8 >= 15 * bit
        BY <1>3, <3>2, HeadIs, BreakIs
      <4>2. pos' = pos + 8 - 15 * bit
        BY <2>1, <4>1
      <4> QED
        BY <3>1, <3>2, <4>1, <4>2
    <3>3. CASE say[1] # Break
      <4>1. FrameOf(say[1]) /\ pos < 10 * bit /\ pos + 8 >= 10 * bit
        BY <1>3, <3>3, HeadIs
      <4>2. Len(say[1].line) = 10
        BY <4>1, Zenon DEF FrameOf
      <4>3. pos' = pos + 8 - 10 * bit
        BY <2>1, <4>2
      <4> QED
        BY <3>1, <3>3, <4>1, <4>3
    <3> QED
      BY <3>2, <3>3
  <2>3. Tail(say) \in Seq(Items) /\ Len(Tail(say)) <= MaxItems
    <3>1. say \in Seq(Items) /\ Len(say) <= MaxItems /\ Len(say) \in Nat
      BY LenProperties DEF SayTyped
    <3>2. Tail(say) \in Seq(Items) /\ Len(Tail(say)) = Len(say) - 1
      BY <1>3, <3>1, HeadTailProperties
    <3> QED
      BY <3>1, <3>2, PioAssumption
  <2>4. due' \in Seq(Byte)
    BY <2>1, <2>3, BegunTyped, ConcatProperties DEF SayTyped, Tolerated, Near
  <2>5. say' # <<>> => pos' < Len(say'[1].line) * bit'
    <3>1. ASSUME NEW item \in Items PROVE Len(item.line) = 10 \/ Len(item.line) = 15
      BY <3>1, ItemIs, BreakIs DEF FrameOf, Tolerated, Near
    <3>2. bit \in {62, 64, 66}
      BY <1>3, HeadIs
    <3>3. ASSUME say' # <<>> PROVE say'[1] \in Items
      BY <2>1, <2>3, <3>3
    <3>4. ASSUME NEW l, l = 10 \/ l = 15 PROVE pos' < l * bit
      BY <2>2, <3>2, <3>4
    <3> QED
      BY <3>1, <3>3, <3>4
  <2>6. Turns
    BY <1>3, <2>1, <2>2, Zenon DEF Turns
  <2>7. pos' \in Nat
    BY <2>2
  <2> QED
    BY <2>1, <2>3, <2>4, <2>5, <2>6, <2>7, Zenon DEF SayTyped
<1> QED
  BY <1>1, <1>2, <1>3

-----------------------------------------------------------------------------
\* Where the item at the line is while the receiver is at each of its instructions.

FrameDelays ==
  /\ rx.at \in {"set", "loop"} => rx.delay = 0
  /\ rx.at = "in" => rx.delay <= IF rx.x = 7 THEN 10 ELSE 6
  /\ rx.at = "stop" => rx.delay <= 6

FrameInv ==
  InFrame =>
    /\ FrameDelays /\ say # <<>> /\ 8 * Elapsed <= pos /\ pos <= 8 * Elapsed + Late
    /\ \A k \in 1 .. Shifted : rx.isr[16 - Shifted + k] = say[1].line[k + 1]

BreakInv ==
  InBreak =>
    /\ say # <<>> /\ say[1] = Break /\ rx.delay = 0 /\ 9 * bit <= pos
    /\ rx.at = "irq" => pos <= 12 * bit
    /\ rx.at = "wait" => pos < 13 * bit + 8
    /\ rx.at = "jump" => 13 * bit <= pos /\ pos < 13 * bit + 16

\* Where the item at the line is when the receiver looks for the next, or has a word.
StartInv ==
  rx.at = "start" =>
    /\ rx.delay = 0
    /\ \/ say = <<>> \/ pos <= Late
       \/ say[1] = Break /\ pos >= 13 * bit
       \/ say[1] # Break /\ pos >= 9 * bit
PushInv ==
  rx.at = "push" =>
    /\ rx.delay = 0
    /\ say = <<>> \/ pos + 8 <= Late \/ (say[1] # Break /\ pos >= 9 * bit)

PlaceInv == FrameInv /\ BreakInv /\ StartInv /\ PushInv

\* The receiving program in a frame: it samples the line, it samples the ninth bit, or
\* it lets time pass.
RxSamples ==
  /\ Shifted \in 0 .. 7 /\ Elapsed = 12 + 8 * Shifted
  /\ InFrame' /\ FrameDelays' /\ Elapsed' = Elapsed + 1 /\ Shifted' = Shifted + 1
  /\ rx'.isr = Append(Tail(rx.isr), Line)
RxDecides ==
  /\ Elapsed = 76 /\ Shifted = 8 /\ rx'.delay = 0 /\ rx'.isr = rx.isr
  /\ rx'.at = IF Plus(Line) = 1 THEN "push" ELSE "irq"
RxPasses ==
  /\ InFrame' /\ FrameDelays' /\ Elapsed' = Elapsed + 1 /\ Shifted' = Shifted
  /\ rx'.isr = rx.isr /\ Elapsed <= 75

LEMMA FrameRx ==
  ASSUME RxTyped, Kind = "duart", RxCycle, InFrame, FrameDelays
  PROVE  /\ rxfifo' = rxfifo /\ Shifted \in 0 .. 8 /\ Elapsed \in 1 .. 76
         /\ RxSamples \/ RxDecides \/ RxPasses
<1>1. rx = [at |-> rx.at, delay |-> rx.delay, x |-> rx.x, isr |-> rx.isr]
  BY DEF RxTyped
<1>2. rx.delay \in 0 .. 10 /\ rx.x \in 0 .. 7
  BY DEF RxTyped
<1>3. Shifted \in 0 .. 8 /\ Elapsed \in 1 .. 76
  <2>1. CASE rx.at = "set"
    BY <2>1 DEF Shifted, Elapsed
  <2>2. CASE rx.at = "in"
    BY <1>2, <2>2 DEF Shifted, Elapsed, FrameDelays
  <2>3. CASE rx.at = "loop"
    BY <1>2, <2>3 DEF Shifted, Elapsed
  <2>4. CASE rx.at = "stop"
    BY <1>2, <2>4 DEF Shifted, Elapsed, FrameDelays
  <2> QED
    BY <2>1, <2>2, <2>3, <2>4 DEF InFrame
<1>4. ASSUME RxDelay PROVE RxPasses /\ rxfifo' = rxfifo
  <2>1. /\ rx'.at = rx.at /\ rx'.delay = rx.delay - 1 /\ rx'.x = rx.x /\ rx'.isr = rx.isr
        /\ rxfifo' = rxfifo /\ rx.delay > 0
    BY <1>1, <1>4 DEF RxDelay
  <2>2. CASE rx.at = "in"
    <3>1. FrameDelays'
      BY <1>2, <2>1, <2>2 DEF FrameDelays
    <3> QED
      BY <1>2, <2>1, <2>2, <3>1 DEF RxPasses, InFrame, Elapsed, Shifted
  <2>3. CASE rx.at = "stop"
    <3>1. FrameDelays'
      BY <1>2, <2>1, <2>3 DEF FrameDelays
    <3> QED
      BY <1>2, <2>1, <2>3, <3>1 DEF RxPasses, InFrame, Elapsed, Shifted
  <2> QED
    BY <1>2, <2>1, <2>2, <2>3 DEF InFrame, FrameDelays
<1>5. ASSUME RxSet PROVE RxPasses /\ rxfifo' = rxfifo
  <2>1. /\ rx.at = "set" /\ rx.delay = 0
        /\ rx'.at = "in" /\ rx'.delay = 10 /\ rx'.x = 7 /\ rx'.isr = rx.isr /\ rxfifo' = rxfifo
    BY <1>1, <1>5 DEF RxSet
  <2> QED
    BY <1>2, <2>1 DEF RxPasses, InFrame, FrameDelays, Elapsed, Shifted
<1>6. ASSUME RxIn PROVE RxSamples /\ rxfifo' = rxfifo
  <2>1. /\ rx.at = "in" /\ rx.delay = 0
        /\ rx'.at = "loop" /\ rx'.delay = rx.delay /\ rx'.x = rx.x /\ rxfifo' = rxfifo
    BY <1>1, <1>6 DEF RxIn
  <2>2. rx'.isr = Append(Tail(rx.isr), Line)
    BY <1>1, <1>6 DEF RxIn, Pins
  <2>3. InFrame' /\ FrameDelays'
    BY <2>1 DEF InFrame, FrameDelays
  <2>4. /\ Shifted = 7 - rx.x /\ Elapsed = 12 + 8 * (7 - rx.x)
        /\ Shifted' = 8 - rx.x /\ Elapsed' = 13 + 8 * (7 - rx.x)
    BY <1>2, <2>1 DEF Shifted, Elapsed
  <2>5. /\ Shifted \in 0 .. 7 /\ Elapsed = 12 + 8 * Shifted
        /\ Elapsed' = Elapsed + 1 /\ Shifted' = Shifted + 1
    BY <1>2, <2>4
  <2> QED
    BY <2>1, <2>2, <2>3, <2>5, Zenon DEF RxSamples
<1>7. ASSUME RxLoop PROVE RxPasses /\ rxfifo' = rxfifo
  <2>1. /\ rx.at = "loop" /\ rx.delay = 0 /\ rx'.delay = 6 /\ rx'.isr = rx.isr /\ rxfifo' = rxfifo
        /\ rx'.at = IF rx.x # 0 THEN "in" ELSE "stop"
        /\ rx'.x = IF rx.x # 0 THEN rx.x - 1 ELSE 7
    BY <1>1, <1>7 DEF RxLoop
  <2>2. FrameDelays'
    BY <1>2, <2>1 DEF FrameDelays
  <2>3. CASE rx.x = 0
    BY <2>1, <2>2, <2>3 DEF RxPasses, InFrame, Elapsed, Shifted
  <2>4. CASE rx.x # 0
    BY <1>2, <2>1, <2>2, <2>4 DEF RxPasses, InFrame, Elapsed, Shifted
  <2> QED
    BY <2>3, <2>4
<1>8. ASSUME RxStop PROVE RxDecides /\ rxfifo' = rxfifo
  <2>1. /\ rx.at = "stop" /\ rx.delay = 0 /\ rx'.delay = 0 /\ rx'.isr = rx.isr /\ rxfifo' = rxfifo
        /\ rx'.at = IF Plus(Line) = 1 THEN "push" ELSE "irq"
    BY <1>1, <1>8 DEF RxStop, Goes
  <2> QED
    BY <1>2, <2>1 DEF RxDecides, Elapsed, Shifted
<1>9. ~RxStart /\ ~RxIrq /\ ~RxWait /\ ~RxJump /\ ~RxPush
  BY DEF RxStart, RxIrq, RxWait, RxJump, RxPush, Goes, InFrame
<1> QED
  BY <1>3, <1>4, <1>5, <1>6, <1>7, <1>8, <1>9 DEF RxCycle

LEMMA OtherRx ==
  ASSUME RxTyped, RxCycle, ~InFrame, rx.delay = 0
  PROVE  /\ rx.at = "start" => /\ rx'.at = IF Plus(Line) = 0 THEN "set" ELSE "start"
                               /\ rx'.delay = 0 /\ rxfifo' = rxfifo
         /\ rx.at = "irq" => rx'.at = "wait" /\ rx'.delay = 0 /\ rxfifo' = rxfifo
         /\ rx.at = "wait" => /\ rx'.at = IF Plus(Line) = 1 THEN "jump" ELSE "wait"
                              /\ rx'.delay = 0 /\ rxfifo' = rxfifo
         /\ rx.at = "jump" => rx'.at = "start" /\ rx'.delay = 0 /\ rxfifo' = rxfifo
         /\ rx.at = "push" /\ Len(rxfifo) < 8 =>
              rx'.at = "start" /\ rx'.delay = 0 /\ rxfifo' = Append(rxfifo, rx.isr)
<1>0. /\ rx = [at |-> rx.at, delay |-> rx.delay, x |-> rx.x, isr |-> rx.isr]
      /\ rx.delay = 0 /\ rx.at \in {"start", "irq", "wait", "jump", "push"}
  BY DEF RxTyped, RxPlaces, InFrame
<1>1. CASE RxStart
  BY <1>0, <1>1 DEF RxStart, Goes
<1>2. CASE RxIrq \/ RxWait \/ RxJump
  BY <1>0, <1>2 DEF RxIrq, RxWait, RxJump, Goes
<1>3. CASE RxPush
  BY <1>0, <1>3 DEF RxPush, RxDepth
<1>4. ~RxDelay /\ ~RxSet /\ ~RxIn /\ ~RxLoop /\ ~RxStop
  BY <1>0 DEF RxDelay, RxSet, RxIn, RxLoop, RxStop, Goes
<1> QED
  BY <1>1, <1>2, <1>3, <1>4 DEF RxCycle

\* The eight samples of a byte and the ninth, each within its bit.
LEMMA SampleTime ==
  ASSUME NEW b \in {62, 64, 66}, NEW late \in 7 .. 11, b # 62 => late = 7, NEW p \in Nat
  PROVE  /\ \A k \in 0 .. 7 : 96 + 64 * k <= p /\ p <= 96 + 64 * k + late =>
              (k + 1) * b <= p /\ p < (k + 1) * b + b
         /\ 608 <= p /\ p <= 608 + late => 9 * b <= p /\ p < 9 * b + b
<1>1. CASE b = 62
  BY <1>1
<1>2. CASE b = 64
  BY <1>2
<1>3. CASE b = 66
  BY <1>3
<1> QED
  BY <1>1, <1>2, <1>3

-----------------------------------------------------------------------------
\* What a cycle of both makes of the words received.

\* The words that were received, the one at the push included; whether the item at
\* the line is one of them.
Words == IF rx.at = "push" THEN Append(rxfifo, rx.isr) ELSE rxfifo
Taken == ~InFrame /\ ~InBreak /\ pos >= 9 * bit

\* What a cycle does to them: nothing; the next item begins; the item at the line is
\* a word; the break at the line is over.
Keeps == Words' = Words /\ (Still \/ (Moves /\ (Taken' <=> Taken)))
Passes == Words' = Words /\ Taken /\ Turns
Takes ==
  /\ say # <<>> /\ ~Taken /\ FrameOf(say[1]) /\ Received(rx.isr, say[1].line)
  /\ Words' = Append(Words, rx.isr)
  /\ Turns \/ (Moves /\ Taken')
Skips == Words' = Words /\ Moves /\ say[1] = Break /\ ~Taken /\ Taken'

LEMMA ShiftedIn ==
  ASSUME NEW s, IsSeq(s), Len(s) > 0, NEW e
  PROVE  /\ Append(Tail(s), e)[Len(s)] = e
         /\ \A k \in 1 .. Len(s) - 1 : Append(Tail(s), e)[k] = s[k + 1]
<1>1. PICK S : s \in Seq(S)
  BY DEF IsSeq
<1> DEFINE r == Tail(s)
           m == Len(s) - 1
<1>2. s # <<>> /\ m \in Nat /\ m + 1 = Len(s)
  BY <1>1, EmptySeq, LenProperties
<1>3. r \in Seq(S) /\ Len(r) = m /\ \A k \in 1 .. Len(r) : r[k] = s[k + 1]
  BY <1>1, <1>2, HeadTailProperties
<1> HIDE DEF r, m
<1>4. r \in Seq(S \cup {e}) /\ e \in S \cup {e}
  BY <1>3, SeqMonotonic
<1>5. Append(r, e)[Len(r) + 1] = e /\ \A k \in 1 .. Len(r) : Append(r, e)[k] = r[k]
  BY <1>4, AppendProperties
<1>6. Append(r, e)[m + 1] = e /\ \A k \in 1 .. m : Append(r, e)[k] = s[k + 1]
  BY <1>3, <1>5
<1> QED
  BY <1>2, <1>6, Zenon DEF r, m

LEMMA FrameStep ==
  ASSUME Tolerated, RxTyped, SayTyped, PlaceInv, RxCycle, NabuSends, UNCHANGED bit, InFrame
  PROVE  PlaceInv' /\ (Keeps \/ Takes)
<1>1. /\ say # <<>> /\ 8 * Elapsed <= pos /\ pos <= 8 * Elapsed + Late /\ FrameDelays
      /\ \A k \in 1 .. Shifted : rx.isr[16 - Shifted + k] = say[1].line[k + 1]
  BY DEF PlaceInv, FrameInv
<1>2. /\ rxfifo' = rxfifo /\ Shifted \in 0 .. 8 /\ Elapsed \in 1 .. 76
      /\ RxSamples \/ RxDecides \/ RxPasses
  BY <1>1, FrameRx DEF Tolerated, Near
<1>3. /\ bit \in {62, 64, 66} /\ Late \in 7 .. 11 /\ (bit # 62 => Late = 7) /\ pos \in Nat
      /\ \/ say[1] = Break /\ pos < 15 * bit /\ (Ends <=> pos + 8 >= 15 * bit)
         \/ say[1] # Break /\ FrameOf(say[1]) /\ pos < 10 * bit /\ (Ends <=> pos + 8 >= 10 * bit)
  BY <1>1, HeadIs DEF SayTyped
<1>4. Still \/ Moves \/ Turns
  BY SendsStep
<1>5. ~Taken /\ Words = rxfifo
  BY DEF Taken, Words, InFrame
<1>6. ASSUME Moves PROVE Late' = Late /\ say' = say /\ bit' = bit /\ pos' = pos + 8
  BY <1>6 DEF Moves, Late
<1>7. CASE RxSamples \/ RxPasses
  <2>1. InFrame' /\ FrameDelays' /\ Elapsed' = Elapsed + 1 /\ Elapsed <= 75
    BY <1>2, <1>7 DEF RxSamples, RxPasses
  <2>2. ~Ends
    <3>1. pos + 8 < 620
      BY <1>1, <1>2, <1>3, <2>1
    <3>2. 620 <= 10 * bit /\ 620 <= 15 * bit
      BY <1>3
    <3> QED
      BY <1>3, <3>1, <3>2
  <2>3. Moves
    BY <1>1, <1>4, <2>2 DEF Still, Turns
  <2>4. \A k \in 1 .. Shifted' : rx'.isr[16 - Shifted' + k] = say[1].line[k + 1]
    <3>1. CASE RxPasses
      BY <1>1, <3>1 DEF RxPasses
    <3>2. CASE RxSamples
      <4>1. Shifted \in 0 .. 7 /\ Elapsed = 12 + 8 * Shifted /\ Shifted' = Shifted + 1
        BY <3>2 DEF RxSamples
      <4> DEFINE j == Shifted
      <4>2. j \in 0 .. 7 /\ 96 + 64 * j <= pos /\ pos <= 96 + 64 * j + Late
        BY <1>1, <4>1
      <4> HIDE DEF j
      <4>3. (j + 1) * bit <= pos /\ pos < (j + 1) * bit + bit
        BY <1>3, <4>2, SampleTime
      <4>4. Line = say[1].line[j + 2]
        <5>1. j + 1 \in 0 .. 14 /\ (j + 1) + 1 = j + 2
          BY <4>2
        <5> QED
          BY <1>1, <1>3, <4>3, <5>1, LineIs
      <4>5. rx'.isr = Append(Tail(rx.isr), Line) /\ IsSeq(rx.isr)
        BY <3>2 DEF RxSamples, RxTyped
      <4>6. rx'.isr[16] = Line /\ \A k \in 1 .. 15 : rx'.isr[k] = rx.isr[k + 1]
        <5>1. Len(rx.isr) = 16
          BY DEF RxTyped, Width, Tolerated, Near
        <5>2. Len(rx.isr) > 0 /\ Len(rx.isr) - 1 = 15
          BY <5>1
        <5>3. ASSUME NEW s, s = Append(Tail(rx.isr), Line)
              PROVE  s[Len(rx.isr)] = Line /\ \A k \in 1 .. Len(rx.isr) - 1 : s[k] = rx.isr[k + 1]
          BY <4>5, <5>2, <5>3, ShiftedIn
        <5> QED
          BY <4>5, <5>1, <5>2, <5>3, Zenon
      <4>7. \A k \in 1 .. j : rx.isr[16 - j + k] = say[1].line[k + 1]
        BY <1>1 DEF j
      <4>8. ASSUME NEW k \in 1 .. j + 1
            PROVE  rx'.isr[16 - (j + 1) + k] = say[1].line[k + 1]
        <5>1. CASE k = j + 1
          <6>1. 16 - (j + 1) + k = 16 /\ k + 1 = j + 2
            BY <4>2, <5>1
          <6> QED
            BY <4>4, <4>6, <6>1
        <5>2. CASE k \in 1 .. j
          <6>1. 16 - (j + 1) + k \in 1 .. 15 /\ (16 - (j + 1) + k) + 1 = 16 - j + k
            BY <4>2, <5>2
          <6> QED
            BY <4>6, <4>7, <5>2, <6>1
        <5> QED
          BY <4>2, <5>1, <5>2
      <4> QED
        BY <4>1, <4>8 DEF j
    <3> QED
      BY <1>7, <3>1, <3>2
  <2>5. 8 * Elapsed' <= pos' /\ pos' <= 8 * Elapsed' + Late'
    BY <1>1, <1>2, <1>3, <1>6, <2>1, <2>3
  <2>6. FrameInv'
    BY <1>1, <1>6, <2>1, <2>3, <2>4, <2>5, Zenon DEF FrameInv
  <2>7. BreakInv' /\ StartInv' /\ PushInv'
    BY <2>1 DEF BreakInv, StartInv, PushInv, InFrame, InBreak
  <2>8. Words' = Words /\ ~Taken'
    BY <1>2, <1>5, <2>1 DEF Words, Taken, InFrame
  <2> QED
    BY <1>5, <2>3, <2>6, <2>7, <2>8, Zenon DEF PlaceInv, Keeps
<1>8. CASE RxDecides
  <2>1. /\ rx'.delay = 0 /\ rx'.isr = rx.isr
        /\ rx'.at = IF Plus(Line) = 1 THEN "push" ELSE "irq"
    BY <1>8 DEF RxDecides
  <2>2. 608 <= pos /\ pos <= 608 + Late /\ 9 * bit <= pos /\ pos < 9 * bit + bit
    <3>1. 608 <= pos /\ pos <= 608 + Late
      BY <1>1, <1>3, <1>8 DEF RxDecides
    <3> QED
      BY <1>3, <3>1, SampleTime
  <2>3. Line = say[1].line[10]
    BY <1>1, <1>3, <2>2, LineIs
  <2>4. CASE say[1] = Break
    <3>1. Plus(Line) = 0
      BY <2>3, <2>4, BreakIs DEF Plus, Space
    <3>2. rx'.at = "irq"
      BY <2>1, <3>1
    <3>3. Moves
      BY <1>1, <1>3, <1>4, <2>2, <2>4 DEF Still, Turns
    <3>4. FrameInv' /\ StartInv' /\ PushInv'
      BY <3>2 DEF FrameInv, StartInv, PushInv, InFrame
    <3>5. BreakInv'
      <4>1. 9 * bit <= pos + 8 /\ pos + 8 <= 12 * bit
        BY <1>3, <2>2
      <4>2. say' # <<>> /\ say'[1] = Break /\ 9 * bit' <= pos' /\ pos' <= 12 * bit'
        BY <1>1, <1>6, <2>4, <3>3, <4>1
      <4> QED
        BY <2>1, <3>2, <4>2 DEF BreakInv
    <3>6. Words' = Words /\ ~Taken'
      BY <1>2, <1>5, <3>2 DEF Words, Taken, InBreak
    <3> QED
      BY <1>5, <3>3, <3>4, <3>5, <3>6, Zenon DEF PlaceInv, Keeps
  <2>5. CASE say[1] # Break
    <3>1. FrameOf(say[1]) /\ pos < 10 * bit /\ (Ends <=> pos + 8 >= 10 * bit)
      BY <1>3, <2>5
    <3>2. Plus(Line) = 1
      BY <2>3, <3>1 DEF FrameOf, Plus, Mark
    <3>3. rx'.at = "push"
      BY <2>1, <3>2
    <3>4. FrameInv' /\ BreakInv' /\ StartInv'
      BY <3>3 DEF FrameInv, StartInv, BreakInv, InFrame, InBreak
    <3>5. Words' = Append(Words, rx.isr)
      BY <1>2, <1>5, <2>1, <3>3 DEF Words
    <3>6. Received(rx.isr, say[1].line)
      <4>1. Shifted = 8
        BY <1>8 DEF RxDecides
      <4>2. \A k \in 1 .. Shifted : rx.isr[16 - Shifted + k] = say[1].line[k + 1]
        BY <1>1
      <4>3. ASSUME NEW k \in 1 .. 8 PROVE rx.isr[8 + k] = say[1].line[k + 1]
        <5>1. 16 - Shifted + k = 8 + k
          BY <4>1
        <5> QED
          BY <4>1, <4>2, <5>1
      <4> QED
        BY <4>3 DEF Received
    <3>7. CASE Moves
      <4>1. pos + 8 >= 9 * bit
        BY <1>3, <2>2
      <4>2. say'[1] # Break /\ pos' >= 9 * bit'
        BY <1>6, <2>5, <3>7, <4>1
      <4>3. PushInv'
        BY <2>1, <4>2 DEF PushInv
      <4>4. Taken'
        BY <3>3, <4>2 DEF Taken, InFrame, InBreak
      <4> QED
        BY <1>1, <1>5, <3>1, <3>4, <3>5, <3>6, <3>7, <4>3, <4>4, Zenon DEF PlaceInv, Takes
    <3>8. CASE Turns
      <4>1. pos' = pos + 8 - 10 * bit /\ pos + 8 >= 10 * bit /\ say' = Tail(say)
        BY <2>5, <3>1, <3>8 DEF Turns
      <4>2. bit = 62 /\ pos' = pos - 612
        BY <1>3, <2>2, <4>1
      <4>3. Late' = Late + 4
        <5>1. Len(say') = Len(say) - 1 /\ Len(say) \in Nat
          BY <1>1, <4>1, HeadTailProperties, LenProperties DEF SayTyped
        <5> QED
          BY <4>2, <5>1, PioAssumption DEF Late
      <4>4. pos' + 8 <= Late'
        BY <1>3, <2>2, <4>2, <4>3
      <4>5. PushInv'
        BY <2>1, <4>4 DEF PushInv
      <4> QED
        BY <1>1, <1>5, <3>1, <3>4, <3>5, <3>6, <3>8, <4>5, Zenon DEF PlaceInv, Takes
    <3> QED
      BY <1>1, <1>4, <3>7, <3>8 DEF Still
  <2> QED
    BY <2>4, <2>5
<1> QED
  BY <1>2, <1>7, <1>8

LEMMA BreakStep ==
  ASSUME Tolerated, RxTyped, SayTyped, PlaceInv, RxCycle, NabuSends, UNCHANGED bit, InBreak
  PROVE  PlaceInv' /\ (Keeps \/ Skips)
<1>1. /\ say # <<>> /\ say[1] = Break /\ rx.delay = 0 /\ 9 * bit <= pos
      /\ rx.at = "irq" => pos <= 12 * bit
      /\ rx.at = "wait" => pos < 13 * bit + 8
      /\ rx.at = "jump" => 13 * bit <= pos /\ pos < 13 * bit + 16
  BY DEF PlaceInv, BreakInv
<1>2. /\ bit \in {62, 64, 66} /\ pos \in Nat /\ pos < 15 * bit
      /\ Ends <=> pos + 8 >= 15 * bit
  BY <1>1, HeadIs DEF SayTyped
<1>3. pos < 13 * bit + 16
  BY <1>1, <1>2 DEF InBreak
<1>4. Moves
  <2>1. ~Ends
    BY <1>2, <1>3
  <2> QED
    BY <1>1, <2>1, SendsStep DEF Still, Turns
<1>5. say' # <<>> /\ say'[1] = Break /\ bit' = bit /\ pos' = pos + 8
  BY <1>1, <1>4 DEF Moves
<1>6. ~InFrame /\ ~Taken /\ Words = rxfifo
  BY DEF InBreak, InFrame, Taken, Words
<1>7. ASSUME rx'.at \in {"irq", "wait", "jump"} PROVE FrameInv' /\ StartInv' /\ PushInv'
  BY <1>7 DEF FrameInv, StartInv, PushInv, InFrame
<1>8. ASSUME rx'.at \in {"irq", "wait", "jump"}, rxfifo' = rxfifo PROVE Keeps
  <2>1. Words' = rxfifo /\ ~Taken'
    BY <1>8 DEF Words, Taken, InBreak
  <2> QED
    BY <1>4, <1>6, <2>1, Zenon DEF Keeps
<1>9. CASE rx.at = "irq"
  <2>1. rx'.at = "wait" /\ rx'.delay = 0 /\ rxfifo' = rxfifo
    BY <1>1, <1>6, <1>9, OtherRx
  <2>2. 9 * bit' <= pos' /\ pos' < 13 * bit' + 8
    BY <1>1, <1>2, <1>5, <1>9
  <2>3. BreakInv'
    BY <1>5, <2>1, <2>2 DEF BreakInv
  <2> QED
    BY <1>7, <1>8, <2>1, <2>3 DEF PlaceInv
<1>10. CASE rx.at = "wait"
  <2>1. /\ rx'.at = IF Plus(Line) = 1 THEN "jump" ELSE "wait"
        /\ rx'.delay = 0 /\ rxfifo' = rxfifo
    BY <1>1, <1>6, <1>10, OtherRx
  <2>2. CASE pos >= 13 * bit
    <3>1. 13 * bit <= pos /\ pos < 13 * bit + bit /\ 13 \in 0 .. 14
      BY <1>2, <1>3, <2>2
    <3>2. Line = Break.line[14]
      BY <1>1, <1>2, <3>1, LineIs
    <3>3. Plus(Line) = 1
      BY <3>2, BreakIs DEF Plus, Mark
    <3>4. 9 * bit' <= pos' /\ 13 * bit' <= pos' /\ pos' < 13 * bit' + 16
      BY <1>1, <1>2, <1>5, <1>10, <2>2
    <3>5. BreakInv'
      BY <1>5, <2>1, <3>3, <3>4 DEF BreakInv
    <3> QED
      BY <1>7, <1>8, <2>1, <3>3, <3>5 DEF PlaceInv
  <2>3. CASE pos < 13 * bit
    <3>1. Plus(Line) = 0
      <4>1. ASSUME NEW k \in 9 .. 12, k * bit <= pos, pos < k * bit + bit
            PROVE  Plus(Line) = 0
        <5>1. Line = Break.line[k + 1]
          BY <1>1, <1>2, <4>1, LineIs
        <5> QED
          BY <5>1, BreakIs DEF Plus, Space
      <4>2. \/ 9 * bit <= pos /\ pos < 9 * bit + bit
            \/ 10 * bit <= pos /\ pos < 10 * bit + bit
            \/ 11 * bit <= pos /\ pos < 11 * bit + bit
            \/ 12 * bit <= pos /\ pos < 12 * bit + bit
        BY <1>1, <1>2, <2>3
      <4> QED
        BY <4>1, <4>2
    <3>2. 9 * bit' <= pos' /\ pos' < 13 * bit' + 8
      BY <1>1, <1>2, <1>5, <2>3
    <3>3. BreakInv'
      BY <1>5, <2>1, <3>1, <3>2 DEF BreakInv
    <3> QED
      BY <1>7, <1>8, <2>1, <3>1, <3>3 DEF PlaceInv
  <2> QED
    BY <1>2, <2>2, <2>3
<1>11. CASE rx.at = "jump"
  <2>1. rx'.at = "start" /\ rx'.delay = 0 /\ rxfifo' = rxfifo
    BY <1>1, <1>6, <1>11, OtherRx
  <2>2. pos' >= 13 * bit' /\ pos' >= 9 * bit'
    BY <1>1, <1>2, <1>5, <1>11
  <2>3. StartInv'
    BY <1>5, <2>1, <2>2 DEF StartInv
  <2>4. FrameInv' /\ BreakInv' /\ PushInv'
    BY <2>1 DEF FrameInv, BreakInv, PushInv, InFrame, InBreak
  <2>5. Words' = Words /\ Taken'
    BY <1>6, <2>1, <2>2 DEF Words, Taken, InFrame, InBreak
  <2> QED
    BY <1>1, <1>4, <1>6, <2>3, <2>4, <2>5, Zenon DEF PlaceInv, Skips
<1> QED
  BY <1>9, <1>10, <1>11 DEF InBreak

\* Once an item is over the next one's place is early in it.
LEMMA TurnsEarly ==
  ASSUME Tolerated, SayTyped', Turns, UNCHANGED bit
  PROVE  say' = <<>> \/ pos' <= Late'
<1> SUFFICES ASSUME say' # <<>> PROVE pos' <= Late'
  OBVIOUS
<1>1. pos' \in 0 .. 7
  BY DEF Turns
<1>2. Late' \in Nat /\ Late' >= 7
  <2>1. Len(say') \in Nat /\ Len(say') <= MaxItems
    BY LenProperties DEF SayTyped
  <2>2. MaxItems \in Nat /\ Late' = IF bit' = 62 THEN 7 + 4 * (MaxItems - Len(say')) ELSE 7
    BY PioAssumption DEF Late
  <2> QED
    BY <2>1, <2>2
<1> QED
  BY <1>1, <1>2

LEMMA StartStep ==
  ASSUME Tolerated, RxTyped, SayTyped, PlaceInv, RxCycle, NabuSends, UNCHANGED bit,
         rx.at = "start"
  PROVE  PlaceInv' /\ (Keeps \/ Passes)
<1>1. /\ rx.delay = 0
      /\ \/ say = <<>> \/ pos <= Late
         \/ say[1] = Break /\ pos >= 13 * bit
         \/ say[1] # Break /\ pos >= 9 * bit
  BY DEF PlaceInv, StartInv
<1>2. /\ rx'.at = IF Plus(Line) = 0 THEN "set" ELSE "start"
      /\ rx'.delay = 0 /\ rxfifo' = rxfifo
  BY <1>1, OtherRx DEF InFrame
<1>3. Words' = Words
  BY <1>2 DEF Words
<1>4. BreakInv' /\ PushInv'
  BY <1>2 DEF BreakInv, PushInv, InBreak
<1>5. /\ Still \/ Moves \/ Turns
      /\ SayTyped'
  BY SendsStep
<1>6. CASE say = <<>>
  <2>1. Plus(Line) = 1 /\ Still
    BY <1>5, <1>6 DEF Line, Plus, Mark, Moves, Turns
  <2>2. StartInv' /\ FrameInv'
    BY <1>2, <1>6, <2>1 DEF StartInv, FrameInv, InFrame, Still
  <2> QED
    BY <1>3, <1>4, <2>1, <2>2 DEF PlaceInv, Keeps
<1>7. CASE say # <<>>
  <2>1. /\ bit \in {62, 64, 66} /\ pos \in Nat /\ Late \in 7 .. 11
        /\ \/ say[1] = Break /\ pos < 15 * bit /\ (Ends <=> pos + 8 >= 15 * bit)
           \/ say[1] # Break /\ FrameOf(say[1]) /\ pos < 10 * bit /\ (Ends <=> pos + 8 >= 10 * bit)
    BY <1>7, HeadIs DEF SayTyped
  <2>2. CASE pos <= Late
    <3>1. 0 * bit <= pos /\ pos < 0 * bit + bit
      BY <2>1, <2>2
    <3>2. Line = say[1].line[1]
      BY <1>7, <2>1, <3>1, LineIs
    <3>3. say[1].line[1] = Space
      BY <2>1, BreakIs DEF FrameOf
    <3>4. rx'.at = "set"
      BY <1>2, <3>2, <3>3 DEF Plus, Space
    <3>5. Moves
      <4>1. ~Ends
        BY <2>1, <2>2
      <4> QED
        BY <1>5, <1>7, <4>1 DEF Still, Turns
    <3>6. say' # <<>> /\ 8 <= pos' /\ pos' <= 8 + Late'
      BY <1>7, <2>1, <2>2, <3>5 DEF Moves, Late
    <3>7. FrameInv'
      <4>1. FrameDelays' /\ Elapsed' = 1 /\ Shifted' = 0
        BY <1>2, <3>4 DEF FrameDelays, Elapsed, Shifted
      <4> QED
        BY <3>6, <4>1 DEF FrameInv
    <3>8. StartInv'
      BY <3>4 DEF StartInv
    <3>9. ~Taken /\ ~Taken'
      BY <2>1, <2>2, <3>4 DEF Taken, InFrame
    <3> QED
      BY <1>3, <1>4, <3>5, <3>7, <3>8, <3>9 DEF PlaceInv, Keeps
  <2>3. CASE ~(pos <= Late)
    <3>1. pos >= 9 * bit /\ (say[1] = Break => pos >= 13 * bit)
      BY <1>1, <1>7, <2>1, <2>3
    <3>2. Plus(Line) = 1
      <4>1. ASSUME NEW k \in {9, 13, 14}, k * bit <= pos, pos < k * bit + bit,
                   say[1].line[k + 1] = Mark
            PROVE  Plus(Line) = 1
        <5>1. Line = Mark
          BY <1>7, <2>1, <4>1, LineIs
        <5> QED
          BY <5>1 DEF Plus, Mark
      <4>2. CASE say[1] = Break
        <5>1. say[1].line[14] = Mark /\ say[1].line[15] = Mark
          BY <4>2, BreakIs
        <5>2. \/ 13 * bit <= pos /\ pos < 13 * bit + bit
              \/ 14 * bit <= pos /\ pos < 14 * bit + bit
          BY <2>1, <3>1, <4>2
        <5> QED
          BY <4>1, <5>1, <5>2
      <4>3. CASE say[1] # Break
        <5>1. say[1].line[10] = Mark
          BY <2>1, <4>3 DEF FrameOf
        <5>2. 9 * bit <= pos /\ pos < 9 * bit + bit
          BY <2>1, <3>1, <4>3
        <5> QED
          BY <4>1, <5>1, <5>2
      <4> QED
        BY <4>2, <4>3
    <3>3. rx'.at = "start" /\ rx'.delay = 0
      BY <1>2, <3>2
    <3>4. FrameInv'
      BY <3>3 DEF FrameInv, InFrame
    <3>5. Taken
      BY <3>1 DEF Taken, InFrame, InBreak
    <3>6. CASE Moves
      <4>1. pos' >= 9 * bit' /\ (say'[1] = Break => pos' >= 13 * bit')
        BY <2>1, <3>1, <3>6 DEF Moves
      <4>2. StartInv' /\ Taken'
        BY <3>3, <4>1 DEF StartInv, Taken, InFrame, InBreak
      <4> QED
        BY <1>3, <1>4, <3>4, <3>5, <3>6, <4>2 DEF PlaceInv, Keeps
    <3>7. CASE Turns
      <4>1. StartInv'
        BY <1>5, <3>3, <3>7, TurnsEarly DEF StartInv
      <4> QED
        BY <1>3, <1>4, <3>4, <3>5, <3>7, <4>1 DEF PlaceInv, Passes
    <3> QED
      BY <1>5, <1>7, <3>6, <3>7 DEF Still
  <2> QED
    BY <2>2, <2>3
<1> QED
  BY <1>6, <1>7

LEMMA PushStep ==
  ASSUME Tolerated, RxTyped, SayTyped, PlaceInv, RxCycle, NabuSends, UNCHANGED bit,
         rx.at = "push", Len(rxfifo) < 8
  PROVE  PlaceInv' /\ (Keeps \/ Passes)
<1>1. /\ rx.delay = 0
      /\ say = <<>> \/ pos + 8 <= Late \/ (say[1] # Break /\ pos >= 9 * bit)
  BY DEF PlaceInv, PushInv
<1>2. rx'.at = "start" /\ rx'.delay = 0 /\ rxfifo' = Append(rxfifo, rx.isr)
  BY <1>1, OtherRx DEF InFrame
<1>3. Words' = Words
  BY <1>2 DEF Words
<1>4. BreakInv' /\ PushInv' /\ FrameInv'
  BY <1>2 DEF BreakInv, PushInv, FrameInv, InBreak, InFrame
<1>5. /\ Still \/ Moves \/ Turns
      /\ SayTyped'
  BY SendsStep
<1>6. CASE say = <<>>
  <2>1. Still
    BY <1>5, <1>6 DEF Moves, Turns
  <2>2. StartInv'
    BY <1>2, <1>6, <2>1 DEF StartInv, Still
  <2> QED
    BY <1>3, <1>4, <2>1, <2>2 DEF PlaceInv, Keeps
<1>7. CASE say # <<>>
  <2>1. /\ bit \in {62, 64, 66} /\ pos \in Nat /\ Late \in 7 .. 11
        /\ \/ say[1] = Break /\ pos < 15 * bit /\ (Ends <=> pos + 8 >= 15 * bit)
           \/ say[1] # Break /\ FrameOf(say[1]) /\ pos < 10 * bit /\ (Ends <=> pos + 8 >= 10 * bit)
    BY <1>7, HeadIs DEF SayTyped
  <2>2. CASE pos + 8 <= Late
    <3>1. Moves
      <4>1. ~Ends
        BY <2>1, <2>2
      <4> QED
        BY <1>5, <1>7, <4>1 DEF Still, Turns
    <3>2. pos' <= Late' /\ pos' < 9 * bit'
      BY <2>1, <2>2, <3>1 DEF Moves, Late
    <3>3. StartInv'
      BY <1>2, <3>2 DEF StartInv
    <3>4. ~Taken /\ ~Taken'
      BY <2>1, <2>2, <3>2, SendsStep DEF Taken, SayTyped
    <3> QED
      BY <1>3, <1>4, <3>1, <3>3, <3>4 DEF PlaceInv, Keeps
  <2>3. CASE say[1] # Break /\ pos >= 9 * bit
    <3>1. Taken
      BY <2>3 DEF Taken, InFrame, InBreak
    <3>2. CASE Moves
      <4>1. pos' >= 9 * bit' /\ say'[1] # Break
        BY <2>1, <2>3, <3>2 DEF Moves
      <4>2. StartInv' /\ Taken'
        BY <1>2, <4>1 DEF StartInv, Taken, InFrame, InBreak
      <4> QED
        BY <1>3, <1>4, <3>1, <3>2, <4>2 DEF PlaceInv, Keeps
    <3>3. CASE Turns
      <4>1. StartInv'
        BY <1>2, <1>5, <3>3, TurnsEarly DEF StartInv
      <4> QED
        BY <1>3, <1>4, <3>1, <3>3, <4>1 DEF PlaceInv, Passes
    <3> QED
      BY <1>5, <1>7, <3>2, <3>3 DEF Still
  <2> QED
    BY <1>1, <1>7, <2>2, <2>3
<1> QED
  BY <1>6, <1>7

LEMMA PlaceStep ==
  ASSUME Tolerated, RxTyped, SayTyped, PlaceInv, RxCycle, NabuSends, UNCHANGED bit,
         rx.at = "push" => Len(rxfifo) < 8
  PROVE  PlaceInv' /\ (Keeps \/ Passes \/ Takes \/ Skips)
<1>1. InFrame \/ InBreak \/ rx.at = "start" \/ rx.at = "push"
  BY DEF RxTyped, RxPlaces, InFrame, InBreak
<1> QED
  BY <1>1, FrameStep, BreakStep, StartStep, PushStep

-----------------------------------------------------------------------------
\* The bytes that the gateway got and has still to get.

\* The bytes of the item at the line that are not yet in a word, and the items that are
\* not.
Pending == IF say = <<>> \/ Taken THEN 0 ELSE Len(say[1].bytes)
ToCome == IF say = <<>> THEN 0 ELSE IF Taken THEN Len(say) - 1 ELSE Len(say)

CountInv ==
  /\ got \in Seq(Byte) /\ \A k \in 1 .. Len(got) : got[k] = due[k]
  /\ Pending # 0 => due[Len(due)] = say[1].bytes[1]
  /\ Counted(Words, Len(got), due, Pending)

RoomInv == Len(Words) + ToCome <= MaxItems

LEMMA WordsTyped == RxTyped => IsSeq(Words) /\ Len(Words) \in Nat
<1> SUFFICES ASSUME RxTyped PROVE IsSeq(Words) /\ Len(Words) \in Nat
  OBVIOUS
<1>1. IsSeq(Words)
  BY AppendIsSeq DEF RxTyped, Words
<1> QED
  BY <1>1, LenProperties DEF IsSeq

LEMMA PendingIs ==
  ASSUME Tolerated, SayTyped
  PROVE  Pending \in {0, 1}
<1>1. CASE say = <<>> \/ Taken
  BY <1>1 DEF Pending
<1>2. CASE ~(say = <<>> \/ Taken)
  <2>1. say[1] \in Items /\ Kind = "duart"
    BY <1>2, HeadIs DEF Tolerated, Near
  <2>2. Len(say[1].bytes) \in {0, 1}
    BY <2>1, ItemIs
  <2>3. Pending = Len(say[1].bytes)
    BY <1>2, Zenon DEF Pending
  <2> QED
    BY <2>2, <2>3
<1> QED
  BY <1>1, <1>2

\* The next item begins.
LEMMA TurnCounted ==
  ASSUME Tolerated, SayTyped, Turns, UNCHANGED <<bit, got>>, IsSeq(Words'),
         Counted(Words', Len(got), due, 0), CountInv
  PROVE  CountInv'
<1> DEFINE more == Begun(Tail(say))
<1>1. Tail(say) \in Seq(Items) /\ say # <<>>
  BY DEF SayTyped, Turns
<1>2. /\ more \in Seq(Byte) /\ Len(more) \in {0, 1}
      /\ Tail(say) # <<>> => more = Tail(say)[1].bytes
  BY <1>1, BegunTyped DEF Tolerated, Near
<1>3. say' = Tail(say) /\ due' = due \o more /\ pos' \in 0 .. 7 /\ bit' = bit
  BY DEF Turns
<1> HIDE DEF more
<1>4. ~Taken'
  <2>1. bit \in {62, 64, 66}
    BY <1>1, HeadIs
  <2> QED
    BY <1>3, <2>1 DEF Taken
<1>5. Len(more) = Pending'
  <2>1. CASE say' = <<>>
    <3>1. more = <<>>
      BY <1>3, <2>1 DEF more, Begun
    <3>2. Len(more) = 0
      BY <3>1
    <3> QED
      BY <2>1, <3>2, Zenon DEF Pending
  <2>2. CASE say' # <<>>
    BY <1>2, <1>3, <1>4, <2>2, Zenon DEF Pending
  <2> QED
    BY <2>1, <2>2
<1>6. due \in Seq(Byte) /\ Len(due) \in Nat /\ got \in Seq(Byte)
  BY LenProperties DEF SayTyped, CountInv
<1>7. Counted(Words', Len(got), due \o more, Len(more))
  BY <1>2, <1>6, CountedMore
<1>8. Len(got) \in Nat /\ Len(got) <= Len(due)
  <2>1. PICK c \in [0 .. Len(Words') -> 0 .. Len(due)] : c[0] = Len(got)
    BY DEF Counted
  <2>2. Len(Words') \in Nat
    BY LenProperties DEF IsSeq
  <2>3. c[0] \in 0 .. Len(due)
    BY <2>1, <2>2
  <2> QED
    BY <1>6, <2>1, <2>3, LenProperties
<1>9. /\ Len(due \o more) = Len(due) + Len(more)
      /\ \A k \in 1 .. Len(due) : (due \o more)[k] = due[k]
      /\ \A k \in Len(due) + 1 .. Len(due) + Len(more) : (due \o more)[k] = more[k - Len(due)]
  BY <1>2, <1>6, ConcatProperties
<1>10. \A k \in 1 .. Len(got') : got'[k] = due'[k]
  <2>1. \A k \in 1 .. Len(got) : got[k] = due[k]
    BY DEF CountInv
  <2> QED
    BY <1>3, <1>6, <1>8, <1>9, <2>1
<1>11. ASSUME Pending' # 0 PROVE due'[Len(due')] = say'[1].bytes[1]
  <2>1. Len(more) = 1 /\ say' # <<>>
    BY <1>2, <1>5, <1>11 DEF Pending
  <2>2. (due \o more)[Len(due \o more)] = more[1]
    BY <1>6, <1>9, <2>1
  <2>3. more = say'[1].bytes
    BY <1>2, <1>3, <2>1
  <2> QED
    BY <1>3, <2>2, <2>3
<1> QED
  BY <1>3, <1>5, <1>6, <1>7, <1>10, <1>11, Zenon DEF CountInv

\* The item at the line stays, with as much of it to come, or none is.
LEMMA StayCounted ==
  ASSUME CountInv, UNCHANGED <<got, due, say>>, Counted(Words', Len(got), due, Pending'),
         Pending' = Pending \/ Pending' = 0
  PROVE  CountInv'
<1>1. got' = got /\ due' = due /\ say' = say
  OBVIOUS
<1>2. Pending' # 0 => due[Len(due)] = say[1].bytes[1]
  BY DEF CountInv
<1> QED
  BY <1>1, <1>2, Zenon DEF CountInv

LEMMA CountStep ==
  ASSUME Tolerated, RxTyped, RxTyped', SayTyped, UNCHANGED <<bit, got>>, CountInv,
         Keeps \/ Passes \/ Takes \/ Skips
  PROVE  CountInv'
<1>1. /\ IsSeq(Words) /\ IsSeq(Words') /\ due \in Seq(Byte)
      /\ Counted(Words, Len(got), due, Pending) /\ Pending \in {0, 1}
  <2>1. IsSeq(Words) /\ IsSeq(Words')
    BY WordsTyped, AppendIsSeq DEF RxTyped, Words
  <2>2. Pending \in {0, 1}
    BY PendingIs
  <2> QED
    BY <2>1, <2>2, Zenon DEF SayTyped, CountInv
<1>2. CASE Keeps
  <2>1. due' = due /\ say' = say /\ Words' = Words
    BY <1>2 DEF Keeps, Still, Moves
  <2>2. Pending' = Pending
    BY <1>2, <2>1 DEF Keeps, Still, Moves, Pending
  <2> QED
    BY <1>1, <2>1, <2>2, StayCounted
<1>3. CASE Passes
  <2>1. Pending = 0 /\ Words' = Words /\ Turns
    BY <1>3 DEF Passes, Pending
  <2> QED
    BY <1>1, <2>1, TurnCounted
<1>4. CASE Takes
  <2>1. /\ say # <<>> /\ ~Taken /\ FrameOf(say[1]) /\ Received(rx.isr, say[1].line)
        /\ Words' = Append(Words, rx.isr)
    BY <1>4 DEF Takes
  <2>2. Pending = Len(say[1].bytes)
    BY <2>1 DEF Pending
  <2>3. \/ RxGet(rx.isr) < 256 /\ Pending = 1 /\ due[Len(due)] = RxGet(rx.isr)
        \/ ~(RxGet(rx.isr) < 256) /\ Pending = 0
    <3>1. \/ RxGet(rx.isr) < 256 /\ Len(say[1].bytes) = 1 /\ say[1].bytes[1] = RxGet(rx.isr)
          \/ ~(RxGet(rx.isr) < 256) /\ Len(say[1].bytes) = 0
      BY <2>1 DEF FrameOf
    <3>2. Pending # 0 => due[Len(due)] = say[1].bytes[1]
      BY DEF CountInv
    <3> QED
      BY <2>2, <3>1, <3>2
  <2>4. Counted(Words', Len(got), due, 0)
    BY <1>1, <2>1, <2>3, CountedWord
  <2>5. CASE Turns
    BY <1>1, <2>4, <2>5, TurnCounted
  <2>6. CASE Moves /\ Taken'
    <3>1. Pending' = 0 /\ UNCHANGED <<due, say>>
      BY <2>6 DEF Pending, Moves
    <3> QED
      BY <2>4, <3>1, StayCounted
  <2> QED
    BY <1>4, <2>5, <2>6 DEF Takes
<1>5. CASE Skips
  <2>1. Words' = Words /\ due' = due /\ say' = say
    BY <1>5 DEF Skips, Moves
  <2>2. Pending = 0 /\ Pending' = 0
    <3>1. Break.bytes = <<>> /\ Len(<<>>) = 0
      BY BreakIs
    <3> QED
      BY <1>5, <3>1 DEF Skips, Pending
  <2> QED
    BY <1>1, <2>1, <2>2, StayCounted
<1> QED
  BY <1>2, <1>3, <1>4, <1>5

LEMMA RoomStep ==
  ASSUME Tolerated, RxTyped, RxTyped', SayTyped, UNCHANGED bit, RoomInv,
         Keeps \/ Passes \/ Takes \/ Skips
  PROVE  RoomInv'
<1>1. Len(Words) \in Nat /\ Len(Words') \in Nat /\ MaxItems \in Nat
  BY WordsTyped, PioAssumption
<1>2. Len(say) \in Nat /\ (say = <<>> \/ Len(say) >= 1)
  BY LenProperties, EmptySeq DEF SayTyped
<1>3. CASE Keeps
  <2>1. Words' = Words /\ ToCome' = ToCome
    BY <1>3 DEF Keeps, Still, Moves, ToCome
  <2> QED
    BY <2>1 DEF RoomInv
<1>4. ASSUME Turns PROVE ToCome' = Len(say) - 1
  <2>1. Len(say') = Len(say) - 1 /\ pos' \in 0 .. 7 /\ say # <<>>
    BY <1>4, HeadTailProperties DEF Turns, SayTyped
  <2>2. ~Taken'
    BY <2>1, HeadIs DEF Taken
  <2>3. say' = <<>> => Len(say') = 0
    BY EmptySeq
  <2> QED
    BY <2>1, <2>2, <2>3 DEF ToCome
<1>5. CASE Passes
  <2>1. Words' = Words /\ ToCome = Len(say) - 1
    BY <1>5 DEF Passes, ToCome, Turns
  <2> QED
    BY <1>4, <1>5, <2>1 DEF RoomInv, Passes
<1>6. CASE Takes
  <2>1. ToCome = Len(say)
    BY <1>6 DEF Takes, ToCome
  <2>2. ToCome' = Len(say) - 1
    BY <1>4, <1>6 DEF Takes, Moves, ToCome
  <2>3. Len(Words') = Len(Words) + 1
    BY <1>6, WordsTyped, AppendIsSeq DEF Takes
  <2> QED
    BY <1>1, <1>2, <2>1, <2>2, <2>3 DEF RoomInv
<1>7. CASE Skips
  <2>1. Words' = Words /\ ToCome = Len(say) /\ ToCome' = Len(say) - 1
    BY <1>7 DEF Skips, Moves, ToCome
  <2> QED
    BY <1>1, <1>2, <2>1 DEF RoomInv
<1> QED
  BY <1>3, <1>5, <1>6, <1>7

-----------------------------------------------------------------------------
\* Together.
GotInv == SayTyped /\ PlaceInv /\ CountInv /\ RoomInv

LEMMA SamePrefix ==
  ASSUME NEW s \in Seq(Byte), NEW t \in Seq(Byte), Len(s) <= Len(t),
         \A k \in 1 .. Len(s) : s[k] = t[k]
  PROVE  IsPrefix(s, t)
<1> DEFINE n == Len(s)
           u == SubSeq(t, 1, n)
<1>1. n \in Nat /\ Len(t) \in Nat /\ \A k \in 1 .. n : t[k] \in Byte
  BY LenProperties, ElementOfSeq
<1>2. u \in Seq(Byte) /\ Len(u) = (IF 1 <= n THEN n - 1 + 1 ELSE 0)
      /\ \A k \in 1 .. n - 1 + 1 : u[k] = t[1 + k - 1]
  BY <1>1, SubSeqProperties
<1>3. Len(u) = n /\ \A k \in 1 .. n : u[k] = s[k]
  BY <1>1, <1>2
<1>4. SubSeq(s, 1, n) = s
  BY SubSeqFull
<1> HIDE DEF u
<1>5. u = s
  BY <1>2, <1>3, SeqEqual
<1> QED
  BY <1>4, <1>5, Zenon DEF IsPrefix, u

LEMMA GotTick ==
  ASSUME Tolerated, RxTyped, RxTyped', GotInv, Tick
  PROVE  GotInv'
<1>1. /\ RxCycle /\ NabuSends /\ UNCHANGED <<bit, got>>
      /\ SayTyped /\ PlaceInv /\ CountInv /\ RoomInv
  BY DEF Tick, GotInv
<1>2. rx.at = "push" => Len(rxfifo) < 8
  <2> SUFFICES ASSUME rx.at = "push" PROVE Len(rxfifo) < 8
    OBVIOUS
  <2>1. Len(Words) = Len(rxfifo) + 1 /\ Len(rxfifo) \in Nat
    BY AppendIsSeq DEF Words, RxTyped
  <2>2. ToCome \in Nat
    <3>1. Len(say) \in Nat /\ (say = <<>> \/ Len(say) >= 1)
      BY <1>1, LenProperties, EmptySeq DEF SayTyped
    <3> QED
      BY <3>1 DEF ToCome
  <2>3. Len(Words) + ToCome <= MaxItems /\ MaxItems <= 8 /\ MaxItems \in Nat
    BY <1>1, PioAssumption DEF RoomInv, Tolerated, RxDepth
  <2> QED
    BY <2>1, <2>2, <2>3
<1>3. PlaceInv' /\ (Keeps \/ Passes \/ Takes \/ Skips)
  BY <1>1, <1>2, PlaceStep
<1>4. SayTyped'
  BY <1>1, SendsStep
<1> QED
  BY <1>1, <1>3, <1>4, CountStep, RoomStep DEF GotInv

LEMMA GotRead ==
  ASSUME Tolerated, RxTyped, GotInv, ReadByte
  PROVE  GotInv'
<1>1. /\ rxfifo # <<>> /\ rxfifo' = Tail(rxfifo)
      /\ got' = IF RxGet(rxfifo[1]) < 256 THEN Append(got, RxGet(rxfifo[1])) ELSE got
      /\ UNCHANGED <<bit, rx, say, pos, due>>
  BY DEF ReadByte, nabu_side
<1>2. SayTyped' /\ PlaceInv'
  BY <1>1 DEF GotInv, SayTyped, PlaceInv, FrameInv, BreakInv, StartInv, PushInv,
              InFrame, InBreak, FrameDelays, Elapsed, Shifted, Late
<1>3. /\ IsSeq(Words) /\ Len(Words) \in Nat /\ Words # <<>> /\ Words[1] = rxfifo[1]
      /\ Words' = Tail(Words)
  <2>1. IsSeq(rxfifo) /\ rx' = rx
    BY <1>1 DEF RxTyped
  <2>2. CASE rx.at = "push"
    <3>1. ASSUME NEW w
          PROVE  /\ Append(rxfifo, w) # <<>> /\ Append(rxfifo, w)[1] = rxfifo[1]
                 /\ Tail(Append(rxfifo, w)) = Append(Tail(rxfifo), w)
      <4>1. PICK S : rxfifo \in Seq(S)
        BY <2>1 DEF IsSeq
      <4>2. rxfifo \in Seq(S \cup {w})
        BY <4>1, SeqMonotonic
      <4> QED
        BY <1>1, <4>2
    <3>2. Words = Append(rxfifo, rx.isr) /\ Words' = Append(Tail(rxfifo), rx.isr)
      BY <1>1, <2>1, <2>2 DEF Words
    <3> QED
      BY <3>1, <3>2, WordsTyped, Zenon
  <2>3. CASE rx.at # "push"
    BY <1>1, <2>1, <2>3, WordsTyped DEF Words
  <2> QED
    BY <2>2, <2>3
<1>4. Pending' = Pending /\ ToCome' = ToCome
  BY <1>1 DEF Pending, ToCome, Taken, InFrame, InBreak
<1>5. /\ got \in Seq(Byte) /\ Len(got) \in Nat /\ due \in Seq(Byte) /\ Pending \in {0, 1}
      /\ Counted(Words, Len(got), due, Pending) /\ \A k \in 1 .. Len(got) : got[k] = due[k]
      /\ Pending # 0 => due[Len(due)] = say[1].bytes[1]
  BY PendingIs, LenProperties DEF GotInv, CountInv, SayTyped
<1>6. /\ RxGet(Words[1]) < 256 =>
           /\ Len(got) + 1 <= Len(due) /\ due[Len(got) + 1] = RxGet(Words[1])
           /\ Counted(Tail(Words), Len(got) + 1, due, Pending)
      /\ ~(RxGet(Words[1]) < 256) => Counted(Tail(Words), Len(got), due, Pending)
  BY <1>3, <1>5, CountedRead
<1>7. due' = due /\ (Pending' # 0 => due'[Len(due')] = say'[1].bytes[1])
  BY <1>1, <1>4, <1>5
<1>8. ASSUME RxGet(Words[1]) < 256 PROVE CountInv'
  <2> DEFINE v == RxGet(Words[1])
  <2>1. got' = Append(got, v) /\ due[Len(got) + 1] = v
    BY <1>1, <1>3, <1>6, <1>8
  <2>2. v \in Byte
    BY <1>5, <1>6, <1>8, <2>1, ElementOfSeq
  <2> HIDE DEF v
  <2>3. /\ got' \in Seq(Byte) /\ Len(got') = Len(got) + 1 /\ got'[Len(got) + 1] = v
        /\ \A k \in 1 .. Len(got) : got'[k] = got[k]
    BY <1>5, <2>1, <2>2, AppendProperties
  <2>4. \A k \in 1 .. Len(got') : got'[k] = due'[k]
    BY <1>5, <1>7, <2>1, <2>3
  <2>5. Counted(Words', Len(got'), due', Pending')
    BY <1>3, <1>4, <1>6, <1>8, <1>7, <2>3
  <2> QED
    BY <1>7, <2>3, <2>4, <2>5, Zenon DEF CountInv
<1>9. ASSUME ~(RxGet(Words[1]) < 256) PROVE CountInv'
  <2>1. got' = got /\ Counted(Words', Len(got), due, Pending')
    BY <1>1, <1>3, <1>4, <1>6, <1>9
  <2> QED
    BY <1>5, <1>7, <2>1, Zenon DEF CountInv
<1>10. CountInv'
  BY <1>8, <1>9
<1>11. RoomInv'
  <2>1. Len(Words') = Len(Words) - 1 /\ ToCome \in Nat /\ MaxItems \in Nat
    <3>1. Len(say) \in Nat /\ (say = <<>> \/ Len(say) >= 1)
      BY LenProperties, EmptySeq DEF GotInv, SayTyped
    <3> QED
      BY <1>3, <3>1, TailIsSeq, PioAssumption DEF ToCome
  <2> QED
    BY <1>3, <1>4, <2>1 DEF GotInv, RoomInv
<1> QED
  BY <1>2, <1>10, <1>11 DEF GotInv

LEMMA GotStart == Tolerated /\ PioStart => GotInv
<1> SUFFICES ASSUME Tolerated, PioStart PROVE GotInv
  OBVIOUS
<1>1. /\ bit \in BitTimes /\ rx.at = "start" /\ rx.delay = 0 /\ rxfifo = <<>>
      /\ due = Begun(say) /\ got = <<>> /\ pos \in 0 .. 7
      /\ say \in [1 .. MaxItems -> Items] \/ say = <<>>
  BY DEF PioStart, Cycle
<1>2. MaxItems \in Nat /\ Kind = "duart" /\ bit \in {62, 64, 66}
  BY <1>1, PioAssumption, HalfBit DEF Tolerated, Near
<1>3. say \in Seq(Items) /\ Len(say) \in Nat /\ (say # <<>> => Len(say) = MaxItems)
      /\ Len(say) <= MaxItems
  <2>1. CASE say = <<>>
    <3>1. <<>> \in Seq(Items) /\ Len(<<>>) = 0
      OBVIOUS
    <3> QED
      BY <1>2, <2>1, <3>1
  <2>2. CASE say \in [1 .. MaxItems -> Items]
    <3>1. say \in Seq(Items) /\ Len(say) = MaxItems
      BY <1>2, <2>2
    <3> QED
      BY <1>2, <3>1
  <2> QED
    BY <1>1, <2>1, <2>2
<1>4. due \in Seq(Byte) /\ Len(due) \in {0, 1} /\ (say # <<>> => due = say[1].bytes)
  BY <1>1, <1>2, <1>3, BegunTyped
<1>5. say # <<>> => pos < Len(say[1].line) * bit
  <2>1. ASSUME say # <<>> PROVE Len(say[1].line) = 10 \/ Len(say[1].line) = 15
    BY <1>2, <1>3, <2>1, ItemIs, BreakIs DEF FrameOf
  <2>2. ASSUME NEW l, l = 10 \/ l = 15 PROVE pos < l * bit
    BY <1>1, <1>2, <2>2
  <2> QED
    BY <2>1, <2>2
<1>6. SayTyped
  BY <1>1, <1>3, <1>4, <1>5 DEF SayTyped
<1>7. say # <<>> => pos <= Late
  BY <1>1, <1>2, <1>3 DEF Late
<1>8. PlaceInv
  BY <1>1, <1>7 DEF PlaceInv, FrameInv, BreakInv, StartInv, PushInv, InFrame, InBreak
<1>9. ~Taken /\ Words = <<>>
  BY <1>1, <1>2 DEF Taken, Words
<1>10. Pending = Len(due)
  <2>1. CASE say = <<>>
    <3>1. due = <<>>
      BY <1>1, <2>1 DEF Begun
    <3>2. Len(due) = 0
      BY <3>1
    <3> QED
      BY <2>1, <3>2, Zenon DEF Pending
  <2>2. CASE say # <<>>
    BY <1>4, <1>9, <2>2, Zenon DEF Pending
  <2> QED
    BY <2>1, <2>2
<1>11. Len(Words) = 0 /\ Len(got) = 0 /\ got \in Seq(Byte)
  BY <1>1, <1>9
<1>12. Counted(Words, Len(got), due, Pending)
  <2> DEFINE c == [k \in 0 .. 0 |-> 0]
  <2>1. c \in [0 .. 0 -> 0 .. Len(due)] /\ c[0] = 0 /\ 0 + Len(due) = Len(due)
    BY <1>4
  <2> HIDE DEF c
  <2>2. Counts(c, Words, due)
    BY <1>11 DEF Counts
  <2> QED
    BY <1>10, <1>11, <2>1, <2>2 DEF Counted
<1>13. Pending # 0 => due[Len(due)] = say[1].bytes[1]
  <2>1. ASSUME Pending # 0 PROVE say # <<>> /\ Len(due) = 1
    BY <1>4, <1>10, <2>1 DEF Pending
  <2> QED
    BY <1>4, <2>1
<1>14. CountInv
  BY <1>11, <1>12, <1>13 DEF CountInv
<1>15. RoomInv
  <2>1. ToCome <= Len(say)
    BY <1>3, <1>9 DEF ToCome
  <2>2. ToCome \in Nat
    BY <1>3, <1>9 DEF ToCome
  <2> QED
    BY <1>2, <1>3, <1>11, <2>1, <2>2 DEF RoomInv
<1> QED
  BY <1>6, <1>8, <1>14, <1>15 DEF GotInv

\* Whatever the NABU sends, bytes, noise and breaks back to back, with its clock 3 % slow or fast,
\* what the gateway gets is what it sent, in its order.
THEOREM GotAsSent == Tolerated /\ PioSpec => []GotRight
<1> SUFFICES ASSUME Tolerated PROVE PioSpec => []GotRight
  BY DEF Tolerated, Near
<1>1. GotInv /\ RxTyped => GotRight
  <2> SUFFICES ASSUME GotInv, RxTyped PROVE IsPrefix(got, due)
    BY DEF GotRight
  <2>1. /\ got \in Seq(Byte) /\ due \in Seq(Byte) /\ \A k \in 1 .. Len(got) : got[k] = due[k]
        /\ Counted(Words, Len(got), due, Pending)
    BY DEF GotInv, CountInv, SayTyped
  <2>2. Len(got) <= Len(due)
    <3>1. PICK c \in [0 .. Len(Words) -> 0 .. Len(due)] : c[0] = Len(got)
      BY <2>1 DEF Counted
    <3>2. Len(Words) \in Nat /\ Len(due) \in Nat
      BY <2>1, WordsTyped, LenProperties
    <3>3. c[0] \in 0 .. Len(due)
      BY <3>1, <3>2
    <3> QED
      BY <3>1, <3>2, <3>3
  <2> QED
    BY <2>1, <2>2, SamePrefix
<1>2. GotInv /\ RxTyped /\ RxTyped' /\ [PioNext]_pio_vars => GotInv'
  <2>1. CASE SendByte \/ UNCHANGED pio_vars
    <3>1. UNCHANGED <<bit, rx, rxfifo, say, pos, due, got>>
      BY <2>1 DEF SendByte, nabu_side, gateway_side, pio_vars
    <3>2. UNCHANGED <<SayTyped, PlaceInv>>
      BY <3>1 DEF SayTyped, PlaceInv, FrameInv, BreakInv, StartInv, PushInv,
                  InFrame, InBreak, FrameDelays, Elapsed, Shifted, Late
    <3>3. UNCHANGED <<CountInv, RoomInv>>
      BY <3>1 DEF CountInv, RoomInv, Words, Pending, ToCome, Taken, InFrame, InBreak
    <3> QED
      BY <3>2, <3>3 DEF GotInv
  <2> QED
    BY <2>1, GotTick, GotRead DEF PioNext
<1> QED
  BY <1>1, <1>2, GotStart, PioInvariant, PTL DEF PioSpec
=============================================================================
