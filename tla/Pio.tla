-------------------------------- MODULE Pio --------------------------------
(***************************************************************************)
(* The UARTs made of PIO programs (src/duart_rx.pio, src/duart_tx.pio,     *)
(* src/suart_rx.pio, src/suart_tx.pio), cycle by cycle, and the functions  *)
(* that get and put bytes.  At the other end is the NABU's UART, which is  *)
(* not part of the repository; its clock runs at its own speed.            *)
(*                                                                         *)
(* A symbol is what the two pins of a pair show, 2 * TX- + TX+: 1 is mark, *)
(* 2 is space, and 0 and 3 are neither.  The single-ended programs see     *)
(* only its low bit.                                                       *)
(***************************************************************************)
EXTENDS Integers, Sequences, SequencesExt

CONSTANTS
  Kind,        \* "duart" (UART type 2) or "suart" (type 3)
  Bytes,       \* bytes sent either way
  MaxItems,    \* bound: how many things the NABU sends
  Answers,     \* what the gateway sends
  BitTimes,    \* lengths of the NABU's bits; the PIO's are of 8 * Cycle
  Noise        \* the bit of a byte that noise hits

Cycle == 8           \* one PIO cycle, in the unit of BitTimes
RxDepth == 8         \* entries of a joined FIFO

ASSUME PioAssumption ==
  /\ Kind \in {"duart", "suart"} /\ Bytes \subseteq 0 .. 255 /\ MaxItems \in Nat
  /\ Answers \subseteq Seq(0 .. 255) /\ Noise \in 1 .. 8
  /\ \A t \in BitTimes : t \in Nat /\ t % 2 = 0

VARIABLES
  bit,               \* the length of the NABU's bits
  say, pos,          \* what the NABU is sending, and how far it is into the first
  rx, rxfifo,        \* the receiving state machine
  tx, txfifo,        \* the transmitting one, with its pins
  todo,              \* what the gateway has still to send
  ear,               \* the NABU's receiver
  due, got,          \* history: the bytes the NABU has begun to send; those the gateway got
  sure, must, heard  \* history: the line was idle when the gateway put a byte;
                     \* what it put since; what the NABU heard since

gateway_side == <<rx, rxfifo, tx, txfifo>>
nabu_side == <<say, pos, ear>>
pio_vars == <<bit, gateway_side, nabu_side, todo, due, got, sure, must, heard>>

Mark == 1
Space == 2
Plus(symbol) == symbol % 2
Weight == <<1, 2, 4, 8, 16, 32, 64, 128>>
Bits(b) == [k \in 1 .. 8 |-> (b \div Weight[k]) % 2]
Number(bits) ==
  bits[1] + 2 * bits[2] + 4 * bits[3] + 8 * bits[4]
    + 16 * bits[5] + 32 * bits[6] + 64 * bits[7] + 128 * bits[8]

\* A start bit, eight bits, and mark.
Frame(bits, length) ==
  [k \in 1 .. length |->
     IF k = 1 \/ (k <= 9 /\ bits[k - 1] = 0) THEN Space ELSE Mark]

-----------------------------------------------------------------------------
\* What the NABU sends: a byte; one that noise hit; a break.  Its receiver
\* looks for a start bit, takes the middle of ten bits, and after a frame that
\* does not end in mark it waits for one.
Plain(b) == [line |-> Frame(Bits(b), 10), bytes |-> <<b>>]
Hit(b, symbol) ==
  [line |-> [Frame(Bits(b), 10) EXCEPT ![Noise + 1] = symbol], bytes |-> <<>>]
Break == [line |-> [k \in 1 .. 15 |-> IF k <= 13 THEN Space ELSE Mark], bytes |-> <<>>]
Items ==
  {Plain(b) : b \in Bytes} \cup {Hit(b, symbol) : b \in Bytes, symbol \in {0, 3}} \cup {Break}

\* The bytes that its sender is at.
Begun(items) == IF items = <<>> THEN <<>> ELSE items[1].bytes

Line == IF say = <<>> THEN Mark ELSE say[1].line[(pos \div bit) + 1]

NabuSends ==
  LET ends == say # <<>> /\ pos + Cycle >= Len(say[1].line) * bit
  IN  /\ say' = IF ends THEN Tail(say) ELSE say
      /\ pos' = IF say = <<>> THEN 0
                ELSE IF ends THEN pos + Cycle - Len(say[1].line) * bit ELSE pos + Cycle
      /\ due' = IF ends THEN due \o Begun(Tail(say)) ELSE due

Hunting == [at |-> "hunt", time |-> 0, bits |-> <<>>]

Level == Plus(tx.pins)
Sampled == (2 * Len(ear.bits) + 1) * (bit \div 2) < ear.time + Cycle

EarHunts ==
  /\ ear.at = "hunt" /\ UNCHANGED heard
  /\ ear' = IF Level = 0 THEN [ear EXCEPT !.at = "bits", !.time = Cycle] ELSE ear

EarTimes ==
  /\ ear.at = "bits" /\ ~Sampled /\ UNCHANGED heard
  /\ ear' = [ear EXCEPT !.time = @ + Cycle]

EarSamples ==
  /\ ear.at = "bits" /\ Sampled /\ Len(ear.bits) < 9 /\ UNCHANGED heard
  /\ ear' = [ear EXCEPT !.time = @ + Cycle, !.bits = Append(@, Level)]

EarEnds ==
  /\ ear.at = "bits" /\ Sampled /\ Len(ear.bits) = 9
  /\ ear' = IF Level = 1 THEN Hunting ELSE [Hunting EXCEPT !.at = "break"]
  /\ heard' = IF Level = 1 /\ sure THEN Append(heard, Number(Tail(ear.bits))) ELSE heard

EarWaits ==
  /\ ear.at = "break" /\ UNCHANGED heard
  /\ ear' = IF Level = 1 THEN Hunting ELSE ear

NabuListens == EarHunts \/ EarTimes \/ EarSamples \/ EarEnds \/ EarWaits

-----------------------------------------------------------------------------
\* The receiving program, an instruction a cycle, and the cycles it delays.
\* The ISR holds 32 bits in symbols of one pin or two, oldest first.
Width == IF Kind = "duart" THEN 2 ELSE 1
Pins == IF Kind = "duart" THEN Line ELSE Plus(Line)
Empty == [k \in 1 .. (32 \div Width) |-> 0]

Goes(at, there, delay) ==
  /\ rx.at = at /\ rx.delay = 0
  /\ rx' = [rx EXCEPT !.at = there, !.delay = delay]
  /\ UNCHANGED rxfifo

RxDelay ==
  /\ rx.delay > 0 /\ rx' = [rx EXCEPT !.delay = @ - 1]
  /\ UNCHANGED rxfifo

RxStart == Goes("start", IF Plus(Line) = 0 THEN "set" ELSE "start", 0)

RxSet ==
  /\ rx.at = "set" /\ rx.delay = 0
  /\ rx' = [rx EXCEPT !.at = "in", !.delay = 10, !.x = 7]
  /\ UNCHANGED rxfifo

RxIn ==
  /\ rx.at = "in" /\ rx.delay = 0
  /\ rx' = [rx EXCEPT !.at = "loop", !.isr = Append(Tail(@), Pins)]
  /\ UNCHANGED rxfifo

RxLoopPast ==        \* mutant: x runs past 0
  /\ rx.at = "loop" /\ rx.delay = 0
  /\ rx' = [rx EXCEPT !.at = IF rx.x # 0 THEN "in" ELSE "stop", !.delay = 6, !.x = @ - 1]
  /\ UNCHANGED rxfifo

RxLoop ==
  /\ rx.at = "loop" /\ rx.delay = 0
  /\ rx' = [rx EXCEPT !.at = IF rx.x # 0 THEN "in" ELSE "stop", !.delay = 6,
                      !.x = IF @ # 0 THEN @ - 1 ELSE 7]
  /\ UNCHANGED rxfifo

RxStop == Goes("stop", IF Plus(Line) = 1 THEN "push" ELSE "irq", 0)

RxIrqOnly == Goes("irq", "jump", 0)     \* mutant: without the wait for mark
RxIrq == Goes("irq", "wait", 0)
RxWait == Goes("wait", IF Plus(Line) = 1 THEN "jump" ELSE "wait", 0)
RxJump == Goes("jump", "start", 0)

\* The push stalls while the FIFO is full.
RxPush ==
  /\ rx.at = "push" /\ rx.delay = 0
  /\ IF Len(rxfifo) < RxDepth
     THEN /\ rxfifo' = Append(rxfifo, rx.isr)
          /\ rx' = [rx EXCEPT !.at = "start", !.isr = Empty]
     ELSE UNCHANGED <<rx, rxfifo>>

RxCycle ==
  \/ RxDelay \/ RxStart \/ RxSet \/ RxIn \/ RxLoop \/ RxStop
  \/ RxIrq \/ RxWait \/ RxJump \/ RxPush

\* rxmap: the byte of eight pairs, or 0xEFEF.
RxMapHalf(pairs) ==      \* mutant: the table is filled for i < 128
  IF (\A k \in 1 .. 8 : pairs[k] \in {Mark, Space}) /\ pairs[8] = Space
  THEN Number([k \in 1 .. 8 |-> Plus(pairs[k])]) ELSE 61423

RxMap(pairs) ==
  IF \A k \in 1 .. 8 : pairs[k] \in {Mark, Space}
  THEN Number([k \in 1 .. 8 |-> Plus(pairs[k])]) ELSE 61423

\* duart_rx_program_get takes the last sixteen bits of the word, and
\* suart_rx_program_get the first eight.
RxGet(word) ==
  IF Kind = "duart" THEN RxMap(SubSeq(word, 9, 16)) ELSE Number(SubSeq(word, 1, 8))

-----------------------------------------------------------------------------
\* The transmitting program: the frame of a byte, its symbols for eight cycles
\* each; between frames the pins stay.
TxFrame(b) ==
  Frame(Bits(IF Kind = "duart" THEN b ELSE (2 * b + 1) % 256), 12)

TxDelayMore == 8     \* mutant: [8]
TxDelay == 7

TxCycle ==
  LET osr == IF tx.osr = <<>> /\ txfifo # <<>> THEN TxFrame(txfifo[1]) ELSE tx.osr
  IN  IF tx.delay > 0 THEN tx' = [tx EXCEPT !.delay = @ - 1] /\ UNCHANGED txfifo
      ELSE IF osr = <<>> THEN UNCHANGED <<tx, txfifo>>
      ELSE /\ tx' = [osr |-> Tail(osr), delay |-> TxDelay, pins |-> osr[1]]
           /\ txfifo' = IF tx.osr = <<>> THEN Tail(txfifo) ELSE txfifo

-----------------------------------------------------------------------------
\* The NABU sends, or the gateway does.  After duart_tx's set the pins show
\* space; suart_tx's show mark.
PioStart ==
  /\ bit \in BitTimes
  /\ \/ say \in [1 .. MaxItems -> Items] /\ pos \in 0 .. Cycle - 1 /\ todo = <<>>
     \/ say = <<>> /\ pos = 0 /\ todo \in Answers
  /\ rx = [at |-> "start", delay |-> 0, x |-> 7, isr |-> Empty] /\ rxfifo = <<>>
  /\ tx = [osr |-> <<>>, delay |-> 0, pins |-> IF Kind = "duart" THEN Space ELSE Mark]
  /\ txfifo = <<>>
  /\ ear = Hunting
  /\ due = Begun(say) /\ got = <<>> /\ sure = FALSE /\ must = <<>> /\ heard = <<>>

Tick ==
  /\ RxCycle /\ TxCycle /\ NabuSends /\ NabuListens
  /\ UNCHANGED <<bit, todo, got, sure, must>>

\* duart_readByteNonblocking, as its callers use it: a word that is no byte is
\* dropped.
ReadByte ==
  /\ rxfifo # <<>> /\ rxfifo' = Tail(rxfifo)
  /\ got' = IF RxGet(rxfifo[1]) < 256 THEN Append(got, RxGet(rxfifo[1])) ELSE got
  /\ UNCHANGED <<bit, rx, tx, txfifo, nabu_side, todo, due, sure, must, heard>>

SendByte ==
  /\ todo # <<>> /\ Len(txfifo) < RxDepth
  /\ todo' = Tail(todo) /\ txfifo' = Append(txfifo, todo[1])
  /\ LET idle == tx.osr = <<>> /\ txfifo = <<>> /\ ear = Hunting /\ tx.pins = Mark
     IN  /\ sure' = (sure \/ idle)
         /\ must' = IF sure' THEN Append(must, todo[1]) ELSE must
  /\ UNCHANGED <<bit, rx, rxfifo, tx, nabu_side, due, got, heard>>

PioNext == Tick \/ ReadByte \/ SendByte

PioSpec == PioStart /\ [][PioNext]_pio_vars /\ WF_pio_vars(Tick) /\ WF_pio_vars(ReadByte)

-----------------------------------------------------------------------------
\* Type invariant of the state machines.
PioTypeOK ==
  /\ rx.delay \in 0 .. 10 /\ rx.x \in 0 .. 7 /\ Len(rx.isr) * Width = 32
  /\ Len(rxfifo) <= RxDepth /\ Len(txfifo) <= RxDepth
  /\ tx.delay \in 0 .. 7 /\ tx.pins \in 0 .. 3 /\ Len(tx.osr) <= 11

\* What the gateway gets is what the NABU has sent, in its order: a byte that noise
\* hit is dropped, a break is not a byte, and neither spoils the next byte.
GotRight == IsPrefix(got, due)

\* Once the line has been idle at mark, the NABU hears every byte as it was put.
HeardRight == IsPrefix(heard, must)

\* And every byte arrives.
AllArrive == <>[](got = due /\ heard = must)
=============================================================================
