------------------------------ MODULE Adapter ------------------------------
(***************************************************************************)
(* The gateway's side of the serial line, byte by byte: adapterLoop of     *)
(* src/main.c with the commands it answers, changeChannel and              *)
(* packetRequest with their reads and timeouts, and what handleRequest     *)
(* does on the line, as src/packet.c, src/wifi.c and src/duart.c write and *)
(* read it.  How handleRequest comes to its answer is module Gateway's.    *)
(*                                                                         *)
(* A byte on the line is marked with what its sender meant by it, which    *)
(* the other side does not see: to the gateway "command", "param" or       *)
(* "ack"; from it "reply" or, in an answer, "data", the "mark" before a    *)
(* doubled byte, or "end", with the place in the answer it is meant for.   *)
(***************************************************************************)
EXTENDS Integers, Sequences

CONSTANTS
  Bodies,      \* what a packet of a segment may hold: sequences of bytes
  Paks,        \* what a .pak may hold: sequences of bytes
  BLOCK,       \* TFTP_MAX_PAYLOAD_SIZE
  NoBody

Byte == 0 .. 255
Uint16 == 0 .. 256 * 256 - 1

ASSUME BodiesAssumption ==
  /\ \A d \in Bodies \cup Paks : d \in Seq(Byte)
  /\ BLOCK \in Nat \ {0}
  /\ NoBody \notin Seq(Byte)

VARIABLES
  pc,            \* "boot", "loop", "channel_low", "channel_high", "packet"; in
                 \* handleRequest: "fetch" (nothing sent yet), "prolog",
                 \* "read_10", "read_06", "data" or "refuse"
  args,          \* packetRequest: the bytes of request read so far
  answer, body,  \* how the last request is answered, and with what
  sent,          \* how many bytes of body are sent
  channelWord, channelValid,
  rx, tx         \* the bytes from and to the NABU

adapter_vars == <<pc, args, answer, body, sent, channelWord, channelValid, rx, tx>>

-----------------------------------------------------------------------------
Ack == <<16, 6>>        \* 0x10 0x06
Done == 228             \* 0xE4
End == <<16, 225>>      \* 0x10 0xE1

Marked(b, meant, k) == [byte |-> b, meant |-> meant, item |-> k]

\* duart_sendRawBytes, for what is no part of a packet.
Raw(bytes) == [k \in DOMAIN bytes |-> Marked(bytes[k], "reply", 0)]

DoubledNot(b, k) == <<Marked(b, "data", k)>>      \* mutant: duart_sendRawByte

\* duart_sendByte: 0x10 is sent twice.
Doubled(b, k) ==
  IF b = 16 THEN <<Marked(16, "mark", k), Marked(16, "data", k)>>
  ELSE <<Marked(b, "data", k)>>

\* sendPacketEpilog, and handleRequest's refusal, after k bytes of a packet.
Epilog(k) == <<Marked(End[1], "mark", k + 1), Marked(End[2], "end", k + 1)>>
Refusal(k) ==
  <<Marked(144, "data", k + 1), Marked(16, "mark", k + 2), Marked(6, "end", k + 2)>>

\* What a .pak has sent when the server fails in mid-file: whole blocks.
Parts == UNION {{SubSeq(d, 1, k * BLOCK) : k \in 1 .. (Len(d) \div BLOCK)} : d \in Paks}

\* How handleRequest may end, and with which bytes.
AnswerKinds == {"packet", "pak", "aborted", "refused", "silence"}
Answers == [packet |-> Bodies, pak |-> Paks, aborted |-> Parts,
            refused |-> {NoBody}, silence |-> {NoBody}]

AdapterStart ==
  /\ pc = "boot" /\ args = <<>> /\ answer = "silence" /\ body = NoBody /\ sent = 0
  /\ channelWord = 0 /\ channelValid = TRUE
  /\ rx = <<>> /\ tx = <<>>

-----------------------------------------------------------------------------
\* main up to adapterLoop; what arrives before duart_init is lost.
Boot == pc = "boot" /\ pc' = "loop" /\ UNCHANGED <<args, answer, body, sent,
                                                   channelWord, channelValid, rx, tx>>

\* A key on the console, which only adapterLoop looks at: reboot, or (x) the
\* test bytes.
Reboot ==
  /\ pc = "loop" /\ pc' = "boot"
  /\ channelWord' = 0 /\ channelValid' = TRUE
  /\ rx' = <<>>
  /\ UNCHANGED <<args, answer, body, sent, tx>>

TestKey ==
  /\ pc = "loop"
  /\ tx' = tx \o Raw(<<16, Done>>)
  /\ UNCHANGED <<pc, args, answer, body, sent, channelWord, channelValid, rx>>

\* The commands that only draw an answer.
ChannelStatus == <<IF channelValid THEN 31 ELSE 159>> \o End
Reply(b) ==
  CASE b = 1   -> ChannelStatus
    [] b = 5   -> <<Done>>
    [] b = 30  -> End
    [] b = 129 -> Ack
    [] b = 130 -> Ack                  \* getReady
    [] b = 131 -> Append(Ack, Done)    \* adapterInit
    [] OTHER   -> <<>>                 \* 0x0F, 0x1C, 0x8F and unknown bytes

\* duart_readByteNonblocking and the reads built on it.
Taken(b) == rx # <<>> /\ Head(rx).byte = b /\ rx' = Tail(rx)

Simple(b) ==
  /\ pc = "loop" /\ b \notin {132, 133} /\ Taken(b)
  /\ tx' = tx \o Raw(Reply(b))
  /\ UNCHANGED <<pc, args, answer, body, sent, channelWord, channelValid>>

ChangeChannel ==
  /\ pc = "loop" /\ Taken(133)
  /\ pc' = "channel_low" /\ tx' = tx \o Raw(Ack)
  /\ UNCHANGED <<args, answer, body, sent, channelWord, channelValid>>

ChannelLow(b) ==
  /\ pc = "channel_low" /\ Taken(b)
  /\ pc' = "channel_high" /\ channelWord' = b
  /\ UNCHANGED <<args, answer, body, sent, channelValid, tx>>

ChannelHighLost(b) ==      \* mutant: = for |=
  /\ pc = "channel_high" /\ Taken(b)
  /\ pc' = "loop" /\ channelWord' = 256 * b /\ channelValid' = TRUE
  /\ tx' = tx \o Raw(<<Done>>)
  /\ UNCHANGED <<args, answer, body, sent>>

ChannelHigh(b) ==
  /\ pc = "channel_high" /\ Taken(b)
  /\ pc' = "loop" /\ channelWord' = channelWord + 256 * b /\ channelValid' = TRUE
  /\ tx' = tx \o Raw(<<Done>>)
  /\ UNCHANGED <<args, answer, body, sent>>

PacketRequestKeep ==      \* mutant: request is not begun anew
  /\ pc = "loop" /\ Taken(132)
  /\ pc' = "packet" /\ tx' = tx \o Raw(Ack)
  /\ UNCHANGED <<args, answer, body, sent, channelWord, channelValid>>

PacketRequest ==
  /\ pc = "loop" /\ Taken(132)
  /\ pc' = "packet" /\ args' = <<>> /\ tx' = tx \o Raw(Ack)
  /\ UNCHANGED <<answer, body, sent, channelWord, channelValid>>

PacketArgShort(b) ==      \* mutant: three bytes make a request
  /\ pc = "packet" /\ Taken(b)
  /\ args' = Append(args, b)
  /\ IF Len(args) < 2 THEN UNCHANGED <<pc, tx>>
     ELSE pc' = "fetch" /\ tx' = tx \o Raw(<<Done>>)
  /\ UNCHANGED <<answer, body, sent, channelWord, channelValid>>

PacketArg(b) ==
  /\ pc = "packet" /\ Taken(b)
  /\ args' = Append(args, b)
  /\ IF Len(args) < 3 THEN UNCHANGED <<pc, tx>>
     ELSE pc' = "fetch" /\ tx' = tx \o Raw(<<Done>>)
  /\ UNCHANGED <<answer, body, sent, channelWord, channelValid>>

-----------------------------------------------------------------------------
\* handleRequest has what it will answer.  After an empty file, which tftp_close
\* has refused ("twice"), a .pak may be left to ask for.
Fetched ==
  /\ pc = "fetch"
  /\ answer' \in AnswerKinds /\ body' \in Answers[answer'] /\ sent' = 0
  /\ answer = "twice" => answer' \in {"pak", "aborted", "refused"}
  /\ pc' = CASE answer' = "refused" -> "refuse"
             [] answer' = "silence" -> "loop"
             [] OTHER -> "prolog"
  /\ UNCHANGED <<args, channelWord, channelValid, rx, tx>>

FetchedEmpty ==
  /\ pc = "fetch"
  /\ answer' = "twice" /\ body' = NoBody /\ sent' = 0
  /\ pc' = "prolog"
  /\ UNCHANGED <<args, channelWord, channelValid, rx, tx>>

\* The first byte of sendPacketProlog, tftp_write and sendUnauthorized.
Prolog ==
  /\ pc = "prolog" /\ pc' = "read_10"
  /\ tx' = tx \o Raw(<<IF answer = "twice" THEN 144 ELSE 145>>)
  /\ UNCHANGED <<args, answer, body, sent, channelWord, channelValid, rx>>

\* duart_readByteExpected comes back.  A packet of a segment is given up when
\* another byte or none came; tftp_write takes no notice; sendUnauthorized
\* leaves out its second read, and handleRequest goes on.
HasRead(well) ==
  LET on == well \/ answer \in {"pak", "aborted"}
  IN  pc' = IF pc = "read_10" /\ on THEN "read_06"
            ELSE IF answer = "twice" THEN "fetch"
            ELSE IF on THEN "data" ELSE "loop"

Reading == pc \in {"read_10", "read_06"}
Awaited == IF pc = "read_10" THEN 16 ELSE 6

ExpectedStubborn(b) ==      \* mutant: another byte is passed over
  /\ Reading /\ Taken(b)
  /\ IF b = Awaited THEN HasRead(TRUE) ELSE UNCHANGED pc
  /\ UNCHANGED <<args, answer, body, sent, channelWord, channelValid, tx>>

\* duart_readByteExpected.
Expected(b) ==
  /\ Reading /\ Taken(b) /\ HasRead(b = Awaited)
  /\ UNCHANGED <<args, answer, body, sent, channelWord, channelValid, tx>>

SendData ==
  /\ pc = "data" /\ sent < Len(body)
  /\ sent' = sent + 1
  /\ tx' = tx \o Doubled(body[sent + 1], sent + 1)
  /\ UNCHANGED <<pc, args, answer, body, channelWord, channelValid, rx>>

AllSent == pc = "data" /\ sent = Len(body)

SendEpilogNot ==      \* mutant: no epilog
  /\ AllSent /\ answer # "aborted" /\ pc' = "loop"
  /\ UNCHANGED <<args, answer, body, sent, channelWord, channelValid, rx, tx>>

\* sendPacketEpilog, called by sendPacketizedData or, for a .pak, tftp_close.
SendEpilog ==
  /\ AllSent /\ answer # "aborted" /\ pc' = "loop"
  /\ tx' = tx \o Epilog(sent)
  /\ UNCHANGED <<args, answer, body, sent, channelWord, channelValid, rx>>

\* handleRequest's refusal, also of what broke off in mid-file.
Refuse ==
  /\ pc = "refuse" \/ (AllSent /\ answer = "aborted")
  /\ pc' = "loop"
  /\ tx' = tx \o Refusal(sent)
  /\ UNCHANGED <<args, answer, body, sent, channelWord, channelValid, rx>>

AdapterStep ==
  \/ Boot \/ ChangeChannel \/ PacketRequest
  \/ Fetched \/ Prolog \/ SendData \/ SendEpilog \/ Refuse
  \/ \E b \in {rx[k].byte : k \in DOMAIN rx} :
       Simple(b) \/ ChannelLow(b) \/ ChannelHigh(b) \/ PacketArg(b) \/ Expected(b)

\* The reads give up.
ChannelTimeout ==
  /\ rx = <<>> /\ pc \in {"channel_low", "channel_high"}
  /\ pc' = "loop" /\ channelWord' = 0 /\ channelValid' = FALSE
  /\ UNCHANGED <<args, answer, body, sent, rx, tx>>

PacketTimeout ==
  /\ rx = <<>> /\ pc = "packet" /\ pc' = "loop"
  /\ UNCHANGED <<args, answer, body, sent, channelWord, channelValid, rx, tx>>

ExpectTimeout ==
  /\ rx = <<>> /\ Reading /\ HasRead(FALSE)
  /\ UNCHANGED <<args, answer, body, sent, channelWord, channelValid, rx, tx>>

AdapterTimeout == ChannelTimeout \/ PacketTimeout \/ ExpectTimeout
=============================================================================
