------------------------------ MODULE NabuLine ------------------------------
(***************************************************************************)
(* The adapter with the NABU on its line.  The NABU is not part of the     *)
(* repository: it is taken to do what main.c and packet.c wait for, one    *)
(* command after the other, to drop what it gets between commands, and to  *)
(* start over with 0x83 when it gets a byte it does not expect, when       *)
(* nothing comes any more, or when someone resets it.                      *)
(***************************************************************************)
EXTENDS Adapter

CONSTANTS
  Commands,        \* the commands the NABU gives, beside 0x83
  PacketRequests,  \* the four bytes of its packet requests
  Words,           \* the two bytes of its channel codes
  MaxUpsets,       \* bound: how often Upset happens
  RxDepth,         \* bytes the receive FIFO holds: 8 in the PIO, 32 in a UART
  NoWord

ASSUME NabuAssumption ==
  /\ Commands \subseteq Byte \ {0}
  /\ \A r \in PacketRequests : r \in Seq(Byte) /\ Len(r) = 4
  /\ \A w \in Words : w \in Seq(Byte) /\ Len(w) = 2
  /\ NoWord \notin Seq(Byte)
  /\ MaxUpsets \in Nat /\ RxDepth \in Nat

VARIABLES
  cmd,        \* the command the NABU is at, or Idle
  params,     \* the bytes it sends with it
  stage,      \* "idle", about to put the "command", to get the "reply", to put
              \* a "param" or to get "done"; at a packet request, to get the
              \* "kind" of answer, to put an "ack" or, refused, a "nak", or to
              \* get the "body"
  at,         \* how far it is in the stage
  word,       \* the last channel code it got confirmed
  got, esc,   \* the packet being received
  packet,     \* the packet it took as complete, in answer to its last request
  upsets      \* how often Upset happened

Idle == 0

nabu_vars == <<cmd, params, stage, at, word, got, esc, packet, upsets>>
line_vars == <<adapter_vars, nabu_vars>>

\* What the NABU waits for after a command.
Replies(c) ==
  CASE c = 1                      -> <<{31, 159}, {16}, {225}>>
    [] c = 5                      -> <<{Done}>>
    [] c = 30                     -> <<{16}, {225}>>
    [] c \in {129, 130, 132, 133} -> <<{16}, {6}>>
    [] c = 131                    -> <<{16}, {6}, {Done}>>
    [] OTHER                      -> <<>>

NabuStart ==
  /\ cmd = 131 /\ params = <<>> /\ stage = "command" /\ at = 0
  /\ word = NoWord /\ got = <<>> /\ esc = FALSE /\ packet = NoBody /\ upsets = 0

-----------------------------------------------------------------------------
Starts(c, what) ==
  /\ cmd' = c /\ params' = what /\ stage' = "command" /\ at' = 0
  /\ got' = <<>> /\ esc' = FALSE /\ packet' = NoBody

\* Between commands the NABU takes longer than the loop needs for the last one.
Begin(c, what) ==
  /\ cmd = Idle /\ tx = <<>>
  /\ \A k \in DOMAIN rx : rx[k].meant = "ack"
  /\ Starts(c, what)
  /\ word' = IF c = 133 THEN NoWord ELSE word
  /\ UNCHANGED <<adapter_vars, upsets>>

Restart == Starts(131, <<>>) /\ UNCHANGED word

Turn(next) == stage' = next /\ at' = 0 /\ UNCHANGED cmd
Stay == at' = at + 1 /\ UNCHANGED <<cmd, stage>>
EndCommand == cmd' = Idle /\ stage' = "idle" /\ at' = 0

Put(b, meant) ==
  /\ rx' = IF pc = "boot" THEN rx ELSE Append(rx, [byte |-> b, meant |-> meant])
  /\ UNCHANGED <<pc, args, answer, body, sent, channelWord, channelValid, tx,
                 params, word, got, esc, packet, upsets>>

PutCommand ==
  /\ stage = "command" /\ Put(cmd, "command")
  /\ IF Replies(cmd) = <<>> THEN EndCommand ELSE Turn("reply")

PutParam ==
  /\ stage = "param" /\ Put(params[at + 1], "param")
  /\ IF at + 1 = Len(params) THEN Turn("done") ELSE Stay

PutAck ==
  /\ stage \in {"ack", "nak"} /\ Put(Ack[at + 1], "ack")
  /\ IF at = 0 THEN Stay ELSE IF stage = "ack" THEN Turn("body") ELSE EndCommand

Heard(b) ==
  /\ tx # <<>> /\ Head(tx).byte = b /\ tx' = Tail(tx)
  /\ UNCHANGED <<pc, args, answer, body, sent, channelWord, channelValid, rx, upsets>>

Waiting == stage \in {"reply", "done", "kind", "body"}

\* A byte of the packet: 0x10 announces another 0x10, or the end.
Wanted ==
  CASE stage = "reply" -> Replies(cmd)[at + 1]
    [] stage = "done"  -> {Done}
    [] stage = "kind"  -> {145, 144}
    [] stage = "body"  -> IF esc THEN {16, End[2]} ELSE Byte

GetReply(b) ==
  /\ stage = "reply" /\ b \in Wanted /\ Heard(b)
  /\ IF at + 1 < Len(Replies(cmd)) THEN Stay
     ELSE IF cmd \in {132, 133} THEN Turn("param") ELSE EndCommand
  /\ UNCHANGED <<params, word, got, esc, packet>>

GetDone(b) ==
  /\ stage = "done" /\ b \in Wanted /\ Heard(b)
  /\ IF cmd = 133 THEN EndCommand /\ word' = params ELSE Turn("kind") /\ UNCHANGED word
  /\ UNCHANGED <<params, got, esc, packet>>

GetKind(b) ==
  /\ stage = "kind" /\ b \in Wanted /\ Heard(b)
  /\ Turn(IF b = 145 THEN "ack" ELSE "nak")
  /\ UNCHANGED <<params, word, got, esc, packet>>

GetData(b) ==
  /\ stage = "body" /\ b \in Wanted /\ Heard(b)
  /\ esc' = (b = 16 /\ ~esc)
  /\ got' = IF esc' \/ (esc /\ b = End[2]) THEN got ELSE Append(got, b)
  /\ IF esc /\ b = End[2] THEN packet' = got /\ EndCommand
     ELSE UNCHANGED <<packet, cmd, stage, at>>
  /\ UNCHANGED <<params, word>>

\* While it initialises it waits for the answer to 0x83, whatever comes before.
GetOther(b) ==
  /\ Waiting /\ b \notin Wanted /\ Heard(b)
  /\ IF cmd = 131
     THEN Turn("reply") /\ UNCHANGED <<params, word, got, esc, packet>>
     ELSE Restart

Drop(b) ==
  /\ cmd = Idle /\ Heard(b)
  /\ UNCHANGED <<cmd, params, stage, at, word, got, esc, packet>>

\* Nothing will come any more: the line is quiet and the gateway reads.
Sending == pc \in {"fetch", "prolog", "data", "refuse"}
Quiet == Waiting /\ tx = <<>> /\ rx = <<>> /\ ~Sending
GiveUp == Quiet /\ Restart /\ UNCHANGED <<adapter_vars, upsets>>

NabuStep ==
  \/ PutCommand \/ PutParam \/ PutAck \/ GiveUp
  \/ \E b \in {tx[k].byte : k \in DOMAIN tx} :
       GetReply(b) \/ GetDone(b) \/ GetKind(b) \/ GetData(b) \/ GetOther(b) \/ Drop(b)

NabuBegin ==
  \/ \E c \in Commands \ {132, 133} : Begin(c, <<>>)
  \/ \E r \in PacketRequests : Begin(132, r)
  \/ \E w \in Words : Begin(133, w)

\* The NABU is reset, the gateway rebooted, its test key pressed, or an empty file
\* found on the server, which draws one answer more.
Upset ==
  /\ upsets < MaxUpsets /\ upsets' = upsets + 1
  /\ \/ Restart /\ UNCHANGED adapter_vars
     \/ /\ Reboot \/ TestKey \/ FetchedEmpty
        /\ UNCHANGED <<cmd, params, stage, at, word, got, esc, packet>>

\* The gateway's reads wait for half a minute and more: none gives up while the
\* NABU has a byte to send, or one to get first.
NabuSilent == tx = <<>> /\ (cmd = Idle \/ Waiting)
Timeout == NabuSilent /\ AdapterTimeout /\ UNCHANGED nabu_vars

LineNext ==
  \/ AdapterStep /\ UNCHANGED nabu_vars
  \/ Timeout \/ NabuStep \/ NabuBegin \/ Upset

LineInit == AdapterStart /\ NabuStart

LineSpec ==
  /\ LineInit /\ [][LineNext]_line_vars
  /\ WF_line_vars(AdapterStep /\ UNCHANGED nabu_vars)
  /\ WF_line_vars(NabuStep)
-----------------------------------------------------------------------------
ToGateway == [byte : Byte, meant : {"command", "param", "ack"}]
FromGateway == [byte : Byte, meant : {"reply", "data", "mark", "end"}, item : Nat]
QueueTypes == rx \in Seq(ToGateway) /\ tx \in Seq(FromGateway)

GatewayTypes ==
  /\ pc \in {"boot", "loop", "channel_low", "channel_high", "packet",
             "fetch", "prolog", "read_10", "read_06", "data", "refuse"}
  /\ args \in Seq(Byte) /\ Len(args) <= 4
  /\ answer \in AnswerKinds \cup {"twice"}
  /\ body \in Seq(Byte) \cup {NoBody} /\ sent \in Nat
  /\ channelWord \in Uint16 /\ channelValid \in BOOLEAN

NabuTypes ==
  /\ cmd \in Byte /\ params \in {<<>>} \cup PacketRequests \cup Words
  /\ stage \in {"idle", "command", "reply", "param", "done", "kind", "ack", "nak", "body"}
  /\ at \in 0 .. 3 /\ word \in Words \cup {NoWord}
  /\ got \in Seq(Byte) /\ esc \in BOOLEAN /\ packet \in Seq(Byte) \cup {NoBody}
  /\ upsets \in 0 .. MaxUpsets

\* Type invariant of the line and its two ends; the receive FIFO never holds
\* more than it has room for.
LineTypeOK == QueueTypes /\ GatewayTypes /\ NabuTypes /\ Len(rx) <= RxDepth

\* What the gateway takes the next byte for.
Takes ==
  CASE pc = "loop" -> {"command", "ack"}
    [] pc \in {"channel_low", "channel_high", "packet"} -> {"param"}
    [] Reading -> {"ack"}
    [] OTHER -> {}

\* Each byte is taken for what the NABU meant by it: a parameter never for a
\* command, a command never for a parameter or a handshake, however requests
\* end and whatever handshake bytes a refusal leaves unread; and none comes
\* while the gateway sends.
InStep ==
  upsets = 0 /\ rx # <<>> => Head(rx).meant \in Takes

\* A packet the NABU took as complete is, byte for byte, the one the gateway
\* served for the very request the NABU made, whatever bytes either holds; what
\* a broken transfer left on the line is never taken for one.
PacketWhole ==
  packet # NoBody => packet = body /\ answer \in {"packet", "pak"} /\ args = params

\* After a channel code was confirmed the gateway has it, whole and valid.
ChannelAgreed ==
  word # NoWord /\ upsets = 0 =>
    channelWord = word[1] + 256 * word[2] /\ channelValid

\* The NABU has to start over only after an upset, or after a request that was
\* answered with silence or cut short.
StartsOverForCause ==
  [][cmd' = 131 /\ cmd \notin {131, Idle} =>
       upsets' > 0 \/ answer \in {"silence", "aborted"}]_line_vars

\* Every command comes to an end, and after a reset, a reboot or bytes out of
\* step, wherever they meet the gateway, the two are in step again.
Resyncs == cmd # Idle ~> cmd = Idle
=============================================================================
